---------------------------- MODULE DeliveryProofs ----------------------------
(***************************************************************************)
(* Proofs about delivery between hosts and devices: conversations hubbed on *)
(* one host and mirrored on others, and the path of a channel post.        *)
(***************************************************************************)
EXTENDS ConvFederation, ChannelPosts, SequenceTheorems, TLAPS

(***************************************************************************)
(* No mirror forks from its hub, whatever the number of hosts, devices and *)
(* groups, whichever calls between hosts fail and whoever gives a group    *)
(* up: TypeOK and MirrorFollowsHub are invariants of ConvFederation.       *)
(*                                                                         *)
(* A mirror recomputes the link it stores from its own head, a step after  *)
(* it compared it with the hub's.  That the stored link is still the hub's *)
(* needs the hub's log to be ONE chain: one Commit per group and epoch,    *)
(* each linked to the one before it.  Then "the mirror is at epoch e of g" *)
(* alone determines its head, and the compare-and-set pins exactly that.   *)
(*                                                                         *)
(* While calls arrive and nobody resets, a device is also told the truth:  *)
(* RefusedIsNotHistory and AcceptedIsApplied (second part).                *)
(***************************************************************************)
HubCommits == {row \in conv[Hub].log : row.kind = "commit"}

\* A group state some Commit of the hub's log led to.
Reached(g, e, h) ==
    \E top \in HubCommits : top.group = g /\ top.epoch = e /\ top.hash = h

\* A Commit is in the log once, for a group somebody minted.
RowsInv ==
    \A row \in HubCommits :
        /\ row.id \in Commits
        /\ post[row.id].phase \notin {"idle", "sent"}
        /\ row.group \in Minted
        /\ row.epoch \in Nat \ {0}

OneInv ==
    \A row, top \in HubCommits :
        row.group = top.group /\ row.epoch = top.epoch => row = top

LinkInv ==
    \A row \in HubCommits :
        IF row.epoch = 1
          THEN row.hash = Link(<< >>, 1, row.group, row.id)
          ELSE \E top \in HubCommits :
                   /\ top.group = row.group /\ top.epoch = row.epoch - 1
                   /\ row.hash = Link(top.hash, row.epoch, row.group, row.id)

HeadInv ==
    /\ conv[Hub].group # NoGroup => Reached(conv[Hub].group, conv[Hub].epoch, conv[Hub].chain)
    /\ \A row \in HubCommits : row.group = conv[Hub].group => row.epoch <= conv[Hub].epoch

\* A group is established by one Commit, offered under an id of its own.
FreshInv ==
    /\ \A x \in Items : post[x].phase = "idle" => post[x].group = NoGroup
    /\ \A c \in Commits : post[c].phase # "idle" => post[c].group \in Groups
    /\ \A c \in Commits : post[c].phase = "sent" /\ post[c].base = 0 =>
           /\ \A row \in HubCommits : row.group # post[c].group
           /\ \A d \in Commits : post[d].phase = "sent" /\ post[d].group = post[c].group => d = c

\* What travels is what the hub has.
TravelInv ==
    /\ \A r \in net \cup checked : r.row \in conv[Hub].log
    /\ \A r \in checked : r.row.kind = "commit"
    /\ \A m \in Mirrors :
         /\ (spec[m].group = NoGroup) <=> (spec[m].epoch = 0)
         /\ spec[m].group # NoGroup => Reached(spec[m].group, spec[m].epoch, spec[m].chain)

AnswerInv ==
    \A c \in Commits :
        /\ post[c].phase \in {"stored", "checked"} => post[c].hash # << >>
        /\ post[c].hash # << >> =>
             \E row \in HubCommits :
                 /\ row.id = c /\ row.group = post[c].group
                 /\ row.epoch = post[c].base + 1 /\ row.hash = post[c].hash

IInv ==
    /\ TypeOK /\ RowsInv /\ OneInv /\ LinkInv /\ HeadInv /\ FreshInv
    /\ TravelInv /\ AnswerInv /\ MirrorFollowsHub

-----------------------------------------------------------------------------
(***************************************************************************)
(* What the store's operations do to a copy.                               *)
(***************************************************************************)
\* A link of well-formed parts is well-formed, and is never the nil hash.
LEMMA LinkType ==
    ASSUME NEW h \in Seq(Links), NEW e \in Nat, NEW g \in Groups, NEW c \in Commits
    PROVE  Link(h, e, g, c) \in Seq(Links) /\ Link(h, e, g, c) # << >>
  BY DEF Link, Links

\* Copy t is copy s after CommitMLSGroup accepted Commit c with link h.
CommitGrowth(s, t, c, g, b, h) ==
    /\ t \in Copies
    /\ h \in Seq(Links) /\ h # << >>
    /\ t.exists = s.exists /\ t.group = g /\ t.epoch = b + 1 /\ t.chain = h
    /\ \E k \in Nat : /\ CommitRow(c, g, b + 1, h, k) \in Rows
                      /\ t.log = s.log \cup {CommitRow(c, g, b + 1, h, k)}

\* An accepted CommitMLSGroup moves the copy to the Commit's group and epoch
\* and adds the Commit's row to its log.
LEMMA CommittedCopy ==
    ASSUME NEW s \in Copies, NEW c \in Commits, NEW g \in Groups, NEW b \in Nat, NEW n \in Nat,
           NEW h, h = Link(PrevHash(s, b), b + 1, g, c)
    PROVE  CommitGrowth(s, Committed(s, c, g, b, n), c, g, b, h)
  <1> DEFINE k == IF n = 0 THEN s.seq + 1 ELSE n
             row == CommitRow(c, g, b + 1, h, k)
  <1>1. s.chain \in Seq(Links) /\ s.seq \in Nat /\ s.log \in SUBSET Rows /\ s.exists \in BOOLEAN
    BY DEF Copies
  <1>2. PrevHash(s, b) \in Seq(Links)
    BY <1>1 DEF PrevHash
  <1>3. h \in Seq(Links) /\ h # << >>
    BY <1>2, LinkType
  <1>4. k \in Nat
    BY <1>1
  <1>5. row \in Rows
    <2> HIDE DEF k
    <2> QED BY <1>3, <1>4 DEF CommitRow, Rows, Items
  <1>6. Committed(s, c, g, b, n) =
          [exists |-> s.exists, group |-> g, epoch |-> b + 1, chain |-> h,
           seq |-> IF n = 0 THEN k ELSE s.seq, log |-> s.log \cup {row}]
    <2> HIDE DEF k, row
    <2>1. Committed(s, c, g, b, n) =
            [s EXCEPT !.group = g, !.epoch = b + 1, !.chain = h,
                      !.seq = IF n = 0 THEN k ELSE @, !.log = @ \cup {row}]
      BY DEF Committed, k, row
    <2> QED BY <2>1 DEF Copies
  <1>7. Committed(s, c, g, b, n) \in Copies
    <2> HIDE DEF k, row
    <2> QED BY <1>1, <1>3, <1>4, <1>5, <1>6 DEF Copies
  <1> QED
    <2> HIDE DEF k
    <2> QED BY <1>3, <1>4, <1>5, <1>6, <1>7 DEF CommitGrowth

\* Copy t is copy s with one row more, which is no Commit.
PlainGrowth(s, t, x, k) ==
    /\ t \in Copies
    /\ t.exists = s.exists /\ t.group = s.group /\ t.epoch = s.epoch /\ t.chain = s.chain
    /\ \E j \in Nat : /\ PlainRow(x, k, j) \in Rows
                      /\ t.log = s.log \cup {PlainRow(x, k, j)}

\* AppendChatMessage adds a row that is no Commit and touches no group state.
LEMMA AppendedCopy ==
    ASSUME NEW s \in Copies, NEW x \in Items \cup Mirrors, NEW n \in Nat,
           NEW k \in {"message", "membership"}
    PROVE  PlainGrowth(s, Appended(s, x, k, n), x, k)
  <1> DEFINE j == IF n = 0 THEN s.seq + 1 ELSE n
  <1>1. s.seq \in Nat /\ s.log \in SUBSET Rows
    BY DEF Copies
  <1>2. j \in Nat
    BY <1>1
  <1>3. PlainRow(x, k, j) \in Rows
    <2> HIDE DEF j
    <2> QED BY <1>2 DEF PlainRow, Rows
  <1>4. Appended(s, x, k, n) =
          [exists |-> s.exists, group |-> s.group, epoch |-> s.epoch, chain |-> s.chain,
           seq |-> IF n = 0 THEN j ELSE s.seq, log |-> s.log \cup {PlainRow(x, k, j)}]
    <2>1. CASE n = 0
      BY <2>1 DEF Appended, Copies
    <2>2. CASE n # 0
      BY <2>2 DEF Appended, Copies
    <2> QED BY <2>1, <2>2
  <1>5. Appended(s, x, k, n) \in Copies
    <2> HIDE DEF j
    <2> QED BY <1>1, <1>2, <1>3, <1>4 DEF Copies
  <1> QED
    <2> HIDE DEF j
    <2> QED BY <1>2, <1>3, <1>4, <1>5 DEF PlainGrowth

-----------------------------------------------------------------------------
(***************************************************************************)
(* The inductive step, one lemma per kind of step.                         *)
(***************************************************************************)
\* The hub's log is one chain, so the epoch a mirror is at decides the link it
\* computes: a Commit of the hub that fits the mirror's state gets there the
\* very hash the hub gave it.
LEMMA MirrorLink ==
    ASSUME IInv, NEW m \in Mirrors, NEW row \in HubCommits,
           Matches(conv[m], row.group, row.epoch - 1)
    PROVE  Link(PrevHash(conv[m], row.epoch - 1), row.epoch, row.group, row.id) = row.hash
  <1>1. row.epoch \in Nat \ {0} /\ row.group # NoGroup
    BY DEF IInv, RowsInv, Minted
  <1>2. CASE row.epoch = 1
    BY <1>2 DEF IInv, LinkInv, PrevHash
  <1>3. CASE row.epoch # 1
    <2>1. conv[m].group = row.group /\ conv[m].epoch = row.epoch - 1
      BY <1>1, <1>3 DEF Matches
    <2>2. PICK top \in HubCommits : top.group = row.group /\ top.epoch = row.epoch - 1
                                    /\ top.hash = conv[m].chain
      BY <1>1, <2>1 DEF IInv, MirrorFollowsHub, HubCommits
    <2>3. PICK pre \in HubCommits : pre.group = row.group /\ pre.epoch = row.epoch - 1
                                    /\ row.hash = Link(pre.hash, row.epoch, row.group, row.id)
      BY <1>3 DEF IInv, LinkInv
    <2>4. pre = top
      BY <2>2, <2>3 DEF IInv, OneInv
    <2> QED BY <1>1, <1>3, <2>2, <2>3, <2>4 DEF PrevHash
  <1> QED BY <1>2, <1>3

\* A step that leaves every copy alone keeps what is said of the copies alone.
LEMMA CopiesUnchanged ==
    ASSUME IInv, conv' = conv
    PROVE  /\ HubCommits' = HubCommits
           /\ ConvType' /\ OneInv' /\ LinkInv' /\ HeadInv' /\ MirrorFollowsHub'
  <1>1. HubCommits' = HubCommits
    BY DEF HubCommits
  <1> QED
    BY <1>1 DEF IInv, TypeOK, ConvType, OneInv, LinkInv, HeadInv, Reached, MirrorFollowsHub

\* Devices: a new Commit is built on a group of the hub's, or on one nobody
\* has heard of.
LEMMA ProposeStep ==
    ASSUME IInv, FederationAssumption,
           NEW c \in Commits, NEW h \in Hosts, NEW g \in Groups, Propose(c, h, g)
    PROVE  IInv'
  <1> USE DEF Propose
  <1>1. /\ HubCommits' = HubCommits
        /\ ConvType' /\ OneInv' /\ LinkInv' /\ HeadInv' /\ MirrorFollowsHub'
    BY CopiesUnchanged
  <1>2. c \in Items /\ conv[h].epoch \in Nat
    BY DEF IInv, TypeOK, ConvType, Copies, Items
  <1>3. post'[c] = [at |-> h, phase |-> "sent", group |-> g, base |-> conv[h].epoch, hash |-> << >>]
        /\ \A x \in Items : x # c => post'[x] = post[x]
    BY <1>2 DEF IInv, TypeOK, PostType
  <1>4. PostType'
    <2>1. post'[c] \in Posts
      BY <1>2, <1>3 DEF Posts, Phases
    <2> QED BY <1>2, <1>3, <2>1 DEF IInv, TypeOK, PostType
  <1>5. TypeOK'
    BY <1>1, <1>4 DEF IInv, TypeOK, AddType, NetType
  <1>6. \A row \in HubCommits : row.id # c
    BY DEF IInv, RowsInv
  <1>7. Minted \subseteq Minted'
    <2>1. \A d \in Commits : d # c => post'[d].group = post[d].group
      BY <1>3 DEF Items
    <2>2. post[c].group = NoGroup
      BY <1>2 DEF IInv, FreshInv
    <2> QED BY <2>1, <2>2 DEF Minted
  <1>8. RowsInv'
    BY <1>1, <1>3, <1>6, <1>7 DEF IInv, RowsInv, Items
  <1>9. FreshInv'
    <2>1. \A d \in Commits : d # c => post'[d] = post[d]
      BY <1>3 DEF Items
    <2>2. CASE conv[h].group = NoGroup
      <3>1. \A row \in HubCommits : row.group # g
        BY <2>2 DEF IInv, RowsInv
      <3>2. \A d \in Commits : d # c => post[d].group # g
        BY <2>2, FederationAssumption DEF Minted
      <3> QED BY <1>1, <1>3, <2>1, <3>1, <3>2 DEF IInv, FreshInv
    <2>3. CASE conv[h].group # NoGroup
      <3>1. conv[h].epoch # 0
        BY <2>3 DEF IInv, TypeOK, ConvType
      <3>2. \E row \in HubCommits : row.group = g
        BY <2>3 DEF IInv, HeadInv, Reached, MirrorFollowsHub, HubCommits, Hosts
      <3>3. \A d \in Commits : post[d].phase = "sent" /\ post[d].base = 0 => post[d].group # g
        BY <3>2 DEF IInv, FreshInv
      <3> QED BY <1>1, <1>3, <2>1, <3>1, <3>3 DEF IInv, FreshInv
    <2> QED BY <2>2, <2>3
  <1>10. TravelInv'
    BY <1>1 DEF IInv, TravelInv, Reached
  <1>11. AnswerInv'
    BY <1>1, <1>3 DEF IInv, AnswerInv, Items
  <1> QED BY <1>1, <1>5, <1>8, <1>9, <1>10, <1>11 DEF IInv

\* A post that only changes its phase, after the hub or the network had its say.
LEMMA PhaseKeeps ==
    ASSUME IInv, HubCommits' = HubCommits, NEW x \in Items,
           NEW ph \in Phases \ {"idle", "sent"},
           post[x].phase # "idle",
           ph \in {"answered", "checked"} => post[x].at # Hub,
           x \in Commits /\ ph \in {"stored", "checked"} => post[x].hash # << >>,
           post' = [post EXCEPT ![x].phase = ph]
    PROVE  PostType' /\ RowsInv' /\ FreshInv' /\ AnswerInv'
  <1>1. post \in [Items -> Posts] /\ post[x] \in Posts
    BY DEF IInv, TypeOK, PostType
  <1>2. post'[x] = [post[x] EXCEPT !.phase = ph]
        /\ \A y \in Items : y # x => post'[y] = post[y]
    BY <1>1
  <1>3. /\ post'[x] \in Posts
        /\ post'[x].phase = ph
        /\ post'[x].at = post[x].at /\ post'[x].group = post[x].group
        /\ post'[x].base = post[x].base /\ post'[x].hash = post[x].hash
    BY <1>1, <1>2 DEF Posts
  <1>4. PostType'
    BY <1>1, <1>2, <1>3 DEF IInv, TypeOK, PostType
  <1>5. \A c \in Commits : c \in Items /\ post'[c].group = post[c].group
                           /\ post'[c].base = post[c].base /\ post'[c].hash = post[c].hash
    BY <1>2, <1>3 DEF Items
  <1>6. Minted' = Minted
    BY <1>5 DEF Minted
  <1>7. RowsInv'
    BY <1>2, <1>3, <1>5, <1>6 DEF IInv, RowsInv
  <1>8. FreshInv'
    BY <1>2, <1>3, <1>5 DEF IInv, FreshInv
  <1>9. AnswerInv'
    BY <1>2, <1>3, <1>5 DEF IInv, AnswerInv
  <1> QED BY <1>4, <1>7, <1>8, <1>9

\* A step that leaves the posts alone keeps what is said of them.
LEMMA PostsUnchanged ==
    ASSUME IInv, HubCommits' = HubCommits, post' = post
    PROVE  PostType' /\ RowsInv' /\ FreshInv' /\ AnswerInv'
  BY DEF IInv, TypeOK, PostType, RowsInv, FreshInv, AnswerInv, Minted

\* So does one that leaves the relays and the rosters alone.
LEMMA TravelUnchanged ==
    ASSUME IInv, HubCommits' = HubCommits, conv[Hub].log \subseteq conv'[Hub].log,
           UNCHANGED <<roster, adding, spec, net, checked>>
    PROVE  AddType' /\ NetType' /\ TravelInv'
  BY DEF IInv, TypeOK, AddType, NetType, TravelInv, Reached

\* A row that is no Commit disturbs no Commit.
LEMMA AppendKeeps ==
    ASSUME IInv, FederationAssumption,
           NEW h \in Hosts, NEW x \in Items \cup Mirrors, NEW n \in Nat,
           NEW k \in {"message", "membership"},
           conv' = [conv EXCEPT ![h] = Appended(@, x, k, n)]
    PROVE  /\ HubCommits' = HubCommits
           /\ conv[Hub].log \subseteq conv'[Hub].log
           /\ \A m \in Mirrors : conv'[m].exists = conv[m].exists
           /\ ConvType' /\ OneInv' /\ LinkInv' /\ HeadInv' /\ MirrorFollowsHub'
  <1> DEFINE t == Appended(conv[h], x, k, n)
  <1>1. conv \in [Hosts -> Copies] /\ conv[h] \in Copies /\ Hub \in Hosts
    BY DEF IInv, TypeOK, ConvType, Hosts
  <1>2. /\ t \in Copies
        /\ t.exists = conv[h].exists /\ t.group = conv[h].group /\ t.epoch = conv[h].epoch
        /\ t.chain = conv[h].chain
        /\ \E j \in Nat : /\ PlainRow(x, k, j) \in Rows
                          /\ t.log = conv[h].log \cup {PlainRow(x, k, j)}
    <2>1. PlainGrowth(conv[h], t, x, k)
      BY <1>1, AppendedCopy
    <2> HIDE DEF t
    <2> QED BY <2>1 DEF PlainGrowth
  <1> HIDE DEF t
  <1>3. PICK j \in Nat : t.log = conv[h].log \cup {PlainRow(x, k, j)}
    BY <1>2
  <1>4. conv'[h] = t /\ \A i \in Hosts : i # h => conv'[i] = conv[i]
    BY <1>1 DEF t
  <1>5. PlainRow(x, k, j).kind # "commit"
    BY DEF PlainRow
  <1>6. \A i \in Hosts : /\ conv'[i].exists = conv[i].exists /\ conv'[i].group = conv[i].group
                         /\ conv'[i].epoch = conv[i].epoch /\ conv'[i].chain = conv[i].chain
                         /\ conv[i].log \subseteq conv'[i].log
                         /\ \A row \in conv'[i].log : row.kind = "commit" => row \in conv[i].log
    <2> TAKE i \in Hosts
    <2>1. CASE i # h
      BY <1>4, <2>1
    <2>2. CASE i = h
      <3>1. conv'[i].log = conv[i].log \cup {PlainRow(x, k, j)}
        BY <1>3, <1>4, <2>2
      <3>2. conv[i].log \subseteq conv'[i].log
            /\ \A row \in conv'[i].log : row.kind = "commit" => row \in conv[i].log
        BY <1>5, <3>1
      <3> QED BY <1>2, <1>4, <2>2, <3>2
    <2> QED BY <2>1, <2>2
  <1>7. HubCommits' = HubCommits
    BY <1>1, <1>6 DEF HubCommits
  <1>8. ConvType'
    BY <1>1, <1>2, <1>4, <1>6 DEF IInv, TypeOK, ConvType
  <1>9. OneInv' /\ LinkInv'
    BY <1>7 DEF IInv, OneInv, LinkInv
  <1>10. HeadInv'
    BY <1>1, <1>6, <1>7 DEF IInv, HeadInv, Reached
  <1>11. MirrorFollowsHub'
    BY <1>1, <1>6 DEF IInv, MirrorFollowsHub, Hosts
  <1> QED BY <1>1, <1>6, <1>7, <1>8, <1>9, <1>10, <1>11 DEF Hosts

\* postMessage and SubmitMessage: a message is in the hub's log.
LEMMA AppendMessageStep ==
    ASSUME IInv, FederationAssumption, NEW x \in Messages, AppendMessage(x)
    PROVE  IInv'
  <1> USE DEF AppendMessage
  <1>1. x \in Items /\ x \notin Commits /\ Hub \in Hosts
    BY FederationAssumption DEF Items, Hosts
  <1>2. /\ HubCommits' = HubCommits
        /\ conv[Hub].log \subseteq conv'[Hub].log
        /\ \A m \in Mirrors : conv'[m].exists = conv[m].exists
        /\ ConvType' /\ OneInv' /\ LinkInv' /\ HeadInv' /\ MirrorFollowsHub'
    BY <1>1, AppendKeeps
  <1>3. PostType' /\ RowsInv' /\ FreshInv' /\ AnswerInv'
    BY <1>1, <1>2, PhaseKeeps DEF Phases
  <1>4. AddType' /\ NetType' /\ TravelInv'
    BY <1>2, TravelUnchanged
  <1> QED BY <1>2, <1>3, <1>4 DEF IInv, TypeOK

\* ForwardMessage: the hub's row is on the mirror it came from.
LEMMA EchoMessageStep ==
    ASSUME IInv, FederationAssumption, NEW x \in Messages, EchoMessage(x)
    PROVE  IInv'
  <1> USE DEF EchoMessage
  <1>1. x \in Items /\ x \notin Commits /\ post[x].at \in Hosts
    BY FederationAssumption DEF IInv, TypeOK, PostType, Posts, Items
  <1>2. PICK row \in conv[Hub].log :
            conv' = [conv EXCEPT ![post[x].at] = Appended(@, x, "message", row.seq)]
    OBVIOUS
  <1>3. row.seq \in Nat
    BY DEF IInv, TypeOK, ConvType, Copies, Hosts, Rows
  <1>4. /\ HubCommits' = HubCommits
        /\ conv[Hub].log \subseteq conv'[Hub].log
        /\ \A m \in Mirrors : conv'[m].exists = conv[m].exists
        /\ ConvType' /\ OneInv' /\ LinkInv' /\ HeadInv' /\ MirrorFollowsHub'
    BY <1>1, <1>2, <1>3, AppendKeeps
  <1>5. PostType' /\ RowsInv' /\ FreshInv' /\ AnswerInv'
    BY <1>1, <1>4, PhaseKeeps DEF Phases
  <1>6. AddType' /\ NetType' /\ TravelInv'
    BY <1>4, TravelUnchanged
  <1> QED BY <1>4, <1>5, <1>6 DEF IInv, TypeOK

\* DeliverRelayed of what is no Commit.
LEMMA DeliverMessageStep ==
    ASSUME IInv, FederationAssumption, NEW r \in net, DeliverMessage(r)
    PROVE  IInv'
  <1> USE DEF DeliverMessage
  <1>1. /\ r.to \in Hosts /\ r.row.id \in Items \cup Mirrors /\ r.row.seq \in Nat
        /\ r.row.kind \in {"message", "membership"}
    BY DEF IInv, TypeOK, NetType, Hosts, Rows
  <1>2. /\ HubCommits' = HubCommits
        /\ conv[Hub].log \subseteq conv'[Hub].log
        /\ \A m \in Mirrors : conv'[m].exists = conv[m].exists
        /\ ConvType' /\ OneInv' /\ LinkInv' /\ HeadInv' /\ MirrorFollowsHub'
    <2>1. CASE conv[r.to].exists
      BY <1>1, <2>1, AppendKeeps
    <2>2. CASE ~conv[r.to].exists
      BY <2>2, CopiesUnchanged
    <2> QED BY <2>1, <2>2
  <1>3. PostType' /\ RowsInv' /\ FreshInv' /\ AnswerInv'
    BY <1>2, PostsUnchanged
  <1>4. AddType' /\ NetType' /\ TravelInv'
    BY <1>2 DEF IInv, TypeOK, AddType, NetType, TravelInv, Reached
  <1> QED BY <1>2, <1>3, <1>4 DEF IInv, TypeOK

\* The membership line.
LEMMA RecordMembershipStep ==
    ASSUME IInv, FederationAssumption, NEW m \in Mirrors, RecordMembership(m)
    PROVE  IInv'
  <1> USE DEF RecordMembership
  <1>1. Hub \in Hosts
    BY DEF Hosts
  <1>2. /\ HubCommits' = HubCommits
        /\ conv[Hub].log \subseteq conv'[Hub].log
        /\ \A i \in Mirrors : conv'[i].exists = conv[i].exists
        /\ ConvType' /\ OneInv' /\ LinkInv' /\ HeadInv' /\ MirrorFollowsHub'
    BY <1>1, AppendKeeps
  <1>3. PostType' /\ RowsInv' /\ FreshInv' /\ AnswerInv'
    BY <1>2, PostsUnchanged
  <1>4. AddType' /\ NetType' /\ TravelInv'
    BY <1>2 DEF IInv, TypeOK, AddType, NetType, TravelInv, Reached
  <1> QED BY <1>2, <1>3, <1>4 DEF IInv, TypeOK

\* Steps of a post that touch no copy: the hub's refusal, its relays, the
\* mirror's reading of an answer, the loss of a call.
LEMMA PostStep ==
    ASSUME IInv, FederationAssumption, NEW x \in Items,
           \/ Relay(x) \/ LosePost(x)
           \/ x \in Commits /\ (\/ Refuse(x) \/ AnswerConflict(x) \/ AnswerDivergent(x)
                                \/ AnswerAccepted(x))
    PROVE  IInv'
  <1>1. conv' = conv /\ roster' = roster
    BY DEF Relay, LosePost, Refuse, AnswerConflict, AnswerDivergent, AnswerAccepted
  <1> USE DEF Phases
  <1>2. /\ HubCommits' = HubCommits
        /\ ConvType' /\ OneInv' /\ LinkInv' /\ HeadInv' /\ MirrorFollowsHub'
    BY <1>1, CopiesUnchanged
  <1>3. PICK ph \in Phases \ {"idle", "sent"} :
            /\ post' = [post EXCEPT ![x].phase = ph]
            /\ post[x].phase # "idle"
            /\ ph \in {"answered", "checked"} => post[x].at # Hub
            /\ x \in Commits /\ ph \in {"stored", "checked"} => post[x].hash # << >>
    <2>1. /\ post[x].phase = "stored" => x \notin Commits \/ post[x].hash # << >>
          /\ post[x].phase = "answered" => post[x].at # Hub
      BY DEF IInv, AnswerInv, TypeOK, PostType
    <2>2. CASE Relay(x)
      <3> WITNESS (IF post[x].at = Hub THEN "ok" ELSE "answered") \in Phases \ {"idle", "sent"}
      <3> QED BY <2>1, <2>2 DEF Relay
    <2>3. CASE LosePost(x)
      <3> WITNESS "error" \in Phases \ {"idle", "sent"}
      <3> QED BY <2>3 DEF LosePost
    <2>4. CASE x \in Commits /\ Refuse(x)
      <3> WITNESS (IF post[x].at = Hub THEN "conflict" ELSE "answered") \in Phases \ {"idle", "sent"}
      <3> QED BY <2>4 DEF Refuse
    <2>5. CASE x \in Commits /\ AnswerConflict(x)
      <3> WITNESS "conflict" \in Phases \ {"idle", "sent"}
      <3> QED BY <2>5 DEF AnswerConflict
    <2>6. CASE x \in Commits /\ AnswerDivergent(x)
      <3> WITNESS "error" \in Phases \ {"idle", "sent"}
      <3> QED BY <2>6 DEF AnswerDivergent
    <2>7. CASE x \in Commits /\ AnswerAccepted(x)
      <3> WITNESS "checked" \in Phases \ {"idle", "sent"}
      <3> QED BY <2>1, <2>7 DEF AnswerAccepted
    <2> QED BY <2>2, <2>3, <2>4, <2>5, <2>6, <2>7
  <1>4. PostType' /\ RowsInv' /\ FreshInv' /\ AnswerInv'
    BY <1>2, <1>3, PhaseKeeps
  <1>5. AddType' /\ NetType' /\ TravelInv'
    <2>1. CASE Relay(x)
      <3>1. UNCHANGED <<roster, adding, spec, checked>> /\ roster \subseteq Mirrors
        BY <2>1 DEF Relay, IInv, TypeOK, AddType
      <3>2. \A r \in net' \ net : r \in [to : Mirrors, row : conv[Hub].log]
        BY <2>1, <3>1 DEF Relay
      <3>3. conv[Hub].log \subseteq Rows
        BY DEF IInv, TypeOK, ConvType, Copies, Hosts
      <3> QED
        BY <1>1, <1>2, <3>1, <3>2, <3>3 DEF IInv, TypeOK, AddType, NetType, TravelInv, Reached
    <2>2. CASE ~Relay(x)
      BY <1>1, <1>2, <2>2, TravelUnchanged
         DEF LosePost, Refuse, AnswerConflict, AnswerDivergent, AnswerAccepted
    <2> QED BY <2>1, <2>2
  <1> QED BY <1>1, <1>2, <1>4, <1>5 DEF IInv, TypeOK

\* postMessage on a device's own host.
LEMMA SendStep ==
    ASSUME IInv, FederationAssumption, NEW x \in Messages, NEW h \in Hosts, Send(x, h)
    PROVE  IInv'
  <1>1. x \in Items /\ x \notin Commits
    BY FederationAssumption DEF Items
  <1>2. /\ HubCommits' = HubCommits
        /\ ConvType' /\ OneInv' /\ LinkInv' /\ HeadInv' /\ MirrorFollowsHub'
    BY CopiesUnchanged DEF Send
  <1>3. /\ post \in [Items -> Posts] /\ post[x] \in Posts
        /\ post'[x] = [[post[x] EXCEPT !.at = h] EXCEPT !.phase = "sent"]
        /\ \A y \in Items : y # x => post'[y] = post[y]
    BY <1>1 DEF IInv, TypeOK, PostType, Send
  <1>4. post'[x] \in Posts /\ post'[x].phase = "sent"
    <2>1. [post[x] EXCEPT !.at = h] \in Posts
      BY <1>3 DEF Posts
    <2>2. \A p \in Posts : [p EXCEPT !.phase = "sent"] \in Posts
                            /\ [p EXCEPT !.phase = "sent"].phase = "sent"
      BY DEF Posts, Phases
    <2> QED BY <1>3, <2>1, <2>2
  <1>5. PostType'
    <2>1. post' \in [Items -> Posts]
      BY <1>3, <1>4 DEF Send
    <2>2. \A y \in Items : post'[y].phase \in {"answered", "checked"} => post'[y].at # Hub
      BY <1>3, <1>4 DEF IInv, TypeOK, PostType
    <2> QED BY <2>1, <2>2 DEF PostType
  <1>6. \A c \in Commits : c \in Items /\ post'[c] = post[c]
    BY <1>1, <1>3 DEF Items
  <1>7. Minted' = Minted
    BY <1>6 DEF Minted
  <1>8. RowsInv' /\ AnswerInv'
    <2>1. RowsInv'
      BY <1>2, <1>6, <1>7 DEF IInv, RowsInv
    <2>2. AnswerInv'
      BY <1>2, <1>6 DEF IInv, AnswerInv
    <2> QED BY <2>1, <2>2
  <1>9. FreshInv'
    <2>1. post'[x].phase # "idle" /\ \A y \in Items : y # x => post'[y] = post[y]
      BY <1>3, <1>4
    <2> QED BY <1>2, <1>6, <2>1 DEF IInv, FreshInv
  <1>10. AddType' /\ NetType' /\ TravelInv'
    BY <1>2, TravelUnchanged DEF Send
  <1> QED BY <1>2, <1>5, <1>8, <1>9, <1>10 DEF IInv, TypeOK, Send

\* ResetMLSGroup on any host.
LEMMA ResetStep ==
    ASSUME IInv, FederationAssumption, NEW h \in Hosts, Reset(h)
    PROVE  IInv'
  <1> USE DEF Reset
  <1>1. conv \in [Hosts -> Copies] /\ conv[h] \in Copies /\ Hub \in Hosts
    BY DEF IInv, TypeOK, ConvType, Hosts
  <1>2. conv'[h] = [[conv[h] EXCEPT !.group = NoGroup] EXCEPT !.epoch = 0]
        /\ \A i \in Hosts : i # h => conv'[i] = conv[i]
    BY <1>1
  <1>3. /\ conv'[h] \in Copies /\ conv'[h].group = NoGroup /\ conv'[h].epoch = 0
        /\ conv'[h].exists = conv[h].exists /\ conv'[h].log = conv[h].log
    BY <1>1, <1>2 DEF Copies
  <1>4. \A i \in Hosts : conv'[i].exists = conv[i].exists /\ conv'[i].log = conv[i].log
    BY <1>2, <1>3
  <1>5. HubCommits' = HubCommits
    BY <1>1, <1>4 DEF HubCommits
  <1>6. ConvType'
    BY <1>1, <1>2, <1>3 DEF IInv, TypeOK, ConvType
  <1>7. OneInv' /\ LinkInv'
    BY <1>5 DEF IInv, OneInv, LinkInv
  <1>8. HeadInv'
    <2>1. \A row \in HubCommits : row.group # NoGroup
      BY DEF IInv, RowsInv, Minted
    <2>2. CASE h = Hub
      BY <1>3, <1>5, <2>1, <2>2 DEF HeadInv
    <2>3. CASE h # Hub
      BY <1>1, <1>2, <1>5, <2>3 DEF IInv, HeadInv, Reached
    <2> QED BY <2>2, <2>3
  <1>9. MirrorFollowsHub'
    <2>1. \A m \in Mirrors : m \in Hosts /\ (conv'[m] = conv[m] \/ conv'[m].group = NoGroup)
      BY <1>2, <1>3 DEF Hosts
    <2> QED BY <1>1, <1>4, <2>1 DEF IInv, MirrorFollowsHub
  <1>10. PostType' /\ RowsInv' /\ FreshInv' /\ AnswerInv'
    BY <1>5, PostsUnchanged
  <1>11. AddType' /\ NetType' /\ TravelInv'
    BY <1>1, <1>4, <1>5, TravelUnchanged
  <1> QED BY <1>4, <1>6, <1>7, <1>8, <1>9, <1>5, <1>10, <1>11 DEF IInv, TypeOK, Hosts

\* A Commit of the hub's that a mirror's store accepts leaves the mirror where
\* the hub was, with the hub's own row.
LEMMA MirrorCommits ==
    ASSUME IInv, FederationAssumption, NEW m \in Mirrors, NEW row \in HubCommits, NEW n \in Nat,
           Matches(conv[m], row.group, row.epoch - 1),
           conv' = [conv EXCEPT ![m] = Committed(@, row.id, row.group, row.epoch - 1, n)]
    PROVE  /\ HubCommits' = HubCommits /\ conv'[Hub] = conv[Hub]
           /\ \A i \in Mirrors : conv'[i].exists = conv[i].exists
           /\ ConvType' /\ OneInv' /\ LinkInv' /\ HeadInv' /\ MirrorFollowsHub'
  <1> DEFINE t == Committed(conv[m], row.id, row.group, row.epoch - 1, n)
             b == row.epoch - 1
  <1>1. conv \in [Hosts -> Copies] /\ conv[m] \in Copies /\ Hub \in Hosts /\ m \in Hosts /\ m # Hub
    BY FederationAssumption DEF IInv, TypeOK, ConvType, Hosts
  <1>2. row.id \in Commits /\ row.group \in Groups /\ row.epoch \in Nat \ {0} /\ row.kind = "commit"
    <2>1. row \in Rows
      BY <1>1 DEF IInv, TypeOK, ConvType, Copies, HubCommits
    <2> QED BY <2>1 DEF IInv, RowsInv, Minted, Rows, HubCommits
  <1>3. b \in Nat /\ b + 1 = row.epoch
    BY <1>2
  <1>4. row.hash = Link(PrevHash(conv[m], b), b + 1, row.group, row.id)
    BY <1>3, MirrorLink
  <1>5. CommitGrowth(conv[m], t, row.id, row.group, b, row.hash)
    <2> HIDE DEF b
    <2>1. t = Committed(conv[m], row.id, row.group, b, n)
      BY DEF b
    <2> HIDE DEF t
    <2> QED BY <1>1, <1>2, <1>3, <1>4, <2>1, CommittedCopy
  <1>6. conv'[m] = t /\ \A i \in Hosts : i # m => conv'[i] = conv[i]
    BY <1>1
  <1> HIDE DEF t, b
  <1>7. /\ t \in Copies /\ t.exists = conv[m].exists /\ t.group = row.group
        /\ t.epoch = row.epoch /\ t.chain = row.hash
    BY <1>3, <1>5 DEF CommitGrowth
  <1>8. \A new \in t.log \ conv[m].log : SameCommit(new, row)
    BY <1>2, <1>3, <1>5 DEF CommitGrowth, CommitRow, SameCommit
  <1>9. HubCommits' = HubCommits /\ conv'[Hub] = conv[Hub]
    BY <1>1, <1>6 DEF HubCommits
  <1>10. ConvType'
    <2>1. row.group # NoGroup
      BY <1>2, FederationAssumption
    <2> QED BY <1>1, <1>2, <1>6, <1>7, <1>9, <2>1 DEF IInv, TypeOK, ConvType
  <1>11. OneInv' /\ LinkInv' /\ HeadInv'
    BY <1>9 DEF IInv, OneInv, LinkInv, HeadInv, Reached
  <1>12. MirrorFollowsHub'
    <2> SUFFICES ASSUME NEW i \in Mirrors
                 PROVE  /\ \A new \in conv'[i].log : new.kind = "commit" =>
                              \E top \in conv[Hub].log : SameCommit(new, top)
                        /\ conv'[i].group # NoGroup =>
                              \E top \in conv[Hub].log :
                                  /\ top.kind = "commit" /\ top.group = conv'[i].group
                                  /\ top.epoch = conv'[i].epoch /\ top.hash = conv'[i].chain
      BY <1>9 DEF MirrorFollowsHub, SameCommit
    <2>1. row \in conv[Hub].log
      BY DEF HubCommits
    <2>2. CASE i = m
      BY <1>2, <1>6, <1>7, <1>8, <2>1, <2>2 DEF IInv, MirrorFollowsHub
    <2>3. CASE i # m
      BY <1>6, <2>3 DEF IInv, MirrorFollowsHub, Hosts
    <2> QED BY <2>2, <2>3
  <1>13. \A i \in Mirrors : conv'[i].exists = conv[i].exists
    BY <1>6, <1>7 DEF Hosts
  <1> QED BY <1>9, <1>10, <1>11, <1>12, <1>13

\* applyRelayedCommit: the Commit was verified against a head read earlier.
LEMMA ApplyCommitStep ==
    ASSUME IInv, FederationAssumption, NEW r \in checked, ApplyCommit(r)
    PROVE  IInv'
  <1>1. r.row \in HubCommits /\ r.to \in Mirrors /\ r.row.seq \in Nat
    BY DEF IInv, TypeOK, NetType, TravelInv, HubCommits, Rows
  <1>2. /\ HubCommits' = HubCommits /\ conv'[Hub] = conv[Hub]
        /\ \A i \in Mirrors : conv'[i].exists = conv[i].exists
        /\ ConvType' /\ OneInv' /\ LinkInv' /\ HeadInv' /\ MirrorFollowsHub'
    <2>1. CASE Matches(conv[r.to], r.row.group, r.row.epoch - 1)
      BY <1>1, <2>1, MirrorCommits DEF ApplyCommit
    <2>2. CASE ~Matches(conv[r.to], r.row.group, r.row.epoch - 1)
      BY <2>2, CopiesUnchanged DEF ApplyCommit
    <2> QED BY <2>1, <2>2
  <1>3. PostType' /\ RowsInv' /\ FreshInv' /\ AnswerInv'
    BY <1>2, PostsUnchanged DEF ApplyCommit
  <1>4. AddType' /\ NetType' /\ TravelInv'
    BY <1>2 DEF IInv, TypeOK, AddType, NetType, TravelInv, Reached, ApplyCommit
  <1> QED BY <1>2, <1>3, <1>4 DEF IInv, TypeOK, ApplyCommit

\* ForwardCommit: so was this one.
LEMMA ApplyAnswerStep ==
    ASSUME IInv, FederationAssumption, NEW c \in Commits, ApplyAnswer(c)
    PROVE  IInv'
  <1>1. c \in Items /\ post[c].at \in Mirrors /\ post[c].phase = "checked" /\ post[c].base \in Nat
    BY DEF IInv, TypeOK, PostType, Posts, Hosts, Items, ApplyAnswer
  <1>2. PICK row \in HubCommits : row.id = c /\ row.group = post[c].group
                                  /\ row.epoch = post[c].base + 1
    BY <1>1 DEF IInv, AnswerInv
  <1>3. row.epoch - 1 = post[c].base
    BY <1>1, <1>2
  <1>4. /\ HubCommits' = HubCommits /\ conv'[Hub] = conv[Hub]
        /\ \A i \in Mirrors : conv'[i].exists = conv[i].exists
        /\ ConvType' /\ OneInv' /\ LinkInv' /\ HeadInv' /\ MirrorFollowsHub'
    <2>1. CASE Matches(conv[post[c].at], post[c].group, post[c].base)
      <3>1. conv' = [conv EXCEPT ![post[c].at] = Committed(@, row.id, row.group, row.epoch - 1, 0)]
        BY <1>2, <1>3, <2>1 DEF ApplyAnswer
      <3> QED BY <1>1, <1>2, <1>3, <2>1, <3>1, MirrorCommits
    <2>2. CASE ~Matches(conv[post[c].at], post[c].group, post[c].base)
      BY <2>2, CopiesUnchanged DEF ApplyAnswer
    <2> QED BY <2>1, <2>2
  <1>5. PostType' /\ RowsInv' /\ FreshInv' /\ AnswerInv'
    BY <1>1, <1>4, PhaseKeeps DEF ApplyAnswer, Phases
  <1>6. AddType' /\ NetType' /\ TravelInv'
    BY <1>4, TravelUnchanged DEF ApplyAnswer
  <1> QED BY <1>4, <1>5, <1>6 DEF IInv, TypeOK, ApplyAnswer

\* A relay verified, refused or lost, and the steps of addMember on the hub.
LEMMA QuietStep ==
    ASSUME IInv, FederationAssumption,
           \/ \E r \in net : CheckCommit(r) \/ DropCommit(r) \/ LoseRelay(r)
           \/ \E m \in Mirrors : ReadConversation(m) \/ AddMemberRow(m) \/ LoseProvision(m)
    PROVE  IInv'
  <1> USE DEF CheckCommit, DropCommit, LoseRelay, ReadConversation, AddMemberRow, LoseProvision
  <1>1. conv' = conv /\ post' = post
    OBVIOUS
  <1>2. /\ HubCommits' = HubCommits
        /\ ConvType' /\ OneInv' /\ LinkInv' /\ HeadInv' /\ MirrorFollowsHub'
    BY <1>1, CopiesUnchanged
  <1>3. PostType' /\ RowsInv' /\ FreshInv' /\ AnswerInv'
    BY <1>1, <1>2, PostsUnchanged
  <1>4. AddType' /\ NetType' /\ TravelInv' /\ roster \subseteq roster'
    <2>1. CASE \E r \in net : CheckCommit(r) \/ DropCommit(r) \/ LoseRelay(r)
      <3>1. AddType' /\ roster \subseteq roster'
        BY <2>1 DEF IInv, TypeOK, AddType
      <3>2. NetType'
        BY <2>1 DEF IInv, TypeOK, NetType
      <3>3. TravelInv'
        BY <1>1, <1>2, <2>1 DEF IInv, TravelInv, Reached
      <3> QED BY <3>1, <3>2, <3>3
    <2>2. ASSUME NEW m \in Mirrors, AddMemberRow(m) \/ LoseProvision(m)
          PROVE  AddType' /\ NetType' /\ TravelInv' /\ roster \subseteq roster'
      <3>1. AddType' /\ roster \subseteq roster'
        BY <2>2 DEF IInv, TypeOK, AddType
      <3>2. NetType' /\ TravelInv'
        BY <1>1, <1>2, <2>2 DEF IInv, TypeOK, NetType, TravelInv, Reached
      <3> QED BY <3>1, <3>2
    <2>3. ASSUME NEW m \in Mirrors, ReadConversation(m)
          PROVE  AddType' /\ NetType' /\ TravelInv' /\ roster \subseteq roster'
      <3>1. conv[Hub] \in Copies /\ (conv[Hub].group = NoGroup <=> conv[Hub].epoch = 0)
        BY DEF IInv, TypeOK, ConvType, Hosts
      <3>2. spec'[m] = GroupState(conv[Hub]) /\ \A i \in Mirrors : i # m => spec'[i] = spec[i]
        BY <2>3 DEF IInv, TypeOK, AddType
      <3>3. AddType'
        BY <2>3, <3>1 DEF IInv, TypeOK, AddType, GroupState, Copies
      <3>4. TravelInv'
        BY <1>1, <1>2, <2>3, <3>1, <3>2 DEF IInv, HeadInv, TravelInv, Reached, GroupState
      <3> QED BY <2>3, <3>3, <3>4 DEF IInv, TypeOK, NetType
    <2> QED BY <2>1, <2>2, <2>3
  <1> QED BY <1>1, <1>2, <1>3, <1>4 DEF IInv, TypeOK

\* ProvisionMirror: a new mirror starts from a state the hub was in.
LEMMA ProvisionStep ==
    ASSUME IInv, FederationAssumption, NEW m \in Mirrors, ProvisionMirror(m)
    PROVE  IInv'
  <1>1. /\ conv \in [Hosts -> Copies] /\ conv[m] \in Copies /\ Hub \in Hosts /\ m \in Hosts
        /\ m # Hub /\ m \in roster
    BY FederationAssumption DEF IInv, TypeOK, ConvType, AddType, Hosts, ProvisionMirror
  <1>2. /\ conv'[m] \in Copies /\ conv'[m].log = conv[m].log
        /\ \/ /\ conv'[m].group = conv[m].group /\ conv'[m].epoch = conv[m].epoch
              /\ conv'[m].chain = conv[m].chain
           \/ /\ spec[m].group # NoGroup
              /\ conv'[m].group = spec[m].group /\ conv'[m].epoch = spec[m].epoch
              /\ conv'[m].chain = spec[m].chain
    <2>1. CASE conv[m].exists
      BY <1>1, <2>1 DEF ProvisionMirror
    <2>2. CASE ~conv[m].exists /\ spec[m].group = NoGroup
      <3>1. conv'[m] = [conv[m] EXCEPT !.exists = TRUE]
        BY <1>1, <2>2 DEF ProvisionMirror
      <3> QED BY <1>1, <3>1 DEF Copies
    <2>3. CASE ~conv[m].exists /\ spec[m].group # NoGroup
      <3>1. conv'[m] = [exists |-> TRUE, group |-> spec[m].group, epoch |-> spec[m].epoch,
                        chain |-> spec[m].chain, seq |-> conv[m].seq, log |-> conv[m].log]
        BY <1>1, <2>3 DEF ProvisionMirror, Copies
      <3>2. spec[m].group \in Groups \cup {NoGroup} /\ spec[m].epoch \in Nat
            /\ spec[m].chain \in Seq(Links)
        BY DEF IInv, TypeOK, AddType
      <3> QED BY <1>1, <2>3, <3>1, <3>2 DEF Copies
    <2> QED BY <2>1, <2>2, <2>3
  <1>3. \A i \in Hosts : i # m => conv'[i] = conv[i]
    <2>1. \E t : conv' = [conv EXCEPT ![m] = t]
      BY <1>1 DEF ProvisionMirror
    <2> QED BY <1>1, <2>1
  <1>4. HubCommits' = HubCommits /\ conv'[Hub] = conv[Hub]
    BY <1>1, <1>3 DEF HubCommits
  <1>5. ConvType'
    <2>1. conv' \in [Hosts -> Copies]
      BY <1>1, <1>2, <1>3 DEF ProvisionMirror
    <2>2. conv'[m].group = NoGroup <=> conv'[m].epoch = 0
      BY <1>1, <1>2 DEF IInv, TypeOK, ConvType, TravelInv
    <2> QED BY <1>1, <1>3, <1>4, <2>1, <2>2 DEF IInv, TypeOK, ConvType
  <1>6. OneInv' /\ LinkInv' /\ HeadInv'
    BY <1>4 DEF IInv, OneInv, LinkInv, HeadInv, Reached
  <1>7. MirrorFollowsHub'
    <2>1. \A i \in Mirrors : i # m => conv'[i] = conv[i]
      BY <1>3 DEF Hosts
    <2>2. spec[m].group # NoGroup =>
            \E top \in conv[Hub].log :
                /\ top.kind = "commit" /\ top.group = spec[m].group
                /\ top.epoch = spec[m].epoch /\ top.hash = spec[m].chain
      BY DEF IInv, TravelInv, Reached, HubCommits
    <2>3. SUFFICES ASSUME NEW i \in Mirrors
                 PROVE  /\ \A new \in conv'[i].log : new.kind = "commit" =>
                              \E top \in conv[Hub].log : SameCommit(new, top)
                        /\ conv'[i].group # NoGroup =>
                              \E top \in conv[Hub].log :
                                  /\ top.kind = "commit" /\ top.group = conv'[i].group
                                  /\ top.epoch = conv'[i].epoch /\ top.hash = conv'[i].chain
      BY <1>4 DEF MirrorFollowsHub, SameCommit
    <2>4. CASE i = m
      BY <1>2, <2>2, <2>4 DEF IInv, MirrorFollowsHub
    <2>5. CASE i # m
      BY <2>1, <2>5 DEF IInv, MirrorFollowsHub
    <2> QED BY <2>4, <2>5
  <1>8. PostType' /\ RowsInv' /\ FreshInv' /\ AnswerInv'
    BY <1>4, PostsUnchanged DEF ProvisionMirror
  <1>9. AddType' /\ NetType' /\ TravelInv'
    <2>1. AddType'
      BY <1>1 DEF IInv, TypeOK, AddType, ProvisionMirror
    <2>2. NetType' /\ TravelInv'
      BY <1>4 DEF IInv, TypeOK, NetType, TravelInv, Reached, ProvisionMirror
    <2> QED BY <2>1, <2>2
  <1>10. \A i \in Mirrors : conv'[i].exists => i \in roster'
    BY <1>1, <1>3 DEF IInv, TypeOK, Hosts, ProvisionMirror
  <1> QED BY <1>4, <1>5, <1>6, <1>7, <1>8, <1>9, <1>10 DEF IInv, TypeOK

\* CommitMLSGroup on the hub: the one step that extends the history.
LEMMA AcceptStep ==
    ASSUME IInv, FederationAssumption, NEW c \in Commits, Accept(c)
    PROVE  IInv'
  <1> DEFINE g == post[c].group
             b == post[c].base
             s == conv[Hub]
             h == Link(PrevHash(s, b), b + 1, g, c)
             t == Committed(s, c, g, b, 0)
  <1>1. /\ c \in Items /\ post \in [Items -> Posts] /\ post[c] \in Posts /\ b \in Nat
        /\ post[c].phase = "sent"
    BY DEF IInv, TypeOK, PostType, Posts, Items, Accept
  <1>2. g \in Groups /\ g # NoGroup
    BY <1>1, FederationAssumption DEF IInv, FreshInv
  <1>3. conv \in [Hosts -> Copies] /\ s \in Copies /\ Hub \in Hosts /\ (s.group = NoGroup <=> s.epoch = 0)
    BY DEF IInv, TypeOK, ConvType, Hosts
  <1>4. CommitGrowth(s, t, c, g, b, h)
    <2> HIDE DEF g, b, s
    <2> QED BY <1>1, <1>2, <1>3, CommittedCopy
  <1>5. conv'[Hub] = t /\ \A i \in Hosts : i # Hub => conv'[i] = conv[i]
    BY <1>3 DEF Accept
  <1>6. Matches(s, g, b)
    BY DEF Accept
  <1>7. post' = [post EXCEPT ![c].phase = "stored", ![c].hash = conv'[Hub].chain]
        /\ UNCHANGED <<roster, adding, spec, net, checked>>
    BY DEF Accept
  <1> HIDE DEF t, h
  <1>8. /\ t \in Copies /\ h \in Seq(Links) /\ h # << >>
        /\ t.exists = s.exists /\ t.group = g /\ t.epoch = b + 1 /\ t.chain = h
        /\ \E k \in Nat : /\ CommitRow(c, g, b + 1, h, k) \in Rows
                          /\ t.log = s.log \cup {CommitRow(c, g, b + 1, h, k)}
    BY <1>4 DEF CommitGrowth
  <1>9. PICK new \in Rows : /\ new.id = c /\ new.kind = "commit" /\ new.group = g
                            /\ new.epoch = b + 1 /\ new.hash = h
                            /\ t.log = s.log \cup {new}
    BY <1>8 DEF CommitRow
  <1>10. HubCommits' = HubCommits \cup {new} /\ conv[Hub].log \subseteq conv'[Hub].log
    BY <1>5, <1>9 DEF HubCommits
  <1>11. /\ post'[c] \in Posts /\ post'[c].phase = "stored" /\ post'[c].hash = h
         /\ post'[c].group = g /\ post'[c].base = b /\ post'[c].at = post[c].at
         /\ \A y \in Items : y # c => post'[y] = post[y]
    <2>1. \A y \in Items : y # c => post'[y] = post[y]
      BY <1>1, <1>7
    <2>2. post'[c] = [at |-> post[c].at, phase |-> "stored", group |-> g, base |-> b, hash |-> h]
      BY <1>1, <1>5, <1>7, <1>8 DEF Posts
    <2> QED BY <1>1, <1>8, <2>1, <2>2 DEF Posts, Phases
  <1>12. PostType'
    <2>1. post' \in [Items -> Posts]
      BY <1>1, <1>7, <1>11
    <2> QED BY <1>11, <2>1 DEF IInv, TypeOK, PostType
  <1>13. \A d \in Commits : d # c => post'[d] = post[d]
    BY <1>11 DEF Items
  <1>14. RowsInv'
    <2>1. Minted' = Minted
      BY <1>11, <1>13 DEF Minted
    <2>2. g \in Minted
      BY <1>2 DEF Minted
    <2> QED BY <1>1, <1>9, <1>10, <1>11, <1>13, <2>1, <2>2 DEF IInv, RowsInv
  <1>15. \A row \in HubCommits : row.epoch \in Nat /\ (row.group = g => row.epoch <= b)
    <2>1. CASE b = 0
      BY <1>1, <2>1 DEF IInv, FreshInv, RowsInv
    <2>2. CASE b # 0
      BY <1>6, <2>2 DEF IInv, HeadInv, RowsInv, Matches
    <2> QED BY <2>1, <2>2
  <1>16. OneInv'
    BY <1>1, <1>9, <1>10, <1>15 DEF IInv, OneInv
  <1>17. LinkInv'
    <2>1. IF new.epoch = 1
            THEN new.hash = Link(<< >>, 1, new.group, new.id)
            ELSE \E top \in HubCommits :
                   /\ top.group = new.group /\ top.epoch = new.epoch - 1
                   /\ new.hash = Link(top.hash, new.epoch, new.group, new.id)
      <3>1. CASE b = 0
        BY <1>9, <3>1 DEF h, PrevHash
      <3>2. CASE b # 0
        <4>1. s.group = g /\ s.epoch = b
          BY <1>6, <3>2 DEF Matches
        <4>2. PICK top \in HubCommits : top.group = g /\ top.epoch = b /\ top.hash = s.chain
          BY <1>2, <4>1 DEF IInv, HeadInv, Reached
        <4>3. h = Link(top.hash, b + 1, g, c)
          BY <3>2, <4>2 DEF h, PrevHash
        <4> QED BY <1>1, <1>9, <3>2, <4>2, <4>3
      <3> QED BY <3>1, <3>2
    <2> QED BY <1>10, <2>1 DEF IInv, LinkInv
  <1>18. HeadInv'
    <2>1. conv'[Hub].group = g /\ conv'[Hub].epoch = b + 1 /\ conv'[Hub].chain = h
      BY <1>5, <1>8
    <2>2. Reached(conv[Hub].group, conv[Hub].epoch, conv[Hub].chain)'
      BY <1>9, <1>10, <2>1 DEF Reached
    <2>3. \A row \in HubCommits' : row.group = g => row.epoch <= b + 1
      BY <1>1, <1>9, <1>10, <1>15
    <2> QED BY <2>1, <2>2, <2>3 DEF HeadInv
  <1>19. FreshInv'
    <2>1. \A d \in Commits : post[d].phase = "sent" /\ post[d].base = 0 /\ d # c => post[d].group # g
      BY <1>1 DEF IInv, FreshInv
    <2>2. \A x \in Items : post'[x].phase = "idle" => post'[x].group = NoGroup
      BY <1>11 DEF IInv, FreshInv
    <2>3. \A d \in Commits : post'[d].phase # "idle" => post'[d].group \in Groups
      BY <1>2, <1>11, <1>13 DEF IInv, FreshInv
    <2>4. ASSUME NEW d \in Commits, post'[d].phase = "sent", post'[d].base = 0
          PROVE  /\ \A row \in HubCommits' : row.group # post'[d].group
                 /\ \A e \in Commits : post'[e].phase = "sent" /\ post'[e].group = post'[d].group
                                       => e = d
      <3>1. d # c /\ post'[d] = post[d]
        BY <1>11, <1>13, <2>4
      <3>2. post[d].phase = "sent" /\ post[d].base = 0
        BY <2>4, <3>1
      <3>3. \A row \in HubCommits' : row.group # post[d].group
        BY <1>9, <1>10, <2>1, <3>1, <3>2 DEF IInv, FreshInv
      <3>4. \A e \in Commits : post'[e].phase = "sent" /\ post'[e].group = post[d].group => e = d
        BY <1>11, <1>13, <3>2 DEF IInv, FreshInv
      <3> QED BY <3>1, <3>3, <3>4
    <2> QED BY <2>2, <2>3, <2>4 DEF FreshInv
  <1>20. AddType' /\ NetType' /\ TravelInv'
    <2>1. AddType' /\ NetType'
      BY <1>7 DEF IInv, TypeOK, AddType, NetType
    <2>2. TravelInv'
      BY <1>7, <1>10 DEF IInv, TravelInv, Reached
    <2> QED BY <2>1, <2>2
  <1>21. AnswerInv'
    BY <1>1, <1>8, <1>9, <1>10, <1>11, <1>13 DEF IInv, AnswerInv
  <1>22. ConvType'
    <2>1. conv' \in [Hosts -> Copies]
      BY <1>3, <1>5, <1>8 DEF Accept, t
    <2>2. conv'[Hub].group # NoGroup /\ conv'[Hub].epoch # 0 /\ conv'[Hub].exists
      BY <1>1, <1>2, <1>5, <1>8 DEF IInv, TypeOK, ConvType
    <2> QED BY <1>3, <1>5, <2>1, <2>2 DEF IInv, TypeOK, ConvType
  <1>23. MirrorFollowsHub' /\ \A m \in Mirrors : conv'[m].exists => m \in roster'
    <2>1. \A m \in Mirrors : conv'[m] = conv[m]
      BY <1>5, FederationAssumption DEF Hosts
    <2> QED BY <1>7, <1>10, <2>1 DEF IInv, TypeOK, MirrorFollowsHub
  <1> QED
    BY <1>12, <1>14, <1>16, <1>17, <1>18, <1>19, <1>20, <1>21, <1>22, <1>23 DEF IInv, TypeOK

-----------------------------------------------------------------------------
\* A conversation that has only just been created is in order.
LEMMA InitInv == ASSUME FederationAssumption, Init PROVE IInv
  <1>1. << >> \in Seq(Links)
    OBVIOUS
  <1>2. \A e \in BOOLEAN : Fresh(e) \in Copies
    BY <1>1 DEF Fresh, Copies
  <1>3. \A h \in Hosts : /\ conv[h] \in Copies /\ conv[h].log = {} /\ conv[h].group = NoGroup
                         /\ conv[h].epoch = 0 /\ conv[h].exists = (h \in {Hub} \cup Founding)
    <2>1. \A h \in Hosts : conv[h] = Fresh(h \in {Hub} \cup Founding)
      BY DEF Init
    <2>2. \A h \in Hosts : (h \in {Hub} \cup Founding) \in BOOLEAN
      OBVIOUS
    <2>3. \A h \in Hosts : conv[h] \in Copies
      BY <1>2, <2>1, <2>2
    <2>4. \A e \in BOOLEAN : /\ Fresh(e).log = {} /\ Fresh(e).group = NoGroup
                             /\ Fresh(e).epoch = 0
      BY DEF Fresh
    <2>5. \A e \in BOOLEAN : Fresh(e).exists = e
      BY DEF Fresh
    <2> HIDE DEF Hosts
    <2> QED BY <2>1, <2>2, <2>3, <2>4, <2>5, Zenon
  <1>4. Unsent \in Posts /\ Unsent.phase = "idle" /\ Unsent.group = NoGroup /\ Unsent.hash = << >>
    BY <1>1 DEF Unsent, Posts, Phases, Hosts
  <1>5. \A x \in Items : post[x] = Unsent
    BY DEF Init
  <1>6. Hub \in Hosts /\ HubCommits = {} /\ \A m \in Mirrors : m \in Hosts /\ m # Hub
    BY <1>3, FederationAssumption DEF HubCommits, Hosts
  <1>7. TypeOK
    <2>1. ConvType
      BY <1>3, <1>6 DEF Init, ConvType
    <2>2. PostType
      BY <1>4, <1>5 DEF Init, PostType
    <2>3. AddType
      BY <1>1, FederationAssumption DEF Init, AddType, GroupState, Fresh
    <2>4. NetType
      BY DEF Init, NetType
    <2> QED BY <1>3, <1>6, <2>1, <2>2, <2>3, <2>4 DEF Init, TypeOK
  <1>8. RowsInv /\ OneInv /\ LinkInv
    BY <1>6 DEF RowsInv, OneInv, LinkInv
  <1>9. HeadInv
    BY <1>3, <1>6 DEF HeadInv
  <1>10. FreshInv /\ AnswerInv
    BY <1>4, <1>5 DEF FreshInv, AnswerInv, Items
  <1>11. TravelInv
    BY DEF Init, TravelInv, GroupState, Fresh
  <1>12. MirrorFollowsHub
    BY <1>3, <1>6 DEF MirrorFollowsHub
  <1> QED BY <1>7, <1>8, <1>9, <1>10, <1>11, <1>12 DEF IInv

\* Every step keeps the invariant: one case per action of the specification.
LEMMA NextInv == ASSUME FederationAssumption, IInv, [Next]_vars PROVE IInv'
  <1>1. CASE Decide
    <2>1. ASSUME NEW m \in Mirrors, ReadConversation(m) PROVE IInv'
      BY <2>1, FederationAssumption, QuietStep
    <2> QED BY <1>1, <2>1, FederationAssumption, ProposeStep, SendStep, ResetStep DEF Decide
  <1>2. CASE Lose
    <2>1. ASSUME NEW r \in net, LoseRelay(r) PROVE IInv'
      BY <2>1, FederationAssumption, QuietStep
    <2>2. ASSUME NEW m \in Mirrors, LoseProvision(m) PROVE IInv'
      BY <2>2, FederationAssumption, QuietStep
    <2>3. ASSUME NEW x \in Items, LosePost(x) PROVE IInv'
      BY <2>3, FederationAssumption, PostStep
    <2> QED BY <1>2, <2>1, <2>2, <2>3 DEF Lose
  <1>3. CASE Handle
    <2>1. ASSUME NEW c \in Commits, OfCommit(c) PROVE IInv'
      <3>1. c \in Items
        BY DEF Items
      <3> QED BY <2>1, <3>1, FederationAssumption, AcceptStep, PostStep, ApplyAnswerStep DEF OfCommit
    <2>2. ASSUME NEW x \in Messages, OfMessage(x) PROVE IInv'
      BY <2>2, FederationAssumption, AppendMessageStep, EchoMessageStep DEF OfMessage
    <2>3. ASSUME NEW x \in Items, Relay(x) PROVE IInv'
      BY <2>3, FederationAssumption, PostStep
    <2>4. ASSUME NEW r \in net, OfRelay(r) PROVE IInv'
      BY <2>4, FederationAssumption, DeliverMessageStep, QuietStep DEF OfRelay
    <2>5. ASSUME NEW r \in checked, ApplyCommit(r) PROVE IInv'
      BY <2>5, FederationAssumption, ApplyCommitStep
    <2>6. ASSUME NEW m \in Mirrors, OfAddMember(m) PROVE IInv'
      BY <2>6, FederationAssumption, QuietStep, ProvisionStep, RecordMembershipStep DEF OfAddMember
    <2> QED BY <1>3, <2>1, <2>2, <2>3, <2>4, <2>5, <2>6 DEF Handle
  <1>4. CASE UNCHANGED vars
    <2>1. conv' = conv /\ post' = post /\ UNCHANGED <<roster, adding, spec, net, checked>>
      BY <1>4 DEF vars
    <2>2. /\ HubCommits' = HubCommits
          /\ ConvType' /\ OneInv' /\ LinkInv' /\ HeadInv' /\ MirrorFollowsHub'
      BY <2>1, CopiesUnchanged
    <2>3. PostType' /\ RowsInv' /\ FreshInv' /\ AnswerInv'
      BY <2>1, <2>2, PostsUnchanged
    <2>4. AddType' /\ NetType' /\ TravelInv'
      BY <2>1, <2>2, TravelUnchanged
    <2> QED BY <2>1, <2>2, <2>3, <2>4 DEF IInv, TypeOK
  <1> QED BY <1>1, <1>2, <1>3, <1>4 DEF Next

\* The inductive invariant holds in every state of a federated conversation.
THEOREM FederationInvariance == Spec => []IInv
  <1>1. Init => IInv
    BY InitInv, FederationAssumption
  <1>2. IInv /\ [Next]_vars => IInv'
    BY NextInv, FederationAssumption
  <1> QED BY <1>1, <1>2, PTL DEF Spec

\* Every variable of the federation keeps its shape, on any number of hosts.
THEOREM FederationTypes == Spec => []TypeOK
  <1>1. IInv => TypeOK
    BY DEF IInv
  <1> QED BY <1>1, FederationInvariance, PTL

\* No mirror ever holds a Commit, or verifies against a head, that is not the
\* hub's for that group and epoch (applyRelayedCommit, ForwardCommit).
THEOREM NoMirrorForks == Spec => []MirrorFollowsHub
  <1>1. IInv => MirrorFollowsHub
    BY DEF IInv
  <1> QED BY <1>1, FederationInvariance, PTL

-----------------------------------------------------------------------------
(***************************************************************************)
(* What a device is told, while calls between hosts arrive and nobody      *)
(* resets.  The hub accepts a forwarded Commit only at the epoch the       *)
(* mirror built it on; until the mirror applies the answer, nothing else   *)
(* can move the mirror from there, since the one Commit of the hub that    *)
(* fits is not relayed to the mirror it came from.  So the answer fits.    *)
(***************************************************************************)
\* Only Commits have a Commit's id, and the hash on a post tells whether the hub has it.
FateInv ==
    /\ \A row \in conv[Hub].log : row.id \in Commits => row.kind = "commit"
    /\ \A c \in Commits :
         /\ Ordered(c) # {} => post[c].hash # << >>
         /\ post[c].phase \in {"idle", "sent", "conflict"} => post[c].hash = << >>
         /\ post[c].phase = "ok" => post[c].hash # << >>
         /\ post[c].phase # "error"

\* There is one group, the hub's, and who has none has no head.
OneGroupInv ==
    /\ \A row \in HubCommits : row.group = conv[Hub].group
    /\ \A h \in Hosts : conv[h].group = NoGroup => conv[h].chain = << >>

\* A post under way has a host, and that host is not behind it.
SentInv ==
    \A c \in Commits : post[c].phase \in {"sent", "stored", "answered", "checked"} =>
        /\ conv[post[c].at].exists
        /\ post[c].phase = "sent" /\ post[c].base # 0 =>
             conv[post[c].at].group = post[c].group /\ post[c].base <= conv[post[c].at].epoch

\* An accepted Commit still fits the mirror that forwarded it.
FitsInv ==
    \A c \in Commits :
        /\ post[c].phase \in {"stored", "answered", "checked"}
        /\ post[c].hash # << >> /\ post[c].at # Hub
        => /\ Matches(conv[post[c].at], post[c].group, post[c].base)
           /\ post[c].hash = Link(conv[post[c].at].chain, post[c].base + 1, post[c].group, c)

\* No Commit is relayed to the mirror that forwarded it.
NoEchoInv ==
    \A r \in net \cup checked : r.row.kind = "commit" => post[r.row.id].at # r.to

AInv == FateInv /\ OneGroupInv /\ SentInv /\ FitsInv /\ NoEchoInv /\ AcceptedIsApplied

\* What a post is made of, after a step that only moves its phase.
LEMMA PhaseMoves ==
    ASSUME PostType, NEW x \in Items, NEW ph, post' = [post EXCEPT ![x].phase = ph]
    PROVE  /\ post'[x].phase = ph /\ post'[x].at = post[x].at /\ post'[x].group = post[x].group
           /\ post'[x].base = post[x].base /\ post'[x].hash = post[x].hash
           /\ \A y \in Items : y # x => post'[y] = post[y]
  <1>1. post \in [Items -> Posts] /\ post[x] \in Posts
    BY DEF PostType
  <1>2. post'[x] = [post[x] EXCEPT !.phase = ph] /\ \A y \in Items : y # x => post'[y] = post[y]
    BY <1>1
  <1> QED BY <1>1, <1>2 DEF Posts

LEMMA CommitsAreItems == \A c \in Commits : c \in Items
  BY DEF Items

\* A step that moves one Commit's post and nothing else.
LEMMA PostMoves ==
    ASSUME IInv, AInv, conv' = conv, net' \cup checked' = net \cup checked,
           NEW c \in Commits, NEW ph, post' = [post EXCEPT ![c].phase = ph],
           \/ post[c].phase = "sent" /\ ph = "conflict"
           \/ post[c].phase = "sent" /\ ph = "answered"
           \/ post[c].phase = "answered" /\ ph = "conflict" /\ post[c].hash = << >>
           \/ post[c].phase = "answered" /\ ph = "checked" /\ post[c].hash # << >>
    PROVE  AInv'
  <1>1. /\ post'[c].phase = ph /\ post'[c].at = post[c].at /\ post'[c].group = post[c].group
        /\ post'[c].base = post[c].base /\ post'[c].hash = post[c].hash
        /\ \A y \in Commits : y # c => post'[y] = post[y]
    BY PhaseMoves, CommitsAreItems DEF IInv, TypeOK
  <1>2. HubCommits' = HubCommits /\ \A d \in Commits : Ordered(d)' = Ordered(d)
    BY DEF HubCommits, Ordered
  <1>3. FateInv'
    BY <1>1, <1>2 DEF AInv, FateInv
  <1>4. OneGroupInv'
    BY <1>2 DEF AInv, OneGroupInv
  <1>5. SentInv'
    BY <1>1 DEF AInv, SentInv
  <1>6. FitsInv'
    BY <1>1 DEF AInv, FitsInv, FateInv
  <1>7. NoEchoInv'
    <2> SUFFICES ASSUME NEW r \in net \cup checked, r.row.kind = "commit"
                 PROVE  post'[r.row.id].at # r.to
      BY DEF NoEchoInv
    <2>1. r.row.id \in Commits
      BY DEF IInv, TravelInv, RowsInv, HubCommits
    <2> QED BY <1>1, <2>1 DEF AInv, NoEchoInv
  <1>8. AcceptedIsApplied'
    BY <1>1 DEF AInv, AcceptedIsApplied
  <1> QED BY <1>3, <1>4, <1>5, <1>6, <1>7, <1>8 DEF AInv

\* A step that moves no Commit's post: copies keep their group state and may grow.
LEMMA CopiesGrow ==
    ASSUME IInv, IInv', AInv, \A c \in Commits : post'[c] = post[c],
           net' \cup checked' \subseteq net \cup checked,
           HubCommits' = HubCommits,
           \A h \in Hosts : /\ conv'[h].group = conv[h].group /\ conv'[h].epoch = conv[h].epoch
                            /\ conv'[h].chain = conv[h].chain
                            /\ conv[h].exists => conv'[h].exists
                            /\ conv[h].log \subseteq conv'[h].log,
           \A row \in conv'[Hub].log \ conv[Hub].log : row.id \notin Commits
    PROVE  AInv'
  <1>0. Hub \in Hosts /\ \A c \in Commits : post[c].at \in Hosts
    BY CommitsAreItems DEF Hosts, IInv, TypeOK, PostType, Posts
  <1>1. \A d \in Commits : Ordered(d)' = Ordered(d)
    BY <1>0 DEF Ordered
  <1>2. FateInv'
    BY <1>1 DEF AInv, FateInv
  <1>3. OneGroupInv'
    BY <1>0 DEF AInv, OneGroupInv
  <1>4. SentInv'
    BY <1>0 DEF AInv, SentInv
  <1>5. FitsInv'
    BY <1>0 DEF AInv, FitsInv, Matches
  <1>6. NoEchoInv'
    <2> SUFFICES ASSUME NEW r \in net \cup checked, r.row.kind = "commit"
                 PROVE  post'[r.row.id].at # r.to
      BY DEF NoEchoInv
    <2>1. r.row.id \in Commits
      BY DEF IInv, TravelInv, RowsInv, HubCommits
    <2> QED BY <2>1 DEF AInv, NoEchoInv
  <1>7. AcceptedIsApplied'
    BY <1>0 DEF AInv, AcceptedIsApplied
  <1> QED BY <1>2, <1>3, <1>4, <1>5, <1>6, <1>7 DEF AInv

LEMMA ProposeAnswers ==
    ASSUME IInv, AInv, NEW c \in Commits, NEW h \in Hosts, NEW g \in Groups, Propose(c, h, g)
    PROVE  AInv'
  <1> DEFINE p == [at |-> h, phase |-> "sent", group |-> g, base |-> conv[h].epoch, hash |-> << >>]
  <1>1. /\ post[c].phase = "idle" /\ conv[h].exists
        /\ conv[h].group = NoGroup \/ conv[h].group = g
        /\ conv' = conv /\ net' = net /\ checked' = checked
        /\ post'[c] = p /\ \A y \in Commits : y # c => post'[y] = post[y]
    BY CommitsAreItems DEF Propose, IInv, TypeOK, PostType
  <1>2. p.at = h /\ p.phase = "sent" /\ p.group = g /\ p.base = conv[h].epoch /\ p.hash = << >>
    OBVIOUS
  <1> HIDE DEF p
  <1>3. HubCommits' = HubCommits /\ \A d \in Commits : Ordered(d)' = Ordered(d)
    BY <1>1 DEF HubCommits, Ordered
  <1>4. Ordered(c) = {}
    BY <1>1 DEF AInv, FateInv
  <1>5. FateInv'
    BY <1>1, <1>2, <1>3, <1>4 DEF AInv, FateInv
  <1>6. OneGroupInv'
    BY <1>1, <1>3 DEF AInv, OneGroupInv
  <1>7. SentInv'
    <2>1. conv[h].epoch \in Nat /\ (conv[h].group = NoGroup <=> conv[h].epoch = 0)
      BY DEF IInv, TypeOK, ConvType, Copies
    <2> QED BY <1>1, <1>2, <2>1 DEF AInv, SentInv
  <1>8. FitsInv'
    BY <1>1, <1>2 DEF AInv, FitsInv
  <1>9. NoEchoInv'
    <2> SUFFICES ASSUME NEW r \in net \cup checked, r.row.kind = "commit"
                 PROVE  post'[r.row.id].at # r.to
      BY <1>1 DEF NoEchoInv
    <2>1. r.row.id \in Commits /\ r.row.id # c
      BY <1>1 DEF IInv, TravelInv, RowsInv, HubCommits
    <2> QED BY <1>1, <2>1 DEF AInv, NoEchoInv
  <1>10. AcceptedIsApplied'
    BY <1>1, <1>2 DEF AInv, AcceptedIsApplied
  <1> QED BY <1>5, <1>6, <1>7, <1>8, <1>9, <1>10 DEF AInv

LEMMA RelayAnswers ==
    ASSUME IInv, FederationAssumption, AInv, NEW x \in Items, Relay(x)
    PROVE  AInv'
  <1>1. /\ post[x].phase = "stored" /\ conv' = conv /\ checked' = checked
        /\ net' = net \cup [to : roster \ {post[x].at}, row : {m \in conv[Hub].log : m.id = x}]
    BY DEF Relay
  <1>2. PICK ph : ph = IF post[x].at = Hub THEN "ok" ELSE "answered"
    OBVIOUS
  <1>3. /\ post'[x].phase = ph /\ post'[x].at = post[x].at /\ post'[x].group = post[x].group
        /\ post'[x].base = post[x].base /\ post'[x].hash = post[x].hash
        /\ \A y \in Items : y # x => post'[y] = post[y]
    <2>1. post' = [post EXCEPT ![x].phase = ph]
      BY <1>2 DEF Relay
    <2> QED BY <2>1, PhaseMoves DEF IInv, TypeOK
  <1>4. HubCommits' = HubCommits /\ \A d \in Commits : Ordered(d)' = Ordered(d)
    BY <1>1 DEF HubCommits, Ordered
  <1>5. x \in Commits => post[x].hash # << >>
    BY <1>1 DEF IInv, AnswerInv
  <1>6. FateInv'
    BY <1>2, <1>3, <1>4, <1>5, <1>1, CommitsAreItems DEF AInv, FateInv
  <1>7. OneGroupInv'
    BY <1>1, <1>4 DEF AInv, OneGroupInv
  <1>8. SentInv'
    BY <1>1, <1>2, <1>3, CommitsAreItems DEF AInv, SentInv
  <1>9. FitsInv'
    BY <1>1, <1>2, <1>3, <1>5, CommitsAreItems DEF AInv, FitsInv
  <1>10. NoEchoInv'
    <2> SUFFICES ASSUME NEW r \in net' \cup checked, r.row.kind = "commit"
                 PROVE  post'[r.row.id].at # r.to
      BY <1>1 DEF NoEchoInv
    <2>1. CASE r \in net \cup checked
      <3>1. r.row.id \in Items
        BY <2>1, CommitsAreItems DEF IInv, TravelInv, RowsInv, HubCommits
      <3> QED BY <1>3, <2>1, <3>1 DEF AInv, NoEchoInv
    <2>2. CASE r \in [to : roster \ {post[x].at}, row : {m \in conv[Hub].log : m.id = x}]
      BY <1>3, <2>2
    <2> QED BY <1>1, <2>1, <2>2
  <1>11. AcceptedIsApplied'
    <2> SUFFICES ASSUME NEW c \in Commits, post'[c].phase = "ok"
                 PROVE  \E row \in conv[post'[c].at].log : row.id = c
      BY <1>1 DEF AcceptedIsApplied
    <2>1. CASE c # x
      BY <1>3, <2>1, CommitsAreItems DEF AInv, AcceptedIsApplied
    <2>2. CASE c = x
      <3>1. post[c].at = Hub
        BY <1>2, <1>3, <2>2
      <3>2. \E row \in HubCommits : row.id = c
        BY <1>5, <2>2 DEF IInv, AnswerInv
      <3> QED BY <1>3, <2>2, <3>1, <3>2 DEF HubCommits
    <2> QED BY <2>1, <2>2
  <1> QED BY <1>6, <1>7, <1>8, <1>9, <1>10, <1>11 DEF AInv

LEMMA AcceptAnswers ==
    ASSUME IInv, IInv', FederationAssumption, AInv, NEW c \in Commits, Accept(c)
    PROVE  AInv'
  <1> DEFINE g == post[c].group
             b == post[c].base
             h == Link(PrevHash(conv[Hub], b), b + 1, g, c)
             t == Committed(conv[Hub], c, g, b, 0)
  <1>1. /\ conv \in [Hosts -> Copies] /\ conv[Hub] \in Copies /\ Hub \in Hosts
        /\ post \in [Items -> Posts] /\ c \in Items /\ post[c] \in Posts
        /\ post[c].phase = "sent" /\ Matches(conv[Hub], g, b)
        /\ b \in Nat /\ g \in Groups /\ post[c].at \in Hosts /\ g # NoGroup
    BY FederationAssumption DEF Accept, IInv, TypeOK, ConvType, PostType, Posts, FreshInv, Hosts, Items
  <1>2. CommitGrowth(conv[Hub], t, c, g, b, h)
    <2> HIDE DEF g, b
    <2> QED BY <1>1, CommittedCopy
  <1>3. conv'[Hub] = t /\ \A i \in Hosts : i # Hub => conv'[i] = conv[i]
    BY <1>1 DEF Accept
  <1> HIDE DEF t
  <1>4. /\ t.exists = conv[Hub].exists /\ t.group = g /\ t.epoch = b + 1 /\ t.chain = h /\ h # << >>
    BY <1>2 DEF CommitGrowth
  <1>5. PICK new : t.log = conv[Hub].log \cup {new} /\ new.id = c /\ new.kind = "commit" /\ new.group = g
    <2>1. PICK k \in Nat : t.log = conv[Hub].log \cup {CommitRow(c, g, b + 1, h, k)}
      BY <1>2 DEF CommitGrowth
    <2>2. PICK new : new = CommitRow(c, g, b + 1, h, k)
      OBVIOUS
    <2>3. new.id = c /\ new.kind = "commit" /\ new.group = g
      BY <2>2 DEF CommitRow
    <2> QED BY <2>1, <2>2, <2>3
  <1>6. /\ post'[c].phase = "stored" /\ post'[c].hash = h /\ post'[c].at = post[c].at
        /\ post'[c].group = g /\ post'[c].base = b
        /\ \A y \in Items : y # c => post'[y] = post[y]
    <2> DEFINE q1 == [post[c] EXCEPT !.phase = "stored"]
               q == [q1 EXCEPT !.hash = conv'[Hub].chain]
    <2>1. /\ q1.phase = "stored" /\ q1.at = post[c].at /\ q1.group = g /\ q1.base = b
          /\ q1 \in Posts
      BY <1>1 DEF Posts, Phases
    <2>2. /\ q.phase = "stored" /\ q.at = post[c].at /\ q.group = g /\ q.base = b
          /\ q.hash = conv'[Hub].chain
      <3> HIDE DEF q1
      <3> QED BY <2>1 DEF Posts
    <2>3. post' = [post EXCEPT ![c] = q]
      <3>1. post' = [[post EXCEPT ![c] = q1] EXCEPT ![c] = [[post EXCEPT ![c] = q1][c] EXCEPT !.hash = conv'[Hub].chain]]
        BY DEF Accept
      <3> HIDE DEF q1
      <3> QED BY <1>1, <3>1
    <2> HIDE DEF q
    <2> QED BY <1>1, <1>3, <1>4, <2>2, <2>3
  <1>7. net' = net /\ checked' = checked
    BY DEF Accept
  <1> HIDE DEF h
  <1>8. b = 0 => HubCommits = {}
    BY <1>1 DEF Matches, AInv, OneGroupInv, IInv, RowsInv, Minted
  <1>9. b # 0 => conv[Hub].group = g /\ conv[Hub].epoch = b
    BY <1>1 DEF Matches
  <1>10. HubCommits' = HubCommits \cup {new}
    BY <1>3, <1>5 DEF HubCommits
  <1>11. \A d \in Commits : d # c => Ordered(d)' = Ordered(d)
    BY <1>3, <1>5 DEF Ordered
  <1>12. FateInv'
    BY <1>3, <1>4, <1>5, <1>6, <1>11, CommitsAreItems DEF AInv, FateInv
  <1>13. OneGroupInv'
    <2>1. \A row \in HubCommits' : row.group = conv'[Hub].group
      <3>1. \A row \in HubCommits : row.group = g
        BY <1>8, <1>9 DEF AInv, OneGroupInv
      <3> QED BY <1>3, <1>4, <1>5, <1>10, <3>1
    <2>2. \A i \in Hosts : conv'[i].group = NoGroup => conv'[i].chain = << >>
      BY <1>1, <1>3, <1>4 DEF AInv, OneGroupInv
    <2> QED BY <2>1, <2>2 DEF OneGroupInv
  <1>14. SentInv'
    <2> SUFFICES ASSUME NEW d \in Commits, post'[d].phase \in {"sent", "stored", "answered", "checked"}
                 PROVE  /\ conv'[post'[d].at].exists
                        /\ post'[d].phase = "sent" /\ post'[d].base # 0 =>
                             /\ conv'[post'[d].at].group = post'[d].group
                             /\ post'[d].base <= conv'[post'[d].at].epoch
      BY DEF SentInv
    <2>1. CASE d = c
      BY <1>1, <1>3, <1>4, <1>6, <2>1 DEF AInv, SentInv
    <2>2. CASE d # c
      <3>1. post'[d] = post[d] /\ post[d].at \in Hosts /\ post[d].base \in Nat
        BY <1>6, <2>2, CommitsAreItems DEF IInv, TypeOK, PostType, Posts
      <3>2. /\ conv[post[d].at].exists
            /\ post[d].phase = "sent" /\ post[d].base # 0 =>
                  conv[post[d].at].group = post[d].group /\ post[d].base <= conv[post[d].at].epoch
        BY <3>1 DEF AInv, SentInv
      <3>3. CASE post[d].at # Hub
        BY <1>3, <3>1, <3>2, <3>3
      <3>4. CASE post[d].at = Hub
        <4>1. post[d].phase = "sent" => post[d].group # NoGroup
          BY FederationAssumption DEF IInv, FreshInv
        <4>2. post[d].phase = "sent" /\ post[d].base # 0 => b # 0
          BY <1>1, <3>2, <3>4, <4>1 DEF Matches
        <4> QED BY <1>1, <1>3, <1>4, <1>9, <3>1, <3>2, <3>4, <4>2
      <3> QED BY <3>3, <3>4
    <2> QED BY <2>1, <2>2
  <1>15. FitsInv'
    <2> SUFFICES ASSUME NEW d \in Commits, post'[d].phase \in {"stored", "answered", "checked"},
                        post'[d].hash # << >>, post'[d].at # Hub
                 PROVE  /\ Matches(conv'[post'[d].at], post'[d].group, post'[d].base)
                        /\ post'[d].hash = Link(conv'[post'[d].at].chain, post'[d].base + 1, post'[d].group, d)
      BY DEF FitsInv
    <2>1. CASE d # c
      <3>1. post'[d] = post[d] /\ post[d].at \in Hosts
        BY <1>6, <2>1, CommitsAreItems DEF IInv, TypeOK, PostType, Posts
      <3> QED BY <1>3, <3>1 DEF AInv, FitsInv
    <2>2. CASE d = c
      <3>1. PICK m \in Mirrors : m = post[c].at
        BY <1>1, <1>6, <2>2 DEF Hosts
      <3>2. conv'[m] = conv[m] /\ m \in Hosts
        BY <1>1, <1>3, <1>6, <2>2, <3>1
      <3>3. CASE b = 0
        <4>1. conv[m].group = NoGroup
          BY <1>8, <3>3 DEF IInv, MirrorFollowsHub, HubCommits
        <4>2. conv[m].chain = << >>
          BY <3>2, <4>1 DEF AInv, OneGroupInv
        <4> QED BY <1>6, <2>2, <3>1, <3>2, <3>3, <4>1, <4>2 DEF Matches, PrevHash, h
      <3>4. CASE b # 0
        <4>1. conv[m].group = g /\ b <= conv[m].epoch /\ conv[m].epoch \in Nat
          BY <1>1, <3>1, <3>2, <3>4 DEF AInv, SentInv, Copies
        <4>2. PICK top \in HubCommits : /\ top.group = g /\ top.epoch = conv[m].epoch
                                        /\ top.hash = conv[m].chain
          BY <1>1, <4>1 DEF IInv, MirrorFollowsHub, HubCommits
        <4>3. conv[m].epoch <= b
          BY <1>9, <3>4, <4>2 DEF IInv, HeadInv
        <4>4. conv[m].epoch = b
          BY <1>1, <4>1, <4>3
        <4>5. PICK two \in HubCommits : two.group = g /\ two.epoch = b /\ two.hash = conv[Hub].chain
          BY <1>1, <1>9, <3>4 DEF IInv, HeadInv, Reached
        <4>6. two = top
          BY <4>2, <4>4, <4>5 DEF IInv, OneInv
        <4>7. conv[m].chain = conv[Hub].chain
          BY <4>2, <4>5, <4>6
        <4>8. h = Link(conv[m].chain, b + 1, g, c)
          BY <3>4, <4>7 DEF PrevHash, h
        <4>9. Matches(conv[m], g, b)
          BY <3>4, <4>1, <4>4 DEF Matches
        <4> QED BY <1>6, <2>2, <3>1, <3>2, <4>8, <4>9
      <3> QED BY <3>3, <3>4
    <2> QED BY <2>1, <2>2
  <1>16. NoEchoInv'
    <2> SUFFICES ASSUME NEW r \in net \cup checked, r.row.kind = "commit"
                 PROVE  post'[r.row.id].at # r.to
      BY <1>7 DEF NoEchoInv
    <2>1. r.row.id \in Items
      BY CommitsAreItems DEF IInv, TravelInv, RowsInv, HubCommits
    <2> QED BY <1>6, <2>1 DEF AInv, NoEchoInv
  <1>17. AcceptedIsApplied'
    <2> SUFFICES ASSUME NEW d \in Commits, post'[d].phase = "ok"
                 PROVE  \E row \in conv'[post'[d].at].log : row.id = d
      BY DEF AcceptedIsApplied
    <2>1. d # c /\ post'[d] = post[d] /\ post[d].at \in Hosts
      BY <1>6, CommitsAreItems DEF IInv, TypeOK, PostType, Posts
    <2>2. \E row \in conv[post[d].at].log : row.id = d
      BY <2>1 DEF AInv, AcceptedIsApplied
    <2> QED BY <1>3, <1>5, <2>1, <2>2
  <1> QED BY <1>12, <1>13, <1>14, <1>15, <1>16, <1>17 DEF AInv

\* A Commit of the hub's that fits a mirror is the one that mirror is waiting to apply, if
\* it is waiting for any.
LEMMA OnlyOneFits ==
    ASSUME IInv, AInv, FederationAssumption, NEW m \in Mirrors, NEW row \in HubCommits,
           Matches(conv[m], row.group, row.epoch - 1),
           NEW d \in Commits, post[d].phase \in {"stored", "answered", "checked"},
           post[d].hash # << >>, post[d].at = m
    PROVE  row.id = d
  <1>1. PICK own \in HubCommits : own.id = d /\ own.group = post[d].group /\ own.epoch = post[d].base + 1
    BY DEF IInv, AnswerInv
  <1>2. row.epoch \in Nat \ {0} /\ own.epoch \in Nat \ {0} /\ post[d].base \in Nat
    BY CommitsAreItems DEF IInv, RowsInv, TypeOK, PostType, Posts
  <1>3. row.group = own.group /\ row.group # NoGroup
    BY DEF AInv, OneGroupInv, IInv, RowsInv, Minted
  <1>4. Matches(conv[m], own.group, own.epoch - 1)
    <2>1. Matches(conv[m], post[d].group, post[d].base)
      BY FederationAssumption DEF AInv, FitsInv
    <2>2. own.epoch - 1 = post[d].base
      BY <1>1, <1>2
    <2> QED BY <1>1, <2>1, <2>2
  <1>5. row.epoch = own.epoch
    BY <1>2, <1>3, <1>4 DEF Matches
  <1> QED BY <1>1, <1>3, <1>5 DEF IInv, OneInv

\* The mirror applies a Commit nobody but the post x is waiting for there.
LEMMA MirrorApplies ==
    ASSUME IInv, IInv', AInv, FederationAssumption, NEW m \in Mirrors, NEW row \in HubCommits,
           NEW n \in Nat, Matches(conv[m], row.group, row.epoch - 1),
           conv' = [conv EXCEPT ![m] = Committed(@, row.id, row.group, row.epoch - 1, n)],
           net' \cup checked' \subseteq net \cup checked,
           \A d \in Commits : d # row.id => post'[d] = post[d],
           \/ post' = post /\ post[row.id].at # m
           \/ /\ post[row.id].phase = "checked" /\ post[row.id].at = m
              /\ post'[row.id].phase = "ok" /\ post'[row.id].at = m
              /\ post'[row.id].hash = post[row.id].hash
    PROVE  AInv'
  <1> DEFINE t == Committed(conv[m], row.id, row.group, row.epoch - 1, n)
             b == row.epoch - 1
             c == row.id
  <1>1. /\ conv \in [Hosts -> Copies] /\ conv[m] \in Copies /\ Hub \in Hosts /\ m \in Hosts /\ m # Hub
        /\ row.id \in Commits /\ row.group \in Groups /\ row.group # NoGroup
        /\ row.epoch \in Nat \ {0} /\ b \in Nat /\ b + 1 = row.epoch
        /\ \A d \in Commits : post[d].at \in Hosts /\ post[d].base \in Nat
    <2>1. conv \in [Hosts -> Copies] /\ Hub \in Hosts /\ m \in Hosts /\ m # Hub
      BY FederationAssumption DEF IInv, TypeOK, ConvType, Hosts
    <2>2. row \in Rows /\ row.id \in Commits /\ row.group # NoGroup /\ row.epoch \in Nat \ {0}
      BY <2>1 DEF IInv, TypeOK, ConvType, Copies, HubCommits, RowsInv, Minted
    <2>3. \A d \in Commits : post[d].at \in Hosts /\ post[d].base \in Nat
      BY CommitsAreItems DEF IInv, TypeOK, PostType, Posts
    <2> QED BY <2>1, <2>2, <2>3 DEF Rows
  <1>2. CommitGrowth(conv[m], t, row.id, row.group, b, Link(PrevHash(conv[m], b), b + 1, row.group, row.id))
    <2> HIDE DEF b
    <2>1. t = Committed(conv[m], row.id, row.group, b, n)
      BY DEF b
    <2> HIDE DEF t
    <2> QED BY <1>1, <2>1, CommittedCopy
  <1>3. conv'[m] = t /\ \A i \in Hosts : i # m => conv'[i] = conv[i]
    BY <1>1
  <1> HIDE DEF t, b
  <1>4. /\ t.exists = conv[m].exists /\ t.group = row.group /\ t.epoch = row.epoch
        /\ conv[m].log \subseteq t.log /\ \E new \in t.log : new.id = row.id
    <2>1. PICK k \in Nat : t.log = conv[m].log
                   \cup {CommitRow(row.id, row.group, b + 1, Link(PrevHash(conv[m], b), b + 1, row.group, row.id), k)}
      BY <1>2 DEF CommitGrowth
    <2>2. CommitRow(row.id, row.group, b + 1, Link(PrevHash(conv[m], b), b + 1, row.group, row.id), k).id = row.id
      BY DEF CommitRow
    <2>3. t.exists = conv[m].exists /\ t.group = row.group /\ t.epoch = row.epoch
      BY <1>1, <1>2 DEF CommitGrowth
    <2> QED BY <2>1, <2>2, <2>3
  <1>5. /\ conv'[Hub] = conv[Hub] /\ HubCommits' = HubCommits /\ \A d \in Commits : Ordered(d)' = Ordered(d)
    BY <1>1, <1>3 DEF HubCommits, Ordered
  <1>6. \A d \in Commits : d # c \/ post' = post => post'[d] = post[d]
    OBVIOUS
  <1>7. c \in Commits
    BY <1>1
  <1>8. FateInv'
    <2>1. post[c].phase = "checked" => post[c].hash # << >>
      BY <1>7 DEF IInv, AnswerInv
    <2> QED BY <1>5, <1>6, <1>7, <2>1 DEF AInv, FateInv
  <1>9. OneGroupInv'
    BY <1>1, <1>3, <1>4, <1>5 DEF AInv, OneGroupInv
  <1>10. SentInv'
    <2> SUFFICES ASSUME NEW d \in Commits, post'[d].phase \in {"sent", "stored", "answered", "checked"}
                 PROVE  /\ conv'[post'[d].at].exists
                        /\ post'[d].phase = "sent" /\ post'[d].base # 0 =>
                             /\ conv'[post'[d].at].group = post'[d].group
                             /\ post'[d].base <= conv'[post'[d].at].epoch
      BY DEF SentInv
    <2>1. post'[d] = post[d] /\ post[d].at \in Hosts /\ post[d].base \in Nat
      BY <1>1, <1>6
    <2>2. /\ conv[post[d].at].exists
          /\ post[d].phase = "sent" /\ post[d].base # 0 =>
                conv[post[d].at].group = post[d].group /\ post[d].base <= conv[post[d].at].epoch
      BY <2>1 DEF AInv, SentInv
    <2>3. CASE post[d].at # m
      BY <1>3, <2>1, <2>2, <2>3
    <2>4. CASE post[d].at = m /\ ~(post[d].phase = "sent" /\ post[d].base # 0)
      BY <1>3, <1>4, <2>1, <2>2, <2>4
    <2>5. CASE post[d].at = m /\ post[d].phase = "sent" /\ post[d].base # 0
      <3>1. conv[m].group # NoGroup
        BY <2>2, <2>5, FederationAssumption DEF IInv, FreshInv
      <3>2. conv[m].group = row.group /\ conv[m].epoch = b
        BY <3>1 DEF Matches, b
      <3>3. b <= row.epoch /\ post[d].base <= b
        BY <1>1, <2>2, <2>5, <3>2
      <3> QED BY <1>1, <1>3, <1>4, <2>1, <2>2, <2>5, <3>2, <3>3
    <2> QED BY <2>3, <2>4, <2>5
  <1>11. FitsInv'
    <2> SUFFICES ASSUME NEW d \in Commits, post'[d].phase \in {"stored", "answered", "checked"},
                        post'[d].hash # << >>, post'[d].at # Hub
                 PROVE  /\ Matches(conv'[post'[d].at], post'[d].group, post'[d].base)
                        /\ post'[d].hash = Link(conv'[post'[d].at].chain, post'[d].base + 1, post'[d].group, d)
      BY DEF FitsInv
    <2>1. post'[d] = post[d] /\ post[d].at \in Hosts
      BY <1>1, <1>6
    <2>2. post[d].at # m
      <3> SUFFICES ASSUME post[d].at = m PROVE FALSE
        OBVIOUS
      <3>1. c = d
        BY <2>1, OnlyOneFits
      <3> QED BY <2>1, <3>1
    <2> QED BY <1>3, <2>1, <2>2 DEF AInv, FitsInv
  <1>12. NoEchoInv'
    <2> SUFFICES ASSUME NEW r \in net \cup checked, r.row.kind = "commit"
                 PROVE  post'[r.row.id].at # r.to
      BY DEF NoEchoInv
    <2>1. r.row.id \in Commits
      BY DEF IInv, TravelInv, RowsInv, HubCommits
    <2>2. post'[r.row.id].at = post[r.row.id].at
      BY <1>6, <2>1
    <2> QED BY <2>2 DEF AInv, NoEchoInv
  <1>13. AcceptedIsApplied'
    <2> SUFFICES ASSUME NEW d \in Commits, post'[d].phase = "ok"
                 PROVE  \E new \in conv'[post'[d].at].log : new.id = d
      BY DEF AcceptedIsApplied
    <2>1. CASE post'[d] = post[d]
      <3>1. \E new \in conv[post[d].at].log : new.id = d
        BY <2>1 DEF AInv, AcceptedIsApplied
      <3> QED BY <1>1, <1>3, <1>4, <2>1, <3>1
    <2>2. CASE d = c /\ post'[d].at = m
      BY <1>3, <1>4, <2>2
    <2> QED BY <1>6, <2>1, <2>2
  <1> QED BY <1>8, <1>9, <1>10, <1>11, <1>12, <1>13 DEF AInv

LEMMA ApplyCommitAnswers ==
    ASSUME IInv, IInv', AInv, FederationAssumption, NEW r \in checked, ApplyCommit(r)
    PROVE  AInv'
  <1>1. /\ r.row \in HubCommits /\ r.to \in Mirrors /\ r.row.seq \in Nat /\ r.row.kind = "commit"
        /\ post' = post /\ net' = net /\ checked' = checked \ {r}
    BY DEF IInv, TypeOK, NetType, TravelInv, HubCommits, Rows, ApplyCommit
  <1>2. CASE Matches(conv[r.to], r.row.group, r.row.epoch - 1)
    <2>1. conv' = [conv EXCEPT ![r.to] = Committed(@, r.row.id, r.row.group, r.row.epoch - 1, r.row.seq)]
      BY <1>2 DEF ApplyCommit
    <2>2. post[r.row.id].at # r.to
      BY <1>1 DEF AInv, NoEchoInv
    <2>3. PICK m \in Mirrors : m = r.to
      BY <1>1
    <2>4. PICK row \in HubCommits : row = r.row
      BY <1>1
    <2> QED BY <1>1, <1>2, <2>1, <2>2, <2>3, <2>4, MirrorApplies
  <1>3. CASE ~Matches(conv[r.to], r.row.group, r.row.epoch - 1)
    <2>1. conv' = conv
      BY <1>3 DEF ApplyCommit
    <2>2. HubCommits' = HubCommits
      BY <2>1 DEF HubCommits
    <2> QED BY <1>1, <2>1, <2>2, CopiesGrow
  <1> QED BY <1>2, <1>3

LEMMA ApplyAnswerAnswers ==
    ASSUME IInv, IInv', AInv, FederationAssumption, NEW c \in Commits, ApplyAnswer(c)
    PROVE  AInv'
  <1>1. /\ c \in Items /\ post[c].at \in Mirrors /\ post[c].phase = "checked" /\ post[c].base \in Nat
        /\ post[c].at # Hub /\ post[c].hash # << >>
        /\ net' = net /\ checked' = checked /\ post' = [post EXCEPT ![c].phase = "ok"]
    BY DEF IInv, TypeOK, PostType, Posts, Hosts, Items, ApplyAnswer, AnswerInv
  <1>2. Matches(conv[post[c].at], post[c].group, post[c].base)
    BY <1>1 DEF AInv, FitsInv
  <1>3. PICK row \in HubCommits : row.id = c /\ row.group = post[c].group
                                  /\ row.epoch = post[c].base + 1
    BY <1>1 DEF IInv, AnswerInv
  <1>4. row.epoch - 1 = post[c].base
    BY <1>1, <1>3
  <1>5. PICK m \in Mirrors : m = post[c].at
    BY <1>1
  <1>6. conv' = [conv EXCEPT ![m] = Committed(@, row.id, row.group, row.epoch - 1, 0)]
    BY <1>2, <1>3, <1>4, <1>5 DEF ApplyAnswer
  <1>7. /\ post'[c].phase = "ok" /\ post'[c].at = post[c].at /\ post'[c].hash = post[c].hash
        /\ \A y \in Commits : y # c => post'[y] = post[y]
    BY <1>1, PhaseMoves, CommitsAreItems DEF IInv, TypeOK
  <1>8. Matches(conv[m], row.group, row.epoch - 1)
    BY <1>2, <1>3, <1>4, <1>5
  <1>9. /\ post[row.id].phase = "checked" /\ post[row.id].at = m
        /\ post'[row.id].phase = "ok" /\ post'[row.id].at = m
        /\ post'[row.id].hash = post[row.id].hash
        /\ \A d \in Commits : d # row.id => post'[d] = post[d]
    BY <1>1, <1>3, <1>5, <1>7
  <1>10. PICK n \in Nat : n = 0
    OBVIOUS
  <1>11. conv' = [conv EXCEPT ![m] = Committed(@, row.id, row.group, row.epoch - 1, n)]
    BY <1>6, <1>10
  <1>12. net' \cup checked' \subseteq net \cup checked
    BY <1>1
  <1> QED BY <1>8, <1>9, <1>11, <1>12, MirrorApplies

LEMMA ProvisionAnswers ==
    ASSUME IInv, IInv', AInv, FederationAssumption, NEW m \in Mirrors, ProvisionMirror(m)
    PROVE  AInv'
  <1>1. post' = post /\ net' = net /\ checked' = checked
    BY DEF ProvisionMirror
  <1>2. conv \in [Hosts -> Copies] /\ Hub \in Hosts /\ m \in Hosts /\ m # Hub /\ conv[m] \in Copies
    BY FederationAssumption DEF IInv, TypeOK, ConvType, Hosts
  <1>3. CASE conv[m].exists
    <2>1. conv' = conv
      BY <1>3 DEF ProvisionMirror
    <2>2. HubCommits' = HubCommits
      BY <2>1 DEF HubCommits
    <2> QED BY <1>1, <2>1, <2>2, CopiesGrow
  <1>4. CASE ~conv[m].exists
    <2>1. /\ \A i \in Hosts : i # m => conv'[i] = conv[i]
          /\ conv'[m].log = conv[m].log
          /\ conv'[m].group = NoGroup => conv'[m].chain = << >>
      <3>1. CASE spec[m].group = NoGroup
        <4>1. conv' = [conv EXCEPT ![m].exists = TRUE]
          BY <1>4, <3>1 DEF ProvisionMirror
        <4>2. conv'[m] = [conv[m] EXCEPT !.exists = TRUE]
          BY <1>2, <4>1
        <4>3. conv'[m].log = conv[m].log /\ conv'[m].group = conv[m].group /\ conv'[m].chain = conv[m].chain
          BY <1>2, <4>2 DEF Copies
        <4> QED BY <1>2, <4>1, <4>3 DEF AInv, OneGroupInv
      <3>2. CASE spec[m].group # NoGroup
        <4>1. conv' = [conv EXCEPT ![m].exists = TRUE, ![m].group = spec[m].group,
                                   ![m].epoch = spec[m].epoch, ![m].chain = spec[m].chain]
          BY <1>4, <3>2 DEF ProvisionMirror
        <4>2. conv'[m] = [conv[m] EXCEPT !.exists = TRUE, !.group = spec[m].group,
                                         !.epoch = spec[m].epoch, !.chain = spec[m].chain]
              /\ \A i \in Hosts : i # m => conv'[i] = conv[i]
          BY <1>2, <4>1
        <4>3. conv'[m].log = conv[m].log /\ conv'[m].group = spec[m].group
          BY <1>2, <4>2 DEF Copies
        <4> QED BY <3>2, <4>2, <4>3
      <3> QED BY <3>1, <3>2
    <2>2. conv'[Hub] = conv[Hub] /\ HubCommits' = HubCommits /\ \A d \in Commits : Ordered(d)' = Ordered(d)
      BY <1>2, <2>1 DEF HubCommits, Ordered
    <2>3. \A d \in Commits : post[d].at \in Hosts
      BY CommitsAreItems DEF IInv, TypeOK, PostType, Posts
    <2>4. \A d \in Commits : post[d].phase \in {"sent", "stored", "answered", "checked"} => post[d].at # m
      BY <1>4 DEF AInv, SentInv
    <2>5. FateInv'
      BY <1>1, <2>2 DEF AInv, FateInv
    <2>6. OneGroupInv'
      BY <2>1, <2>2 DEF AInv, OneGroupInv
    <2>7. SentInv'
      BY <1>1, <2>1, <2>3, <2>4 DEF AInv, SentInv
    <2>8. FitsInv'
      BY <1>1, <2>1, <2>3, <2>4 DEF AInv, FitsInv
    <2>9. NoEchoInv'
      BY <1>1 DEF AInv, NoEchoInv
    <2>10. AcceptedIsApplied'
      BY <1>1, <2>1, <2>3 DEF AInv, AcceptedIsApplied
    <2> QED BY <2>5, <2>6, <2>7, <2>8, <2>9, <2>10 DEF AInv
  <1> QED BY <1>3, <1>4
\* A row that is no Commit's changes no answer.
LEMMA AppendAnswers ==
    ASSUME IInv, IInv', AInv, FederationAssumption,
           NEW h \in Hosts, NEW x \in Items \cup Mirrors, x \notin Commits, NEW n \in Nat,
           NEW k \in {"message", "membership"},
           conv' = [conv EXCEPT ![h] = Appended(@, x, k, n)],
           \A c \in Commits : post'[c] = post[c],
           net' \cup checked' \subseteq net \cup checked
    PROVE  AInv'
  <1> DEFINE t == Appended(conv[h], x, k, n)
  <1>1. conv \in [Hosts -> Copies] /\ conv[h] \in Copies /\ Hub \in Hosts
    BY DEF IInv, TypeOK, ConvType, Hosts
  <1>2. PlainGrowth(conv[h], t, x, k)
    BY <1>1, AppendedCopy
  <1>3. conv'[h] = t /\ \A i \in Hosts : i # h => conv'[i] = conv[i]
    BY <1>1
  <1> HIDE DEF t
  <1>4. PICK new : t.log = conv[h].log \cup {new} /\ new.id = x /\ new.kind = k
    <2>1. PICK j \in Nat : t.log = conv[h].log \cup {PlainRow(x, k, j)}
      BY <1>2 DEF PlainGrowth
    <2>2. PICK new : new = PlainRow(x, k, j)
      OBVIOUS
    <2>3. new.id = x /\ new.kind = k
      BY <2>2 DEF PlainRow
    <2> QED BY <2>1, <2>2, <2>3
  <1>5. \A i \in Hosts : /\ conv'[i].group = conv[i].group /\ conv'[i].epoch = conv[i].epoch
                         /\ conv'[i].chain = conv[i].chain
                         /\ conv[i].exists => conv'[i].exists
                         /\ conv[i].log \subseteq conv'[i].log
    BY <1>2, <1>3, <1>4 DEF PlainGrowth
  <1>6. \A row \in conv'[Hub].log \ conv[Hub].log : row.id \notin Commits
    BY <1>1, <1>3, <1>4
  <1>7. HubCommits' = HubCommits
    BY AppendKeeps
  <1> QED BY <1>5, <1>6, <1>7, CopiesGrow

\* A step that touches no copy and no Commit's post.
LEMMA QuietAnswers ==
    ASSUME IInv, IInv', AInv, conv' = conv, \A c \in Commits : post'[c] = post[c],
           net' \cup checked' \subseteq net \cup checked
    PROVE  AInv'
  <1>1. HubCommits' = HubCommits
    BY DEF HubCommits
  <1> QED BY <1>1, CopiesGrow

\* What happens to messages and memberships changes no Commit's answer.
LEMMA MessageAnswers ==
    ASSUME IInv, IInv', AInv, FederationAssumption,
           \/ \E x \in Messages : OfMessage(x) \/ \E h \in Hosts : Send(x, h)
           \/ \E r \in net : OfRelay(r)
           \/ \E m \in Mirrors : ReadConversation(m) \/ AddMemberRow(m) \/ RecordMembership(m)
    PROVE  AInv'
  <1>0. Hub \in Hosts /\ post \in [Items -> Posts]
    BY DEF Hosts, IInv, TypeOK, PostType
  <1>1. ASSUME NEW x \in Messages, NEW h \in Hosts, Send(x, h) PROVE AInv'
    <2>1. conv' = conv /\ net' = net /\ checked' = checked
      BY <1>1 DEF Send
    <2>2. \A c \in Commits : c # x
      BY FederationAssumption
    <2>3. \A c \in Commits : post'[c] = post[c]
      BY <1>0, <1>1, <2>2, CommitsAreItems DEF Send
    <2> QED BY <2>1, <2>3, QuietAnswers
  <1>2. ASSUME NEW x \in Messages, AppendMessage(x) PROVE AInv'
    <2>1. /\ conv' = [conv EXCEPT ![Hub] = Appended(@, x, "message", 0)]
          /\ net' \cup checked' \subseteq net \cup checked
      BY <1>2 DEF AppendMessage
    <2>2. x \in Items \cup Mirrors /\ x \notin Commits
      BY FederationAssumption DEF Items
    <2>3. \A c \in Commits : post'[c] = post[c]
      BY <1>0, <1>2, <2>2, CommitsAreItems DEF AppendMessage
    <2> QED BY <1>0, <2>1, <2>2, <2>3, AppendAnswers
  <1>3. ASSUME NEW x \in Messages, EchoMessage(x) PROVE AInv'
    <2>1. x \in Items \cup Mirrors /\ x \in Items /\ x \notin Commits
      BY FederationAssumption DEF Items
    <2>2. PICK row \in conv[Hub].log :
              conv' = [conv EXCEPT ![post[x].at] = Appended(@, x, "message", row.seq)]
      BY <1>3 DEF EchoMessage
    <2>3. PICK h \in Hosts : h = post[x].at
      BY <1>0, <2>1 DEF Posts
    <2>4. PICK n \in Nat : n = row.seq
      BY <1>0 DEF IInv, TypeOK, ConvType, Copies, Rows
    <2>5. /\ conv' = [conv EXCEPT ![h] = Appended(@, x, "message", n)]
          /\ net' \cup checked' \subseteq net \cup checked
      BY <1>3, <2>2, <2>3, <2>4 DEF EchoMessage
    <2>6. \A c \in Commits : post'[c] = post[c]
      BY <1>0, <1>3, <2>1, CommitsAreItems DEF EchoMessage
    <2> QED BY <2>1, <2>5, <2>6, AppendAnswers
  <1>4. ASSUME NEW r \in net, DeliverMessage(r) PROVE AInv'
    <2>1. /\ r.row \in conv[Hub].log /\ r.row.kind # "commit" /\ r.row.id \in Items \cup Mirrors
          /\ r.row.kind \in {"message", "membership"} /\ r.row.seq \in Nat /\ r.to \in Hosts
      BY <1>4 DEF DeliverMessage, IInv, TravelInv, TypeOK, NetType, Rows, Hosts
    <2>2. post' = post /\ net' \cup checked' \subseteq net \cup checked
      BY <1>4 DEF DeliverMessage
    <2>3. PICK h \in Hosts, x \in Items \cup Mirrors, k \in {"message", "membership"}, n \in Nat :
              h = r.to /\ x = r.row.id /\ k = r.row.kind /\ n = r.row.seq
      BY <2>1
    <2>4. x \notin Commits
      BY <2>1, <2>3 DEF AInv, FateInv
    <2>5. CASE conv[h].exists
      <3>1. conv' = [conv EXCEPT ![h] = Appended(@, x, k, n)]
        BY <1>4, <2>3, <2>5 DEF DeliverMessage
      <3> QED BY <2>2, <2>4, <3>1, AppendAnswers
    <2>6. CASE ~conv[h].exists
      <3>1. conv' = conv
        BY <1>4, <2>3, <2>6 DEF DeliverMessage
      <3> QED BY <2>2, <3>1, QuietAnswers
    <2> QED BY <2>5, <2>6
  <1>5. ASSUME NEW r \in net, CheckCommit(r) \/ DropCommit(r) PROVE AInv'
    <2>1. conv' = conv /\ post' = post /\ net' \cup checked' \subseteq net \cup checked
      BY <1>5 DEF CheckCommit, DropCommit
    <2> QED BY <2>1, QuietAnswers
  <1>6. ASSUME NEW m \in Mirrors, ReadConversation(m) \/ AddMemberRow(m) PROVE AInv'
    <2>1. conv' = conv /\ post' = post /\ net' \cup checked' \subseteq net \cup checked
      BY <1>6 DEF ReadConversation, AddMemberRow
    <2> QED BY <2>1, QuietAnswers
  <1>7. ASSUME NEW m \in Mirrors, RecordMembership(m) PROVE AInv'
    <2>1. /\ conv' = [conv EXCEPT ![Hub] = Appended(@, m, "membership", 0)]
          /\ post' = post /\ net' \cup checked' \subseteq net \cup checked
      BY <1>7 DEF RecordMembership
    <2>2. m \in Items \cup Mirrors /\ m \notin Commits
      BY FederationAssumption
    <2> QED BY <1>0, <2>1, <2>2, AppendAnswers
  <1> QED BY <1>1, <1>2, <1>3, <1>4, <1>5, <1>6, <1>7 DEF OfMessage, OfRelay

\* The hub's refusal and the mirror's reading of an answer: the links always agree.
LEMMA AnsweredAnswers ==
    ASSUME IInv, IInv', AInv, NEW c \in Commits,
           Refuse(c) \/ AnswerConflict(c) \/ AnswerAccepted(c) \/ AnswerDivergent(c)
    PROVE  AInv'
  <1>1. CASE Refuse(c)
    <2>1. PICK ph : ph = IF post[c].at = Hub THEN "conflict" ELSE "answered"
      OBVIOUS
    <2>2. post' = [post EXCEPT ![c].phase = ph]
      BY <1>1, <2>1 DEF Refuse
    <2>3. /\ post[c].phase = "sent" /\ conv' = conv /\ net' \cup checked' = net \cup checked
          /\ ph = "conflict" \/ ph = "answered"
      BY <1>1, <2>1 DEF Refuse
    <2> QED BY <2>2, <2>3, PostMoves
  <1>2. CASE AnswerConflict(c)
    <2>1. /\ post' = [post EXCEPT ![c].phase = "conflict"] /\ conv' = conv
          /\ post[c].phase = "answered" /\ post[c].hash = << >>
          /\ net' \cup checked' = net \cup checked
      BY <1>2 DEF AnswerConflict
    <2> QED BY <2>1, PostMoves
  <1>3. CASE AnswerAccepted(c)
    <2>1. /\ post' = [post EXCEPT ![c].phase = "checked"] /\ conv' = conv
          /\ post[c].phase = "answered" /\ post[c].hash # << >>
          /\ net' \cup checked' = net \cup checked
      BY <1>3 DEF AnswerAccepted
    <2> QED BY <2>1, PostMoves
  <1>4. CASE AnswerDivergent(c)
    <2>1. post[c].at # Hub
      BY <1>4, CommitsAreItems DEF AnswerDivergent, IInv, TypeOK, PostType
    <2> QED BY <1>4, <2>1 DEF AnswerDivergent, Divergent, AInv, FitsInv
  <1> QED BY <1>1, <1>2, <1>3, <1>4

LEMMA AnswersInit == ASSUME FederationAssumption, Init PROVE AInv
  <1>1. \A h \in Hosts : conv[h] = Fresh(h \in {Hub} \cup Founding)
    BY DEF Init
  <1>2. \A e \in BOOLEAN : Fresh(e).log = {} /\ Fresh(e).chain = << >>
    BY DEF Fresh
  <1>3. \A h \in Hosts : (h \in {Hub} \cup Founding) \in BOOLEAN
    OBVIOUS
  <1>4. \A h \in Hosts : conv[h].log = {} /\ conv[h].chain = << >>
    <2> HIDE DEF Hosts
    <2> QED BY <1>1, <1>2, <1>3, Zenon
  <1>5. \A c \in Commits : post[c].phase = "idle" /\ post[c].hash = << >>
    BY CommitsAreItems DEF Init, Unsent
  <1>6. conv[Hub].log = {} /\ net = {} /\ checked = {}
    BY <1>4 DEF Hosts, Init
  <1> QED
    BY <1>4, <1>5, <1>6 DEF AInv, FateInv, OneGroupInv, SentInv, FitsInv, NoEchoInv,
       AcceptedIsApplied, Ordered, HubCommits

LEMMA AnswersNext ==
    ASSUME IInv, IInv', AInv, FederationAssumption, Failures = {}, MayReset = {}, [Next]_vars
    PROVE  AInv'
  <1>1. CASE Decide
    <2>1. ~\E h \in Hosts : Reset(h)
      BY DEF Reset
    <2> QED BY <1>1, <2>1, ProposeAnswers, MessageAnswers DEF Decide
  <1>2. CASE Lose
    BY <1>2 DEF Lose, LoseRelay, LosePost, LoseProvision
  <1>3. CASE Handle
    <2>1. ASSUME NEW c \in Commits, OfCommit(c) PROVE AInv'
      BY <2>1, FederationAssumption, AcceptAnswers, AnsweredAnswers, ApplyAnswerAnswers DEF OfCommit
    <2>2. ASSUME NEW m \in Mirrors, OfAddMember(m) PROVE AInv'
      BY <2>2, FederationAssumption, MessageAnswers, ProvisionAnswers DEF OfAddMember
    <2> QED
      BY <1>3, <2>1, <2>2, FederationAssumption, MessageAnswers, RelayAnswers, ApplyCommitAnswers
         DEF Handle
  <1>4. CASE UNCHANGED vars
    BY <1>4, QuietAnswers DEF vars
  <1> QED BY <1>1, <1>2, <1>3, <1>4 DEF Next

\* While calls arrive and nobody resets, what devices are told is in order throughout.
THEOREM AnswersInvariance ==
    ASSUME Failures = {}, MayReset = {}
    PROVE  Spec => [](IInv /\ AInv)
  <1>1. Init => AInv
    BY AnswersInit, FederationAssumption
  <1>2. IInv /\ IInv' /\ AInv /\ [Next]_vars => AInv'
    BY AnswersNext, FederationAssumption
  <1> QED BY <1>1, <1>2, FederationInvariance, PTL DEF Spec

\* While calls between hosts arrive and nobody resets, a device that is told its
\* Commit failed can forget it: the hub has not ordered it, and no link the hub
\* returned ever disagrees with the mirror's (ForwardCommit, Session.commit).
THEOREM RefusalsAreTrue ==
    ASSUME Failures = {}, MayReset = {}
    PROVE  Spec => []RefusedIsNotHistory
  <1>1. AInv => RefusedIsNotHistory
    BY DEF AInv, FateInv, RefusedIsNotHistory
  <1> QED BY <1>1, AnswersInvariance, PTL

\* Under the same hypotheses, a device that is told its Commit was accepted finds
\* it in its own host's log: what the mirror forwarded is still applicable when
\* the answer comes, whatever was relayed meanwhile (ForwardCommit).
THEOREM AcceptancesAreTrue ==
    ASSUME Failures = {}, MayReset = {}
    PROVE  Spec => []AcceptedIsApplied
  <1>1. AInv => AcceptedIsApplied
    BY DEF AInv
  <1> QED BY <1>1, AnswersInvariance, PTL

(***************************************************************************)
(* Proofs about the path of a channel post.  Keys: a request that passed   *)
(* the idempotency check carries its key alone.  Places: a post the queue  *)
(* took is in one place at a time, and each place says how far the post    *)
(* has been stored, pushed and relayed.                                    *)
(***************************************************************************)
(***************************************************************************)
(* Queues without repetition                                               *)
(***************************************************************************)
Distinct(s) == \A i, k \in DOMAIN s : s[i] = s[k] => i = k

LEMMA QueueAppended ==
    ASSUME NEW S, NEW s \in Seq(S), NEW x \in S
    PROVE  /\ Append(s, x) \in Seq(S)
           /\ Range(Append(s, x)) = Range(s) \cup {x}
           /\ (Distinct(s) /\ x \notin Range(s)) => Distinct(Append(s, x))
<1>1. /\ Append(s, x) \in Seq(S) /\ Len(Append(s, x)) = Len(s) + 1
      /\ \A i \in 1 .. Len(s) : Append(s, x)[i] = s[i]
      /\ Append(s, x)[Len(s) + 1] = x
      /\ DOMAIN s = 1 .. Len(s) /\ DOMAIN Append(s, x) = 1 .. Len(s) + 1 /\ Len(s) \in Nat
  BY AppendProperties, LenProperties
<1> HIDE DEF Range
<1>2. Range(Append(s, x)) = Range(s) \cup {x}
  <2>1. \A i \in 1 .. Len(s) + 1 : i \in 1 .. Len(s) \/ i = Len(s) + 1
    BY <1>1
  <2>2. Len(s) + 1 \in 1 .. Len(s) + 1 /\ \A i \in 1 .. Len(s) : i \in 1 .. Len(s) + 1
    BY <1>1
  <2> QED BY <1>1, <2>1, <2>2, Zenon DEF Range
<1>3. ASSUME Distinct(s), x \notin Range(s) PROVE Distinct(Append(s, x))
  <2>1. \A i \in DOMAIN s : s[i] # x
    BY <1>3 DEF Range
  <2> QED BY <1>1, <1>3, <2>1 DEF Distinct
<1> QED BY <1>1, <1>2, <1>3

LEMMA HeadTaken ==
    ASSUME NEW S, NEW s \in Seq(S), s # <<>>
    PROVE  /\ Tail(s) \in Seq(S) /\ Head(s) \in S
           /\ Range(s) = Range(Tail(s)) \cup {Head(s)}
           /\ Distinct(s) => Distinct(Tail(s)) /\ Head(s) \notin Range(Tail(s))
<1>1. /\ Tail(s) \in Seq(S) /\ Head(s) \in S /\ Head(s) = s[1] /\ Len(s) \in Nat \ {0}
      /\ Len(Tail(s)) = Len(s) - 1 /\ \A i \in 1 .. Len(Tail(s)) : Tail(s)[i] = s[i + 1]
      /\ DOMAIN s = 1 .. Len(s) /\ DOMAIN Tail(s) = 1 .. Len(s) - 1
  BY HeadTailProperties, LenProperties, EmptySeq
<1>2. Range(s) = Range(Tail(s)) \cup {Head(s)}
  <2>1. ASSUME NEW y \in Range(s) PROVE y \in Range(Tail(s)) \cup {Head(s)}
    <3>1. PICK i \in 1 .. Len(s) : s[i] = y
      BY <1>1, <2>1 DEF Range
    <3>2. CASE i = 1
      BY <1>1, <3>1, <3>2
    <3>3. CASE i # 1
      <4>1. i - 1 \in DOMAIN Tail(s) /\ Tail(s)[i - 1] = y
        BY <1>1, <3>1, <3>3
      <4> QED BY <4>1 DEF Range
    <3> QED BY <3>2, <3>3
  <2>2. ASSUME NEW y \in Range(Tail(s)) PROVE y \in Range(s)
    <3>1. PICK i \in 1 .. Len(s) - 1 : Tail(s)[i] = y
      BY <1>1, <2>2 DEF Range
    <3>2. i + 1 \in DOMAIN s /\ s[i + 1] = y
      BY <1>1, <3>1
    <3> QED BY <3>2 DEF Range
  <2>3. Head(s) \in Range(s)
    <3>1. 1 \in DOMAIN s
      BY <1>1
    <3> QED BY <1>1, <3>1 DEF Range
  <2> QED BY <2>1, <2>2, <2>3
<1>3. ASSUME Distinct(s) PROVE Distinct(Tail(s)) /\ Head(s) \notin Range(Tail(s))
  <2>1. \A i \in DOMAIN Tail(s) : i + 1 \in DOMAIN s /\ Tail(s)[i] = s[i + 1] /\ i \in Int /\ i + 1 # 1
    BY <1>1
  <2>2. 1 \in DOMAIN s
    BY <1>1
  <2>3. Distinct(Tail(s))
    BY <1>3, <2>1 DEF Distinct
  <2>4. \A i \in DOMAIN Tail(s) : Tail(s)[i] # Head(s)
    BY <1>1, <1>3, <2>1, <2>2 DEF Distinct
  <2> QED BY <2>3, <2>4 DEF Range
<1> QED BY <1>1, <1>2, <1>3

LEMMA PutInFront ==
    ASSUME NEW S, NEW s \in Seq(S), NEW x \in S
    PROVE  /\ <<x>> \o s \in Seq(S)
           /\ Range(<<x>> \o s) = Range(s) \cup {x}
           /\ (Distinct(s) /\ x \notin Range(s)) => Distinct(<<x>> \o s)
<1>1. /\ <<x>> \o s \in Seq(S) /\ Len(<<x>> \o s) = Len(s) + 1 /\ Len(s) \in Nat
      /\ \A i \in 1 .. Len(s) + 1 : (<<x>> \o s)[i] = IF i = 1 THEN x ELSE s[i - 1]
      /\ DOMAIN s = 1 .. Len(s) /\ DOMAIN (<<x>> \o s) = 1 .. Len(s) + 1
  <2>1. <<x>> \in Seq(S) /\ Len(<<x>>) = 1 /\ <<x>>[1] = x
    OBVIOUS
  <2>2. <<x>> \o s \in Seq(S) /\ Len(<<x>> \o s) = Len(s) + 1 /\ Len(s) \in Nat
    BY <2>1, ConcatProperties, LenProperties
  <2>3. \A i \in 1 .. Len(s) + 1 : (<<x>> \o s)[i] = IF i = 1 THEN x ELSE s[i - 1]
    BY <2>1, <2>2
  <2> QED BY <2>2, <2>3, LenProperties
<1> DEFINE c == <<x>> \o s
<1> HIDE DEF c
<1>2. \A i \in DOMAIN s : i + 1 \in DOMAIN c /\ c[i + 1] = s[i]
  BY <1>1 DEF c
<1>3. \A i \in DOMAIN c : (i = 1 /\ c[i] = x) \/ (i - 1 \in DOMAIN s /\ c[i] = s[i - 1] /\ i \in Int)
  BY <1>1 DEF c
<1>4. 1 \in DOMAIN c /\ c[1] = x
  BY <1>1 DEF c
<1>5. Range(c) = Range(s) \cup {x}
  BY <1>2, <1>3, <1>4 DEF Range
<1>6. ASSUME Distinct(s), x \notin Range(s) PROVE Distinct(c)
  <2>1. \A i \in DOMAIN s : s[i] # x
    BY <1>6 DEF Range
  <2> QED BY <1>3, <1>6, <2>1 DEF Distinct
<1> QED BY <1>1, <1>5, <1>6 DEF c

(***************************************************************************)
(* Idempotency keys                                                        *)
(***************************************************************************)
KeyTypes ==
    /\ req \in [Requests -> [pc : {"idle", "seen", "decode", "publish", "accepted", "failed"},
                             key : IdemKeys \cup {None}]]
    /\ published \in SUBSET Requests
    /\ seen \in SUBSET IdemKeys
    /\ \A r \in published : req[r].pc \in {"accepted", "failed"}
    /\ \A r \in Requests : req[r].pc = "seen" => req[r].key # None

\* A request that the idempotency check let through, and that has not failed unpublished.
Passed(r) == req[r].pc \in {"decode", "publish"} \/ r \in published

Carried(k) == \E t \in Requests : req[t].key = k /\ Passed(t)

\* Whoever passed with a key has it remembered, and has it alone unless it could not be asked.
KeyIsHeld ==
    /\ \A r \in Requests : (Passed(r) /\ req[r].key # None) => req[r].key \in seen \cup doubled
    /\ \A r, t \in Requests :
          (Passed(r) /\ Passed(t) /\ r # t /\ req[r].key = req[t].key) => req[r].key \in doubled \cup {None}

\* A key is remembered for a post that is queued or on its way, or for one that failed.
KeyIsOwed ==
    /\ \A k \in seen : Carried(k) \/ k \in spoiled
    /\ \A r \in Requests : req[r].pc = "accepted" =>
          r \in published \/ (req[r].key # None /\ Carried(req[r].key)) \/ req[r].key \in spoiled

KeysInv == KeyTypes /\ KeyIsHeld /\ KeyIsOwed

\* What a step of one request leaves alone.
LEMMA OneRequestMoves ==
    ASSUME KeysInv, NEW r \in Requests,
           NEW q \in [pc : {"idle", "seen", "decode", "publish", "accepted", "failed"},
                      key : IdemKeys \cup {None}],
           req' = [req EXCEPT ![r] = q]
    PROVE  /\ req' \in [Requests -> [pc : {"idle", "seen", "decode", "publish", "accepted", "failed"},
                                     key : IdemKeys \cup {None}]]
           /\ req'[r] = q /\ \A t \in Requests : t # r => req'[t] = req[t]
BY DEF KeysInv, KeyTypes

\* Goto moves a request and leaves its key.
LEMMA GotoMoves ==
    ASSUME KeysInv, NEW r \in Requests, NEW pc \in {"decode", "publish", "accepted", "failed"}, Goto(r, pc)
    PROVE  /\ req' \in [Requests -> [pc : {"idle", "seen", "decode", "publish", "accepted", "failed"},
                                     key : IdemKeys \cup {None}]]
           /\ req'[r].pc = pc /\ req'[r].key = req[r].key
           /\ \A t \in Requests : t # r => req'[t] = req[t]
<1>1. [req[r] EXCEPT !.pc = pc] \in [pc : {"idle", "seen", "decode", "publish", "accepted", "failed"},
                                     key : IdemKeys \cup {None}]
  BY DEF KeysInv, KeyTypes
<1>2. [req[r] EXCEPT !.pc = pc].pc = pc /\ [req[r] EXCEPT !.pc = pc].key = req[r].key
  BY DEF KeysInv, KeyTypes
<1> DEFINE q == [req[r] EXCEPT !.pc = pc]
<1>3. req' = [req EXCEPT ![r] = q]
  BY DEF Goto
<1> HIDE DEF q
<1>4. q \in [pc : {"idle", "seen", "decode", "publish", "accepted", "failed"},
             key : IdemKeys \cup {None}] /\ q.pc = pc /\ q.key = req[r].key
  BY <1>1, <1>2 DEF q
<1> QED BY <1>3, <1>4, OneRequestMoves

LEMMA NotifyKeepsKeys ==
    ASSUME KeysInv, NEW r \in Requests, NEW key \in IdemKeys \cup {None}, notify(r, key)
    PROVE  KeysInv'
<1> USE DEF KeysInv
<1> DEFINE q == [pc |-> IF key = None THEN "decode" ELSE "seen", key |-> key]
<1>1. /\ req[r].pc = "idle" /\ req' = [req EXCEPT ![r] = q]
      /\ UNCHANGED <<seen, published, spoiled, doubled>>
  BY DEF notify, At, ghosts
<1>2. /\ q \in [pc : {"idle", "seen", "decode", "publish", "accepted", "failed"},
                key : IdemKeys \cup {None}]
      /\ q.key = key /\ (key = None => q.pc = "decode") /\ (key # None => q.pc = "seen")
  <2>1. CASE key = None
    BY <2>1
  <2>2. CASE key # None
    BY <2>2
  <2> QED BY <2>1, <2>2
<1> HIDE DEF q
<1>3. /\ req' \in [Requests -> [pc : {"idle", "seen", "decode", "publish", "accepted", "failed"},
                                key : IdemKeys \cup {None}]]
      /\ req'[r] = q /\ \A t \in Requests : t # r => req'[t] = req[t]
  BY <1>1, <1>2, OneRequestMoves
<1>4. r \notin published /\ ~Passed(r)
  BY <1>1 DEF KeyTypes, Passed
<1>5. \A t \in Requests : t # r => (Passed(t)' <=> Passed(t))
  BY <1>1, <1>3 DEF Passed
<1>6. KeyTypes'
  BY <1>1, <1>2, <1>3, <1>4 DEF KeyTypes
<1>7. KeyIsHeld'
  BY <1>1, <1>2, <1>3, <1>4, <1>5 DEF KeyIsHeld, Passed
<1>8. \A k : Carried(k) => Carried(k)'
  BY <1>3, <1>4, <1>5 DEF Carried
<1>9. KeyIsOwed'
  <2>1. \A k \in seen' : Carried(k)' \/ k \in spoiled'
    BY <1>1, <1>8 DEF KeyIsOwed
  <2>2. ASSUME NEW t \in Requests, req'[t].pc = "accepted"
        PROVE  t \in published' \/ (req'[t].key # None /\ Carried(req[t].key)') \/ req'[t].key \in spoiled'
    <3>1. t # r /\ req'[t] = req[t]
      BY <1>2, <1>3, <2>2
    <3> QED BY <1>1, <1>8, <2>2, <3>1 DEF KeyIsOwed
  <2>3. \A t \in Requests : req'[t].pc = "accepted" => req'[t].key = req[t].key
    BY <1>2, <1>3
  <2> QED BY <2>1, <2>2, <2>3 DEF KeyIsOwed, Carried
<1> QED BY <1>6, <1>7, <1>9

LEMMA SeenKeepsKeys ==
    ASSUME ChannelPostsAssumption, KeysInv, NEW r \in Requests, Seen(r)
    PROVE  KeysInv'
<1> USE DEF KeysInv
<1>0. PICK k : k = req[r].key
  OBVIOUS
<1> DEFINE pc == IF k \in seen THEN "accepted" ELSE "decode"
<1>1. /\ req[r].pc = "seen" /\ Goto(r, pc) /\ seen' = seen \cup {k}
      /\ UNCHANGED <<published, spoiled, doubled>>
  BY <1>0 DEF Seen, At, ghosts
<1>2. /\ req' \in [Requests -> [pc : {"idle", "seen", "decode", "publish", "accepted", "failed"},
                                key : IdemKeys \cup {None}]]
      /\ req'[r].pc = pc /\ req'[r].key = k
      /\ \A t \in Requests : t # r => req'[t] = req[t]
  BY <1>0, <1>1, GotoMoves
<1>3. r \notin published /\ ~Passed(r) /\ k \in IdemKeys /\ k # None
  BY <1>0, <1>1 DEF KeyTypes, Passed
<1>4. \A t \in Requests : t # r => (Passed(t)' <=> Passed(t))
  BY <1>1, <1>2 DEF Passed
<1>5. Passed(r)' <=> k \notin seen
  BY <1>1, <1>2, <1>3 DEF Passed
<1>6. KeyTypes'
  BY <1>1, <1>2, <1>3 DEF KeyTypes
<1>7. KeyIsHeld'
  <2>1. \A t \in Requests : (Passed(t)' /\ req'[t].key # None) => req'[t].key \in seen' \cup doubled'
    BY <1>1, <1>2, <1>4 DEF KeyIsHeld
  <2>2. ASSUME NEW t \in Requests, NEW u \in Requests, Passed(t)', Passed(u)', t # u, req'[t].key = req'[u].key
        PROVE  req'[t].key \in doubled' \cup {None}
    BY <1>1, <1>2, <1>3, <1>4, <1>5, <2>2 DEF KeyIsHeld
  <2> QED BY <2>1, <2>2 DEF KeyIsHeld
<1>8. \A x : Carried(x) => Carried(x)'
  BY <1>2, <1>3, <1>4 DEF Carried
<1>9. k \notin seen => Carried(k)'
  BY <1>2, <1>5 DEF Carried
<1>10. KeyIsOwed'
  <2>1. \A x \in seen' : Carried(x)' \/ x \in spoiled'
    BY <1>1, <1>8, <1>9 DEF KeyIsOwed
  <2>2. ASSUME NEW t \in Requests, req'[t].pc = "accepted"
        PROVE  t \in published' \/ (req'[t].key # None /\ Carried(req[t].key)') \/ req'[t].key \in spoiled'
    <3>1. CASE t = r
      <4>1. Carried(k)' \/ k \in spoiled'
        BY <1>1, <2>1
      <4> QED BY <1>0, <1>2, <1>3, <3>1, <4>1
    <3>2. CASE t # r
      BY <1>1, <1>2, <1>8, <2>2, <3>2 DEF KeyIsOwed
    <3> QED BY <3>1, <3>2
  <2>3. \A t \in Requests : req'[t].key = req[t].key
    BY <1>0, <1>2
  <2> QED BY <2>1, <2>2, <2>3 DEF KeyIsOwed, Carried
<1> QED BY <1>6, <1>7, <1>10

\* A request goes on: past a check that failed, through decoding, into the queue.
LEMMA PassingKeepsKeys ==
    ASSUME KeysInv, NEW r \in Requests, NEW pc \in {"decode", "publish", "accepted"}, Goto(r, pc),
           req[r].pc \in {"seen", "decode", "publish"},
           seen' = seen, spoiled' = spoiled,
           doubled' \in SUBSET (doubled \cup {req[r].key}), doubled \in SUBSET doubled',
           req[r].pc = "seen" => req[r].key \in doubled',
           pc = "accepted" => published' = published \cup {r},
           pc # "accepted" => published' = published
    PROVE  KeysInv'
<1> USE DEF KeysInv
<1>1. /\ req' \in [Requests -> [pc : {"idle", "seen", "decode", "publish", "accepted", "failed"},
                                key : IdemKeys \cup {None}]]
      /\ req'[r].pc = pc /\ req'[r].key = req[r].key
      /\ \A t \in Requests : t # r => req'[t] = req[t]
  BY GotoMoves
<1>2. \A t \in Requests : req'[t].key = req[t].key
  BY <1>1
<1>3. \A t \in Requests : t # r => (Passed(t)' <=> Passed(t))
  BY <1>1 DEF Passed
<1>4. Passed(r)' /\ (Passed(r) \/ req[r].key \in doubled')
  BY <1>1 DEF Passed
<1>5. KeyTypes'
  BY <1>1 DEF KeyTypes
<1>6. KeyIsHeld'
  <2>1. \A t \in Requests : (Passed(t)' /\ req'[t].key # None) => req'[t].key \in seen' \cup doubled'
    BY <1>2, <1>3, <1>4 DEF KeyIsHeld
  <2>2. ASSUME NEW t \in Requests, NEW u \in Requests, Passed(t)', Passed(u)', t # u, req'[t].key = req'[u].key
        PROVE  req'[t].key \in doubled' \cup {None}
    BY <1>2, <1>3, <1>4, <2>2 DEF KeyIsHeld
  <2> QED BY <2>1, <2>2 DEF KeyIsHeld
<1>7. \A k : Carried(k) => Carried(k)'
  BY <1>2, <1>3, <1>4 DEF Carried
<1>8. KeyIsOwed'
  <2>1. \A k \in seen' : Carried(k)' \/ k \in spoiled'
    BY <1>7 DEF KeyIsOwed
  <2>2. ASSUME NEW t \in Requests, req'[t].pc = "accepted"
        PROVE  t \in published' \/ (req[t].key # None /\ Carried(req[t].key)') \/ req[t].key \in spoiled'
    <3>1. t = r => t \in published'
      BY <1>1, <2>2
    <3>2. t \in published => t \in published'
      OBVIOUS
    <3> QED BY <1>1, <1>7, <2>2, <3>1, <3>2 DEF KeyIsOwed
  <2> QED BY <1>2, <2>1, <2>2 DEF KeyIsOwed, Carried
<1> QED BY <1>5, <1>6, <1>8

LEMMA FailureKeepsKeys ==
    ASSUME ChannelPostsAssumption, KeysInv, NEW r \in Requests, IngestFails(r)
    PROVE  KeysInv'
<1> USE DEF KeysInv
<1>1. /\ req[r].pc \in {"decode", "publish"} /\ Goto(r, "failed")
      /\ spoiled' = spoiled \cup ({req[r].key} \ {None})
      /\ seen' = seen /\ doubled' = doubled
      /\ published' = published \/ published' = published \cup {r}
  BY DEF IngestFails
<1>2. /\ req' \in [Requests -> [pc : {"idle", "seen", "decode", "publish", "accepted", "failed"},
                                key : IdemKeys \cup {None}]]
      /\ req'[r].pc = "failed" /\ req'[r].key = req[r].key
      /\ \A t \in Requests : t # r => req'[t] = req[t]
  BY <1>1, GotoMoves
<1>3. \A t \in Requests : req'[t].key = req[t].key
  BY <1>2
<1>4. \A t \in Requests : Passed(t)' => Passed(t)
  BY <1>1, <1>2 DEF Passed
<1>5. \A t \in Requests : t # r => (Passed(t)' <=> Passed(t))
  BY <1>1, <1>2 DEF Passed
<1>6. KeyTypes'
  BY <1>1, <1>2 DEF KeyTypes
<1>7. KeyIsHeld'
  BY <1>1, <1>3, <1>4 DEF KeyIsHeld
<1>8. \A k : (Carried(k) /\ k # None) => Carried(k)' \/ k \in spoiled'
  BY <1>1, <1>3, <1>5 DEF Carried
<1>9. KeyIsOwed'
  <2>1. \A k \in seen' : Carried(k)' \/ k \in spoiled'
    <3> SUFFICES ASSUME NEW k \in seen' PROVE Carried(k)' \/ k \in spoiled'
      OBVIOUS
    <3>1. k \in seen /\ (k \in spoiled => k \in spoiled')
      BY <1>1
    <3>2. k # None
      BY <3>1 DEF KeyTypes, ChannelPostsAssumption
    <3> QED BY <1>8, <3>1, <3>2 DEF KeyIsOwed
  <2>2. ASSUME NEW t \in Requests, req'[t].pc = "accepted"
        PROVE  t \in published' \/ (req[t].key # None /\ Carried(req[t].key)') \/ req[t].key \in spoiled'
    <3>1. t # r /\ req'[t] = req[t]
      BY <1>2, <2>2
    <3> QED BY <1>1, <1>8, <2>2, <3>1 DEF KeyIsOwed
  <2> QED BY <1>3, <2>1, <2>2 DEF KeyIsOwed, Carried
<1> QED BY <1>6, <1>7, <1>9

LEMMA ExpiryKeepsKeys ==
    ASSUME KeysInv, NEW k \in IdemKeys, KeyExpires(k)
    PROVE  KeysInv'
<1>1. seen' = seen \ {k} /\ doubled' = doubled \cup {k} /\ UNCHANGED <<req, published, spoiled>>
  BY DEF KeyExpires
<1> QED BY <1>1 DEF KeysInv, KeyTypes, KeyIsHeld, KeyIsOwed, Carried, Passed

LEMMA OtherStepsKeepKeys ==
    ASSUME KeysInv, UNCHANGED <<seen, req, published, spoiled, doubled>>
    PROVE  KeysInv'
BY DEF KeysInv, KeyTypes, KeyIsHeld, KeyIsOwed, Carried, Passed

LEMMA ConsumersLeaveKeys ==
    ASSUME NEW c \in Consumers, Consume(c) \/ ConsumerDies(c)
    PROVE  UNCHANGED <<seen, req, published, spoiled, doubled>>
BY DEF Consume, ConsumerDies, Take, CreateMessage, Nack, DeliverLocally, fanOutToPeers, Ack, ingest, ghosts

LEMMA KeysInductive ==
    ASSUME ChannelPostsAssumption, KeysInv, [PostsNext]_postVars
    PROVE  KeysInv'
<1>1. ASSUME NEW c \in Channels, ChangeChannel(c) PROVE KeysInv'
  BY <1>1, OtherStepsKeepKeys DEF ChangeChannel, ghosts
<1>2. ASSUME NEW r \in Requests, SeenFails(r) PROVE KeysInv'
  BY <1>2, PassingKeepsKeys DEF SeenFails, At
<1>3. ASSUME NEW r \in Requests, decodeNotify(r) PROVE KeysInv'
  BY <1>3, PassingKeepsKeys DEF decodeNotify, At, ghosts
<1>4. ASSUME NEW r \in Requests, Publish(r) PROVE KeysInv'
  BY <1>4, PassingKeepsKeys DEF Publish, At, ghosts
<1>5. ASSUME NEW c \in Consumers, Consume(c) \/ ConsumerDies(c) PROVE KeysInv'
  BY <1>5, ConsumersLeaveKeys, OtherStepsKeepKeys
<1>6. ASSUME NEW j \in Joiners,
             SubscribeToRemoteChannel(j) \/ ChannelByOriginPublicID(j) \/ CreateMirror(j)
      PROVE  KeysInv'
  BY <1>6, OtherStepsKeepKeys
     DEF SubscribeToRemoteChannel, ChannelByOriginPublicID, CreateMirror, ingest, ghosts
<1>7. CASE UNCHANGED postVars
  BY <1>7, OtherStepsKeepKeys DEF postVars, ingest, ghosts
<1> QED
  BY <1>1, <1>2, <1>3, <1>4, <1>5, <1>6, <1>7, NotifyKeepsKeys, SeenKeepsKeys, FailureKeepsKeys,
     ExpiryKeepsKeys DEF PostsNext

LEMMA KeysStart == PostsInit => KeysInv
<1> SUFFICES ASSUME PostsInit PROVE KeysInv
  OBVIOUS
<1>1. \A r \in Requests : req[r].pc = "idle"
  BY DEF PostsInit
<1>2. KeyTypes
  BY DEF PostsInit, KeyTypes
<1> QED BY <1>1, <1>2 DEF PostsInit, KeysInv, KeyIsHeld, KeyIsOwed, Passed

\* However many copies of a request arrive at once, and whatever fails, one idempotency key
\* queues one post as long as the keys can be reached and the window lasts.
THEOREM KeyQueuesOnce == ASSUME ChannelPostsAssumption PROVE PostsSpec => []OnePostPerKey
<1>1. KeysInv /\ [PostsNext]_postVars => KeysInv'
  BY KeysInductive
<1>2. KeysInv => OnePostPerKey
  BY DEF KeysInv, KeyTypes, KeyIsHeld, Passed, OnePostPerKey
<1> QED BY <1>1, <1>2, KeysStart, PTL DEF PostsSpec

(***************************************************************************)
(* Where a post is                                                         *)
(***************************************************************************)
Delivery == [task : Requests, pc : {"store", "local", "peers", "ack"}]

PlaceTypes ==
    /\ queue \in Seq(Requests)
    /\ hand \in [Consumers -> Delivery \cup {None}]
    /\ stored \in [Requests -> Nat] /\ pushed \in [Requests -> Nat]
    /\ received \in [Requests -> Nat] /\ redelivered \in [Requests -> Nat]
    /\ published \in SUBSET Requests

\* A post is in the queue once or in the hands of one consumer, and the queue took it.
OnePlace ==
    /\ Distinct(queue) /\ Range(queue) \in SUBSET published
    /\ \A c \in Consumers : hand[c] # None =>
          hand[c].task \in published /\ hand[c].task \notin Range(queue)
    /\ \A c, d \in Consumers :
          (hand[c] # None /\ hand[d] # None /\ hand[c].task = hand[d].task) => c = d

\* How far a post has come, where it waits and in the hands of a consumer.
Waits(t) == stored[t] <= redelivered[t]
PostReached(t, pc) ==
    /\ pc = "store" => Waits(t)
    /\ pc # "store" => stored[t] > 0
    /\ pc = "local" => pushed[t] < stored[t]
    /\ pc = "peers" => received[t] < pushed[t]

Progress ==
    /\ \A t \in Requests : t \in published \/ stored[t] = 0
    /\ \A t \in Range(queue) : Waits(t)
    /\ \A c \in Consumers : hand[c] # None => PostReached(hand[c].task, hand[c].pc)
    /\ DuplicatesOnlyAfterDeath

NothingLost ==
    \A t \in published : t \in Range(queue) \cup dead \/ InHand(t) \/ stored[t] > 0

PlacesInv == PlaceTypes /\ OnePlace /\ Progress /\ NothingLost

LEMMA EnqueueKeepsPlaces ==
    ASSUME PlacesInv, NEW r \in Requests, r \notin published,
           queue' = Append(queue, r), published' = published \cup {r},
           UNCHANGED <<dead, hand, stored, pushed, received, redelivered>>
    PROVE  PlacesInv'
<1> USE DEF PlacesInv
<1>1. r \notin Range(queue) /\ Range(queue) \in SUBSET published /\ queue \in Seq(Requests) /\ Distinct(queue)
  BY DEF OnePlace, PlaceTypes
<1>2. queue' \in Seq(Requests) /\ Range(queue') = Range(queue) \cup {r} /\ Distinct(queue')
  BY <1>1, QueueAppended
<1>3. PlaceTypes'
  BY <1>2 DEF PlaceTypes
<1>4. OnePlace'
  BY <1>2 DEF OnePlace, PlaceTypes
<1>5. Waits(r)
  BY DEF Progress, Waits, PlaceTypes
<1>6. Progress'
  <2>1. \A t \in Range(queue') : Waits(t)'
    BY <1>2, <1>5 DEF Progress, Waits
  <2> QED BY <2>1 DEF Progress, Waits, PostReached, DuplicatesOnlyAfterDeath
<1>7. NothingLost'
  BY <1>2 DEF NothingLost, InHand
<1> QED BY <1>3, <1>4, <1>6, <1>7

\* A step of the consumer that holds a delivery.
LEMMA StepMoves ==
    ASSUME ChannelPostsAssumption, PlacesInv, NEW c \in Consumers, hand[c] # None,
           NEW pc \in {"local", "peers", "ack"}, Step(c, pc)
    PROVE  /\ hand' \in [Consumers -> Delivery \cup {None}]
           /\ hand[c].task \in Requests
           /\ hand'[c] # None /\ hand'[c].task = hand[c].task /\ hand'[c].pc = pc
           /\ \A d \in Consumers : d # c => hand'[d] = hand[d]
<1>1. hand[c] \in Delivery /\ hand \in [Consumers -> Delivery \cup {None}]
  BY DEF PlacesInv, PlaceTypes
<1>2. [hand[c] EXCEPT !.pc = pc] \in Delivery
  BY <1>1 DEF Delivery
<1>3. [hand[c] EXCEPT !.pc = pc].pc = pc /\ [hand[c] EXCEPT !.pc = pc].task = hand[c].task
  BY <1>1 DEF Delivery
<1>4. hand'[c] = [hand[c] EXCEPT !.pc = pc] /\ \A d \in Consumers : d # c => hand'[d] = hand[d]
  BY <1>1 DEF Step
<1>5. hand' \in [Consumers -> Delivery \cup {None}]
  BY <1>1, <1>2 DEF Step
<1>6. None \notin Delivery /\ hand[c].task \in Requests
  BY <1>1 DEF ChannelPostsAssumption, Delivery
<1> QED BY <1>2, <1>3, <1>4, <1>5, <1>6

\* Any step that advances one delivery and the counts of its post.
LEMMA AdvanceKeepsPlaces ==
    ASSUME ChannelPostsAssumption, PlacesInv, NEW c \in Consumers, hand[c] # None,
           NEW pc \in {"local", "peers", "ack"}, Step(c, pc),
           NEW t \in Requests, t = hand[c].task,
           UNCHANGED <<queue, dead, published, redelivered>>,
           stored' \in [Requests -> Nat], pushed' \in [Requests -> Nat], received' \in [Requests -> Nat],
           \A u \in Requests : u # t =>
              stored'[u] = stored[u] /\ pushed'[u] = pushed[u] /\ received'[u] = received[u],
           stored[t] > 0 => stored'[t] > 0,
           PostReached(t, pc)', stored'[t] <= 1 + redelivered[t],
           pushed'[t] <= stored'[t], received'[t] <= pushed'[t]
    PROVE  PlacesInv'
<1> USE DEF PlacesInv
<1>1. /\ hand' \in [Consumers -> Delivery \cup {None}]
      /\ hand'[c] # None /\ hand'[c].task = t /\ hand'[c].pc = pc
      /\ \A d \in Consumers : d # c => hand'[d] = hand[d]
  BY StepMoves
<1>2. PlaceTypes'
  BY <1>1 DEF PlaceTypes
<1>3. OnePlace'
  BY <1>1 DEF OnePlace
<1>4. t \in published /\ t \notin Range(queue) /\ Range(queue) \in SUBSET Requests
  BY DEF OnePlace, PlaceTypes
<1>5. \A d \in Consumers : (d # c /\ hand[d] # None) => hand[d].task # t /\ hand[d].task \in Requests
  BY DEF OnePlace, PlaceTypes
<1>6. Progress'
  <2>1. \A u \in Requests : u \in published' \/ stored'[u] = 0
    BY <1>4 DEF Progress
  <2>2. \A u \in Range(queue') : Waits(u)'
    BY <1>4 DEF Progress, Waits
  <2>3. ASSUME NEW d \in Consumers, hand'[d] # None
        PROVE  PostReached(hand[d].task, hand[d].pc)'
    <3>1. CASE d = c
      <4>1. PostReached(t, pc)'
        OBVIOUS
      <4> QED BY <1>1, <3>1, <4>1 DEF PostReached, Waits
    <3>2. CASE d # c
      BY <1>1, <1>5, <2>3, <3>2 DEF Progress, PostReached, Waits
    <3> QED BY <3>1, <3>2
  <2>4. DuplicatesOnlyAfterDeath'
    BY DEF Progress, DuplicatesOnlyAfterDeath
  <2> QED BY <2>1, <2>2, <2>3, <2>4 DEF Progress
<1>7. NothingLost'
  <2> SUFFICES ASSUME NEW u \in published
               PROVE  u \in Range(queue) \cup dead \/ InHand(u)' \/ stored'[u] > 0
    BY DEF NothingLost
  <2>1. InHand(u) => InHand(u)'
    BY <1>1 DEF InHand
  <2>2. stored[u] > 0 => stored'[u] > 0
    BY DEF PlaceTypes
  <2> QED BY <2>1, <2>2 DEF NothingLost
<1> QED BY <1>2, <1>3, <1>6, <1>7

LEMMA TakeKeepsPlaces ==
    ASSUME ChannelPostsAssumption, PlacesInv, NEW c \in Consumers, Take(c)
    PROVE  PlacesInv'
<1> USE DEF PlacesInv
<1> DEFINE t == Head(queue)
           new == [task |-> t, pc |-> "store"]
<1>1. /\ hand[c] = None /\ queue # <<>> /\ queue' = Tail(queue)
      /\ hand' = [hand EXCEPT ![c] = new]
      /\ UNCHANGED <<dead, stored, pushed, received, published, redelivered>>
  BY DEF Take, peering, ghosts
<1>2. /\ queue' \in Seq(Requests) /\ t \in Requests /\ Range(queue) = Range(queue') \cup {t}
      /\ Distinct(queue') /\ t \notin Range(queue')
  BY <1>1, HeadTaken DEF OnePlace, PlaceTypes
<1> HIDE DEF t
<1>3. new \in Delivery /\ new.task = t /\ new.pc = "store"
  BY <1>2 DEF Delivery
<1> HIDE DEF new
<1>4. new # None
  BY <1>3 DEF ChannelPostsAssumption, Delivery
<1>5. hand' \in [Consumers -> Delivery \cup {None}] /\ hand'[c] = new
      /\ \A d \in Consumers : d # c => hand'[d] = hand[d]
  BY <1>1, <1>3 DEF PlaceTypes
<1>6. PlaceTypes'
  BY <1>1, <1>2, <1>5 DEF PlaceTypes
<1>7. OnePlace'
  BY <1>1, <1>2, <1>3, <1>5 DEF OnePlace
<1>8. Progress'
  <2>1. Waits(t)
    BY <1>2 DEF Progress
  <2>2. ASSUME NEW d \in Consumers, hand'[d] # None
        PROVE  PostReached(hand[d].task, hand[d].pc)'
    BY <1>1, <1>3, <1>5, <2>1, <2>2 DEF Progress, PostReached, Waits
  <2>3. \A u \in Range(queue') : Waits(u)'
    BY <1>1, <1>2 DEF Progress, Waits
  <2> QED BY <1>1, <2>2, <2>3 DEF Progress, DuplicatesOnlyAfterDeath
<1>9. NothingLost'
  <2> SUFFICES ASSUME NEW u \in published
               PROVE  u \in Range(queue') \cup dead \/ InHand(u)' \/ stored[u] > 0
    BY <1>1 DEF NothingLost
  <2>1. InHand(u) \/ u = t => InHand(u)'
    BY <1>1, <1>3, <1>4, <1>5 DEF InHand
  <2> QED BY <1>2, <2>1 DEF NothingLost
<1> QED BY <1>6, <1>7, <1>8, <1>9

\* A delivery ends: acknowledged, dead-lettered, or taken back by the queue.
LEMMA LetGo ==
    ASSUME ChannelPostsAssumption, PlacesInv, NEW c \in Consumers, hand[c] # None,
           hand' = [hand EXCEPT ![c] = None]
    PROVE  /\ hand' \in [Consumers -> Delivery \cup {None}] /\ hand'[c] = None
           /\ \A d \in Consumers : d # c => hand'[d] = hand[d]
           /\ hand[c].task \in Requests
           /\ \A u : InHand(u) => InHand(u)' \/ u = hand[c].task
<1>1. /\ hand' \in [Consumers -> Delivery \cup {None}] /\ hand'[c] = None
      /\ \A d \in Consumers : d # c => hand'[d] = hand[d]
  BY DEF PlacesInv, PlaceTypes
<1>2. hand[c].task \in Requests
  BY DEF PlacesInv, PlaceTypes, Delivery
<1>3. \A u : InHand(u) => InHand(u)' \/ u = hand[c].task
  BY <1>1 DEF InHand
<1> QED BY <1>1, <1>2, <1>3

LEMMA EndKeepsPlaces ==
    ASSUME ChannelPostsAssumption, PlacesInv, NEW c \in Consumers, hand[c] # None,
           hand' = [hand EXCEPT ![c] = None], dead \in SUBSET dead',
           hand[c].task \in dead' \/ stored[hand[c].task] > 0,
           UNCHANGED <<queue, stored, pushed, received, published, redelivered>>
    PROVE  PlacesInv'
<1> USE DEF PlacesInv
<1>1. PlaceTypes'
  BY LetGo DEF PlaceTypes
<1>2. OnePlace'
  BY LetGo DEF OnePlace
<1>3. Progress'
  BY LetGo DEF Progress, PostReached, Waits, DuplicatesOnlyAfterDeath
<1>4. NothingLost'
  BY LetGo DEF NothingLost
<1> QED BY <1>1, <1>2, <1>3, <1>4

LEMMA DeathKeepsPlaces ==
    ASSUME ChannelPostsAssumption, PlacesInv, NEW c \in Consumers, ConsumerDies(c)
    PROVE  PlacesInv'
<1> USE DEF PlacesInv
<1>0. PICK t : t = hand[c].task
  OBVIOUS
<1>1. /\ hand[c] # None /\ queue' = <<t>> \o queue /\ hand' = [hand EXCEPT ![c] = None]
      /\ redelivered' = [redelivered EXCEPT ![t] = @ + 1]
      /\ UNCHANGED <<dead, stored, pushed, received, published>>
  BY <1>0 DEF ConsumerDies, peering
<1>2. /\ hand' \in [Consumers -> Delivery \cup {None}] /\ hand'[c] = None
      /\ \A d \in Consumers : d # c => hand'[d] = hand[d]
      /\ t \in Requests
      /\ \A u : InHand(u) => InHand(u)' \/ u = t
  BY <1>0, <1>1, LetGo
<1>3. t \in published /\ t \notin Range(queue) /\ \A d \in Consumers : d # c /\ hand[d] # None => hand[d].task # t
  BY <1>0, <1>1 DEF OnePlace
<1>4. queue' \in Seq(Requests) /\ Range(queue') = Range(queue) \cup {t} /\ Distinct(queue')
  BY <1>1, <1>2, <1>3, PutInFront DEF OnePlace, PlaceTypes
<1>5. redelivered' \in [Requests -> Nat] /\ redelivered'[t] = redelivered[t] + 1
      /\ \A u \in Requests : redelivered[u] <= redelivered'[u]
  BY <1>1, <1>2 DEF PlaceTypes
<1>6. PlaceTypes'
  BY <1>1, <1>2, <1>4, <1>5 DEF PlaceTypes
<1>7. OnePlace'
  BY <1>1, <1>2, <1>3, <1>4 DEF OnePlace
<1>8. Progress'
  <2>1. \A u \in Requests : Waits(u) => Waits(u)'
    BY <1>1, <1>5 DEF Waits, PlaceTypes
  <2>2. Waits(t)'
    BY <1>1, <1>2, <1>5 DEF Waits, Progress, DuplicatesOnlyAfterDeath, PlaceTypes
  <2>3. \A u \in Range(queue') : Waits(u)'
    BY <1>4, <2>1, <2>2 DEF Progress, OnePlace, PlaceTypes
  <2>4. ASSUME NEW d \in Consumers, hand'[d] # None
        PROVE  PostReached(hand[d].task, hand[d].pc)'
    <3>1. hand'[d] = hand[d] /\ hand[d] \in Delivery /\ PostReached(hand[d].task, hand[d].pc)
      BY <1>2, <2>4 DEF Progress, PlaceTypes
    <3>2. hand[d].task \in Requests
      BY <3>1 DEF Delivery
    <3> QED BY <1>1, <1>5, <2>1, <3>1, <3>2 DEF PostReached, Waits, PlaceTypes
  <2>5. DuplicatesOnlyAfterDeath'
    BY <1>1, <1>5 DEF Progress, DuplicatesOnlyAfterDeath, PlaceTypes
  <2> QED BY <1>1, <2>3, <2>4, <2>5 DEF Progress
<1>9. NothingLost'
  BY <1>1, <1>2, <1>4 DEF NothingLost
<1> QED BY <1>6, <1>7, <1>8, <1>9

LEMMA OtherStepsKeepPlaces ==
    ASSUME PlacesInv, UNCHANGED <<queue, dead, hand, stored, pushed, received, published, redelivered>>
    PROVE  PlacesInv'
BY DEF PlacesInv, PlaceTypes, OnePlace, Progress, PostReached, Waits, DuplicatesOnlyAfterDeath, NothingLost, InHand

LEMMA ConsumerKeepsPlaces ==
    ASSUME ChannelPostsAssumption, PlacesInv, NEW c \in Consumers, Consume(c)
    PROVE  PlacesInv'
<1> USE DEF PlacesInv
<1>1. hand[c] # None =>
         /\ hand[c].task \in Requests /\ hand[c].task \in published
         /\ PostReached(hand[c].task, hand[c].pc)
  BY DEF PlaceTypes, OnePlace, Progress
<1>2. \A t \in Requests : /\ stored[t] <= 1 + redelivered[t]
                          /\ pushed[t] <= stored[t] /\ received[t] <= pushed[t]
                          /\ stored[t] \in Nat /\ pushed[t] \in Nat
                          /\ received[t] \in Nat /\ redelivered[t] \in Nat
  BY DEF Progress, DuplicatesOnlyAfterDeath, PlaceTypes
<1>0. PICK t : t = hand[c].task
  OBVIOUS
<1>3. CASE CreateMessage(c)
  <2>1. /\ hand[c] # None /\ hand[c].pc = "store" /\ stored' = [stored EXCEPT ![t] = @ + 1]
        /\ Step(c, "local")
        /\ UNCHANGED <<queue, dead, pushed, received, published, redelivered>>
    BY <1>0, <1>3 DEF CreateMessage, Holding, peering, ghosts
  <2>2. t \in Requests /\ stored[t] <= redelivered[t]
    BY <1>0, <1>1, <2>1 DEF PostReached, Waits
  <2>3. stored' \in [Requests -> Nat] /\ stored'[t] = stored[t] + 1
        /\ \A u \in Requests : u # t => stored'[u] = stored[u]
    BY <2>1, <2>2 DEF PlaceTypes
  <2>4. PostReached(t, "local")'
    BY <1>2, <2>1, <2>2, <2>3 DEF PostReached, Waits
  <2>5. stored'[t] <= 1 + redelivered[t] /\ pushed'[t] <= stored'[t] /\ received'[t] <= pushed'[t]
        /\ stored'[t] > 0 /\ pushed' \in [Requests -> Nat] /\ received' \in [Requests -> Nat]
    BY <1>2, <2>1, <2>2, <2>3 DEF PlaceTypes
  <2> QED BY <1>0, <2>1, <2>2, <2>3, <2>4, <2>5, AdvanceKeepsPlaces
<1>4. CASE DeliverLocally(c)
  <2>1. /\ hand[c] # None /\ hand[c].pc = "local" /\ pushed' = [pushed EXCEPT ![t] = @ + 1]
        /\ Step(c, "peers")
        /\ UNCHANGED <<queue, dead, stored, received, published, redelivered>>
    BY <1>0, <1>4 DEF DeliverLocally, Holding, peering, ghosts
  <2>2. t \in Requests /\ pushed[t] < stored[t] /\ stored[t] > 0
    BY <1>0, <1>1, <2>1 DEF PostReached
  <2>3. pushed' \in [Requests -> Nat] /\ pushed'[t] = pushed[t] + 1
        /\ \A u \in Requests : u # t => pushed'[u] = pushed[u]
    BY <2>1, <2>2 DEF PlaceTypes
  <2>4. PostReached(t, "peers")'
    BY <1>2, <2>1, <2>2, <2>3 DEF PostReached, Waits
  <2>5. stored'[t] <= 1 + redelivered[t] /\ pushed'[t] <= stored'[t] /\ received'[t] <= pushed'[t]
        /\ stored'[t] > 0 /\ stored' \in [Requests -> Nat] /\ received' \in [Requests -> Nat]
    BY <1>2, <2>1, <2>2, <2>3 DEF PlaceTypes
  <2> QED BY <1>0, <2>1, <2>2, <2>3, <2>4, <2>5, AdvanceKeepsPlaces
<1>5. CASE fanOutToPeers(c)
  <2>1. /\ hand[c] # None /\ hand[c].pc = "peers" /\ Step(c, "ack")
        /\ received' = received \/ received' = [received EXCEPT ![t] = @ + 1]
        /\ UNCHANGED <<queue, dead, stored, pushed, published, redelivered>>
    BY <1>0, <1>5 DEF fanOutToPeers, DeliverRemoteMessage, Holding, ghosts
  <2>2. t \in Requests /\ received[t] < pushed[t] /\ stored[t] > 0
    BY <1>0, <1>1, <2>1 DEF PostReached
  <2>3. received' \in [Requests -> Nat] /\ received'[t] <= received[t] + 1
        /\ \A u \in Requests : u # t => received'[u] = received[u]
    BY <2>1, <2>2 DEF PlaceTypes
  <2>4. PostReached(t, "ack")'
    BY <1>2, <2>1, <2>2, <2>3 DEF PostReached, Waits
  <2>5. stored'[t] <= 1 + redelivered[t] /\ pushed'[t] <= stored'[t] /\ received'[t] <= pushed'[t]
        /\ stored'[t] > 0 /\ stored' \in [Requests -> Nat] /\ pushed' \in [Requests -> Nat]
    BY <1>2, <2>1, <2>2, <2>3 DEF PlaceTypes
  <2> QED BY <1>0, <2>1, <2>2, <2>3, <2>4, <2>5, AdvanceKeepsPlaces
<1>6. CASE Nack(c)
  BY <1>6, EndKeepsPlaces DEF Nack, Holding, peering, ghosts
<1>7. CASE Ack(c)
  BY <1>1, <1>7, EndKeepsPlaces DEF Ack, Holding, peering, ghosts, PostReached
<1> QED BY <1>3, <1>4, <1>5, <1>6, <1>7, TakeKeepsPlaces DEF Consume

LEMMA PlacesInductive ==
    ASSUME ChannelPostsAssumption, KeysInv, PlacesInv, [PostsNext]_postVars
    PROVE  PlacesInv'
<1>1. ASSUME NEW r \in Requests, Publish(r) \/ IngestFails(r) PROVE PlacesInv'
  <2>1. /\ UNCHANGED <<dead, hand, stored, pushed, received, redelivered>>
        /\ \/ UNCHANGED <<queue, published>>
           \/ /\ req[r].pc = "publish"
              /\ queue' = Append(queue, r) /\ published' = published \cup {r}
    BY <1>1 DEF Publish, IngestFails, At, peering, ghosts
  <2>2. req[r].pc = "publish" => r \notin published
    BY DEF KeysInv, KeyTypes
  <2> QED BY <2>1, <2>2, EnqueueKeepsPlaces, OtherStepsKeepPlaces
<1>2. ASSUME NEW r \in Requests, NEW k \in IdemKeys \cup {None}, notify(r, k) PROVE PlacesInv'
  BY <1>2, OtherStepsKeepPlaces DEF notify, work, peering, ghosts
<1>3. ASSUME NEW r \in Requests, Seen(r) \/ SeenFails(r) \/ decodeNotify(r) PROVE PlacesInv'
  BY <1>3, OtherStepsKeepPlaces DEF Seen, SeenFails, decodeNotify, work, peering, ghosts
<1>4. ASSUME NEW c \in Channels, ChangeChannel(c) PROVE PlacesInv'
  BY <1>4, OtherStepsKeepPlaces DEF ChangeChannel, work, peering, ghosts
<1>5. ASSUME NEW k \in IdemKeys, KeyExpires(k) PROVE PlacesInv'
  BY <1>5, OtherStepsKeepPlaces DEF KeyExpires, work, peering
<1>6. ASSUME NEW j \in Joiners,
             SubscribeToRemoteChannel(j) \/ ChannelByOriginPublicID(j) \/ CreateMirror(j)
      PROVE  PlacesInv'
  BY <1>6, OtherStepsKeepPlaces
     DEF SubscribeToRemoteChannel, ChannelByOriginPublicID, CreateMirror, work, ghosts
<1>7. CASE UNCHANGED postVars
  BY <1>7, OtherStepsKeepPlaces DEF postVars, work, peering, ghosts
<1> QED
  BY <1>1, <1>2, <1>3, <1>4, <1>5, <1>6, <1>7, ConsumerKeepsPlaces, DeathKeepsPlaces DEF PostsNext

PostsInv == KeysInv /\ PlacesInv

LEMMA PostsInductive ==
    ASSUME ChannelPostsAssumption PROVE PostsInv /\ [PostsNext]_postVars => PostsInv'
BY KeysInductive, PlacesInductive DEF PostsInv

LEMMA PostsStart == PostsInit => PostsInv
<1> SUFFICES ASSUME PostsInit PROVE PlacesInv
  BY KeysStart DEF PostsInv
<1>1. Range(queue) = {} /\ Distinct(queue) /\ queue \in Seq(Requests)
  <2>1. queue = <<>>
    BY DEF PostsInit
  <2> QED BY <2>1 DEF Range, Distinct
<1>2. PlaceTypes
  BY <1>1 DEF PostsInit, PlaceTypes, Zero
<1>3. \A c \in Consumers : hand[c] = None
  BY DEF PostsInit
<1>4. \A t \in Requests : stored[t] = 0 /\ pushed[t] = 0 /\ received[t] = 0 /\ redelivered[t] = 0
  BY DEF PostsInit, Zero
<1>5. OnePlace /\ NothingLost
  BY <1>1, <1>3 DEF PostsInit, OnePlace, NothingLost
<1>6. Progress
  BY <1>1, <1>3, <1>4 DEF Progress, DuplicatesOnlyAfterDeath
<1> QED BY <1>2, <1>5, <1>6 DEF PlacesInv

\* Whatever fails or dies, a post the queue took and a post a caller was told is accepted do not
\* disappear, for any number of requests, consumers and faults.
THEOREM AcceptedIsKept == ASSUME ChannelPostsAssumption PROVE PostsSpec => []NoPostLost
<1>1. PostsInv => NoPostLost
  <2> SUFFICES ASSUME PostsInv PROVE NoPostLost
    OBVIOUS
  <2>1. NothingLost
    BY DEF PostsInv, PlacesInv
  <2>2. ASSUME NEW r \in Requests, req[r].pc = "accepted"
        PROVE  \/ r \in published
               \/ \E t \in Requests : /\ req[t].key = req[r].key /\ req[t].key # None
                                      /\ t \in published \/ req[t].pc \in {"decode", "publish"}
               \/ req[r].key \in spoiled
    BY <2>2 DEF PostsInv, KeysInv, KeyIsOwed, Carried, Passed
  <2> QED BY <2>1, <2>2 DEF NoPostLost, NothingLost
<1> QED BY <1>1, PostsStart, PostsInductive, PTL DEF PostsSpec

\* A post is stored, pushed or relayed a second time only when a consumer died holding it, for
\* any number of requests, consumers and faults.
THEOREM AtMostOncePerDeath == ASSUME ChannelPostsAssumption PROVE PostsSpec => []DuplicatesOnlyAfterDeath
<1>1. PostsInv => DuplicatesOnlyAfterDeath
  BY DEF PostsInv, PlacesInv, Progress
<1> QED BY <1>1, PostsStart, PostsInductive, PTL DEF PostsSpec
===============================================================================
