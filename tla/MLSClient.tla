------------------------------- MODULE MLSClient -------------------------------
(***************************************************************************)
(* The devices of one conversation and the way each of them gets into the  *)
(* conversation's MLS group and follows it (web/src/lib/mls.ts, above the  *)
(* pheme-mls crate).  The server is the one of MLSGroupLog: Commits are    *)
(* accepted one per epoch, so the position of a Commit in its group's log  *)
(* is the epoch it made.                                                   *)
(*                                                                         *)
(* A group's state is the sequence of Commits that led to it.  A Commit is *)
(* applied only to the state it was built on, never by the member that     *)
(* built it (that one merges it), and never by a device it throws out.     *)
(*                                                                         *)
(* A device runs one settle (ensureGroup) or one admission at a time, and  *)
(* beside it follows the live stream, has at most one GroupInfo on its way *)
(* to the server, and at most one timer watching a ratchet that stopped.   *)
(* The lock (Session.exclusive) is held from the moment a Commit is staged *)
(* until its answer is dealt with.  A request whose device has gone was    *)
(* handled before that, or never is.  Membership does not change, everyone *)
(* may prune (a direct conversation, or admins), nobody is in a call, and  *)
(* every KeyPackage makes the leaf it was published for.                   *)
(***************************************************************************)
EXTENDS Integers, Sequences, FiniteSets

CONSTANTS Devices,         \* every device of every member
          First,           \* those that have published KeyPackages already
          Awake,           \* those that are ever switched on again
          Terminable,      \* those their owner may terminate
          Commits,         \* what a Commit may be
          Groups, NoGroup,
          Attempts,        \* COMMIT_ATTEMPTS, EXTERNAL_JOIN_ATTEMPTS
          Failures,        \* a subset of {"founding", "loss", "reload"}
          Impatient,       \* devices whose wait to be let in may run out
          Publishers       \* devices whose GroupInfo gets to the server

ASSUME ClientAssumption ==
    /\ First \subseteq Devices
    /\ Awake \subseteq Devices
    /\ Terminable \subseteq Devices
    /\ Impatient \subseteq Devices
    /\ Publishers \subseteq Devices
    /\ NoGroup \notin Groups
    /\ Attempts \in Nat
    /\ Failures \subseteq {"founding", "loss", "reload"}

VARIABLES published,   \* the directory: devices with KeyPackages
          revoked,     \* devices that were terminated
          current,     \* the conversation's group on the server
          log,         \* each group's accepted Commits
          made,        \* the Commits that exist
          info,        \* the GroupInfo the server keeps
          held,        \* what each device holds of each group
          pc, seen, job, tries,    \* each device's settle
          waiting, asked,          \* waitingSince; announcements not reacted to
          pub,                     \* the GroupInfo each device is publishing
          wedge                    \* wedgeTimers

vars == <<published, revoked, current, log, made, info, held, pc, seen, job, tries,
          waiting, asked, pub, wedge>>

server == <<published, revoked, current, log, info>>
own    == <<waiting, asked, pub, wedge>>

None    == [state |-> "none", hist |-> << >>, since |-> 0]
Unmade  == [group |-> NoGroup, on |-> << >>, by |-> "nobody", adds |-> {}, drops |-> {}]
NoInfo  == [group |-> NoGroup, epoch |-> 0, on |-> << >>]
NoJob   == [kind |-> "none", group |-> NoGroup, base |-> 0, commit |-> "none", who |-> {},
            on |-> << >>]
Unseen  == [group |-> NoGroup, epoch |-> 0, settling |-> TRUE]
Idle    == [step |-> "off", group |-> NoGroup, epoch |-> 0, on |-> << >>]

Epoch == IF current = NoGroup THEN 0 ELSE Len(log[current])

InLog(c) == \E g \in Groups : \E i \in 1..Len(log[g]) : log[g][i] = c

\* The settle of d is over, with whatever it held in its variables.
Over(d) == /\ pc' = [pc EXCEPT ![d] = "idle"]
           /\ seen' = [seen EXCEPT ![d] = Unseen]
           /\ job' = [job EXCEPT ![d] = NoJob]
           /\ tries' = [tries EXCEPT ![d] = 0]

\* Session.exclusive: somebody on this device is waiting for the server's answer.
Locked(d) == pc[d] \in {"sent", "accepted", "refused", "failed"}

-----------------------------------------------------------------------------
(***************************************************************************)
(* What OpenMLS makes of a device's state.                                 *)
(***************************************************************************)
Holds(d, g) == held[d][g].state # "none"

\* The leaf this device holds the keys of is still in the tree.
Alive(d, s) == \A j \in s.since + 1 .. Len(s.hist) : d \notin made[s.hist[j]].drops

\* merge_pending_commit and encrypt need an active leaf and no external commit pending.
CanRead(d, g) == held[d][g].state \in {"ok", "staged"} /\ Alive(d, held[d][g])

\* member_identities: the founder and whoever was added, if not thrown out since.
LeafAt(h, i, d) == (i = 1 /\ made[h[i]].by = d) \/ d \in made[h[i]].adds
Leaves(h) == {d \in Devices : \E i \in 1..Len(h) :
                /\ LeafAt(h, i, d)
                /\ \A j \in i + 1 .. Len(h) : d \notin made[h[j]].drops}

\* apply_commit of log entry j on top of s: it was built on exactly this state, it
\* is not a member's own, and the leaf has not been thrown out before it.
Applies(d, s, l, j) ==
    /\ made[l[j]].on = s.hist \o SubSeq(l, Len(s.hist) + 1, j - 1)
    /\ made[l[j]].by = d => d \in made[l[j]].drops
    /\ \A i \in s.since + 1 .. j - 1 : d \notin made[l[i]].drops

Reaches(d, s, l, k) == \A j \in Len(s.hist) + 1 .. k : Applies(d, s, l, j)

\* The state after applying all of l that can be applied; a Commit of one's own
\* that is still staged goes when another's is merged.
Followed(d, s, l) ==
    LET n == CHOOSE k \in Len(s.hist)..Len(l) :
               Reaches(d, s, l, k) /\ (k = Len(l) \/ ~Reaches(d, s, l, k + 1))
    IN  IF s.state \notin {"ok", "staged"} \/ n = Len(s.hist) THEN s
        ELSE [s EXCEPT !.hist = SubSeq(l, 1, n), !.state = "ok"]

\* The Welcomes for this device in a group's log; external commits bring none.
Welcomes(d, g) == {e \in 1..Len(log[g]) : made[log[g][e]].by # d /\ d \in made[log[g][e]].adds}

\* tryJoin of the first of them.
Welcomed(d, g) ==
    LET e == CHOOSE n \in Welcomes(d, g) : \A m \in Welcomes(d, g) : n <= m
    IN  IF Holds(d, g) \/ Welcomes(d, g) = {} THEN held[d][g]
        ELSE [state |-> "ok", hist |-> Append(made[log[g][e]].on, log[g][e]), since |-> e]

\* catchUp(g).  The server serves the rows of the group it has now, which need not be
\* g any more, and of every group it ever had if it has none.  A Welcome is for
\* whichever group it names, a Commit is tried on g alone.
CaughtUp(d, g) ==
    LET follow == Followed(d, Welcomed(d, g), log[g]) IN
    CASE current = g \/ (current = NoGroup /\ Holds(d, g)) -> {[held[d] EXCEPT ![g] = follow]}
      [] current \notin {g, NoGroup} /\ Holds(d, g) -> {held[d]}
      [] current = NoGroup /\ ~Holds(d, g) ->
            {[x \in Groups |-> CASE x = g -> follow
                                 [] x \in S -> Welcomed(d, x)
                                 [] OTHER -> held[d][x]] : S \in SUBSET (Groups \ {g})}
      [] OTHER -> {[held[d] EXCEPT ![current] = Welcomed(d, current)]}

Behind(d, h, g, e) == h[g].state # "none" /\ Len(h[g].hist) < e

-----------------------------------------------------------------------------
(***************************************************************************)
(* The directory.                                                          *)
(***************************************************************************)
Publish(d) ==
    /\ d \notin published \cup revoked
    /\ published' = published \cup {d}
    /\ UNCHANGED <<revoked, current, log, made, info, held, pc, seen, job, tries, own>>

\* terminateDevice writes the tombstone first; the KeyPackages and the login go next,
\* if nothing fails.  (terminateOwnDevice tries a prune before; it is one like any other.)
Tombstone(d) ==
    /\ d \in (Terminable \cap published) \ revoked
    /\ revoked' = revoked \cup {d}
    /\ UNCHANGED <<published, current, log, made, info, held, pc, seen, job, tries, own>>

Sever(d) ==
    /\ d \in published \cap revoked
    /\ pc[d] = "idle"
    /\ published' = published \ {d}
    /\ pub' = [pub EXCEPT ![d] = Idle]
    /\ wedge' = [wedge EXCEPT ![d] = "no"]
    /\ asked' = asked \ {d}
    /\ UNCHANGED <<revoked, current, log, made, info, held, pc, seen, job, tries, waiting>>

-----------------------------------------------------------------------------
(***************************************************************************)
(* settleGroup.                                                            *)
(***************************************************************************)
ReadState(d) ==
    /\ \/ pc[d] = "settle"
       \/ pc[d] = "idle" /\ d \in published
    /\ seen' = [seen EXCEPT ![d] = [group |-> current, epoch |-> Epoch, settling |-> TRUE]]
    /\ pc' = [pc EXCEPT ![d] = IF current = NoGroup THEN "establish" ELSE "catchup"]
    /\ UNCHANGED <<server, made, held, job, tries, own>>

\* publishGroupInfo, which nobody waits for; admitAnnouncedDevice does not call it.
StartPublishing(d, g) ==
    pub' = [pub EXCEPT ![d] = IF @.step = "off" /\ seen[d].settling /\ d \in Publishers
                                THEN [Idle EXCEPT !.step = "export", !.group = g]
                                ELSE @]

\* stage_add, stage_remove_devices, join_by_external_commit, each with the persist
\* before the request goes out.
Offer(d, kind, c, rec, base) ==
    /\ made[c] = Unmade
    /\ made' = [made EXCEPT ![c] = rec]
    /\ job' = [job EXCEPT ![d] = [kind |-> kind, group |-> rec.group, base |-> base,
                                  commit |-> c, who |-> {}, on |-> rec.on]]
    /\ pc' = [pc EXCEPT ![d] = "sent"]

Establish(d, g, c) ==
    /\ pc[d] = "establish"
    /\ published \ {d} # {}
    /\ log[g] = << >>
    /\ \A x \in Devices : ~Holds(x, g)
    /\ Offer(d, "establish", c, [group |-> g, on |-> << >>, by |-> d,
                                 adds |-> published \ {d}, drops |-> {}], 0)
    /\ held' = [held EXCEPT ![d][g] = [state |-> "staged", hist |-> << >>, since |-> 0]]
    /\ UNCHANGED <<server, seen, tries, own>>

\* PeerKeysMissingError.
NobodyThere(d) ==
    /\ pc[d] = "establish"
    /\ published \subseteq {d}
    /\ Over(d)
    /\ UNCHANGED <<server, made, held, own>>

CatchUp(d) ==
    LET g == seen[d].group IN
    /\ pc[d] = "catchup"
    /\ \E h \in CaughtUp(d, g) :
         /\ held' = [held EXCEPT ![d] = h]
         /\ pc' = [pc EXCEPT ![d] = IF h[g].state = "none" THEN "join"
                                    ELSE IF Behind(d, h, g, seen[d].epoch) THEN "behind"
                                    ELSE "reconcile"]
         /\ waiting' = IF h[g].state = "none" THEN waiting ELSE waiting \ {d}
    /\ tries' = [tries EXCEPT ![d] = 0]
    /\ UNCHANGED <<server, made, seen, job, asked, pub, wedge>>

\* stillBehind catches up once more, and observeWedge sets the timer.
CheckFollowing(d) ==
    LET g == seen[d].group IN
    /\ pc[d] = "behind"
    /\ \E h \in CaughtUp(d, g) :
         /\ held' = [held EXCEPT ![d] = h]
         /\ wedge' = [wedge EXCEPT ![d] = IF @ = "no" /\ Behind(d, h, g, seen[d].epoch)
                                            THEN "watched" ELSE @]
    /\ pc' = [pc EXCEPT ![d] = "reconcile"]
    /\ UNCHANGED <<server, made, seen, job, tries, waiting, asked, pub>>

-----------------------------------------------------------------------------
(***************************************************************************)
(* tryExternalJoin, and what comes after it failed.                        *)
(***************************************************************************)
\* MLSGroupInfo serves nothing for a retired group or from before this epoch.
Served(g) == info.group = g /\ current = g /\ info.epoch >= Epoch

\* mlsGroupInfo: what the join is built from, once the lock is free.
FetchInfo(d) ==
    LET g == seen[d].group IN
    /\ pc[d] = "join"
    /\ tries[d] < Attempts
    /\ Served(g)
    /\ job' = [job EXCEPT ![d] = [NoJob EXCEPT !.kind = "join", !.group = g,
                                              !.base = info.epoch, !.on = info.on]]
    /\ pc' = [pc EXCEPT ![d] = "fetched"]
    /\ UNCHANGED <<server, made, held, seen, tries, own>>

\* Mutant of ExternalJoin: without the second look at whether we are in.
JoinRegardless(d, c) ==
    LET g == job[d].group IN
    /\ pc[d] = "fetched"
    /\ Offer(d, "join", c, [group |-> g, on |-> job[d].on, by |-> d,
                            adds |-> {d}, drops |-> {d}], job[d].base)
    /\ held' = [held EXCEPT ![d][g] = [state |-> "joining", hist |-> job[d].on,
                                       since |-> Len(job[d].on) + 1]]
    /\ UNCHANGED <<server, seen, tries, own>>

ExternalJoin(d, c) ==
    LET g == job[d].group IN
    /\ pc[d] = "fetched"
    /\ ~Holds(d, g)
    /\ Offer(d, "join", c, [group |-> g, on |-> job[d].on, by |-> d,
                            adds |-> {d}, drops |-> {d}], job[d].base)
    /\ held' = [held EXCEPT ![d][g] = [state |-> "joining", hist |-> job[d].on,
                                       since |-> Len(job[d].on) + 1]]
    /\ UNCHANGED <<server, seen, tries, own>>

\* A Welcome came in on the live stream meanwhile.
AlreadyIn(d) ==
    /\ pc[d] = "fetched"
    /\ Holds(d, seen[d].group)
    /\ waiting' = waiting \ {d}
    /\ StartPublishing(d, seen[d].group)
    /\ Over(d)
    /\ UNCHANGED <<server, made, held, asked, wedge>>

\* announceDevice: every open client hears of it.  The first time starts the clock
\* (stuckFor); later it may have run out.
Announce(d) ==
    /\ pc[d] = "join"
    /\ tries[d] >= Attempts \/ ~Served(seen[d].group)
    /\ asked' = published \cap Awake
    /\ waiting' = waiting \cup {d}
    /\ \/ Over(d)
       \/ /\ d \in waiting \cap Impatient
          /\ pc' = [pc EXCEPT ![d] = "giveup"]
          /\ UNCHANGED <<seen, job, tries>>
    /\ UNCHANGED <<server, made, held, pub, wedge>>

\* ResetMLSGroup names no group, and keeps the log.
GiveUp(d) ==
    /\ pc[d] = "giveup"
    /\ current' = NoGroup
    /\ waiting' = waiting \ {d}
    /\ pc' = [pc EXCEPT ![d] = "settle"]
    /\ UNCHANGED <<published, revoked, log, made, info, held, seen, job, tries, asked, pub, wedge>>

-----------------------------------------------------------------------------
(***************************************************************************)
(* reconcileDevices, from settleGroup or from admitAnnouncedDevice.        *)
(***************************************************************************)
Admit(d) ==
    /\ d \in asked
    /\ pc[d] = "idle"
    /\ asked' = asked \ {d}
    /\ IF current # NoGroup /\ Holds(d, current)
         THEN /\ seen' = [seen EXCEPT ![d] = [group |-> current, epoch |-> Epoch, settling |-> FALSE]]
              /\ tries' = [tries EXCEPT ![d] = 0]
              /\ pc' = [pc EXCEPT ![d] = "reconcile"]
         ELSE UNCHANGED <<seen, tries, pc>>
    /\ UNCHANGED <<server, made, held, job, waiting, pub, wedge>>

Stale(d)   == (Leaves(held[d][seen[d].group].hist) \cap revoked) \ {d}
Missing(d) == (published \ (revoked \cup Leaves(held[d][seen[d].group].hist))) \ {d}

\* staleLeaves before missingDevices, then claimFor: read now, committed later.
Look(d) ==
    LET prune == Stale(d) # {} IN
    /\ pc[d] = "reconcile"
    /\ tries[d] < Attempts
    /\ Stale(d) \cup Missing(d) # {}
    /\ job' = [job EXCEPT ![d] = [NoJob EXCEPT !.kind = IF prune THEN "prune" ELSE "add",
                                               !.who = IF prune THEN Stale(d) ELSE Missing(d)]]
    /\ pc' = [pc EXCEPT ![d] = "stage"]
    /\ UNCHANGED <<server, made, held, seen, tries, own>>

\* Nothing to do, or no attempt left.
Reconciled(d) ==
    /\ pc[d] = "reconcile"
    /\ tries[d] >= Attempts \/ Stale(d) \cup Missing(d) = {}
    /\ Over(d)
    /\ StartPublishing(d, seen[d].group)
    /\ UNCHANGED <<server, made, held, waiting, asked, wedge>>

\* add_members and remove_members refuse beside a pending Commit, without a leaf of
\* one's own, and a device that is in (or, for a removal, when nobody named is).
Stageable(d) ==
    LET g == seen[d].group
        there == Leaves(held[d][g].hist) \cap job[d].who
    IN  /\ held[d][g].state = "ok"
        /\ CanRead(d, g)
        /\ IF job[d].kind = "add" THEN there = {} ELSE there # {}

Stage(d, c) ==
    LET g == seen[d].group
        h == held[d][g].hist
        adding == job[d].kind = "add"
    IN
    /\ pc[d] = "stage"
    /\ Stageable(d)
    /\ Offer(d, job[d].kind, c,
             [group |-> g, on |-> h, by |-> d,
              adds |-> IF adding THEN job[d].who ELSE {},
              drops |-> IF adding THEN {} ELSE job[d].who \cap Leaves(h)], Len(h))
    /\ held' = [held EXCEPT ![d][g].state = "staged"]
    /\ UNCHANGED <<server, seen, tries, own>>

\* The exception ends the reconciliation, and settleGroup catches it.
CannotStage(d) ==
    /\ pc[d] = "stage"
    /\ ~Stageable(d)
    /\ Over(d)
    /\ StartPublishing(d, seen[d].group)
    /\ UNCHANGED <<server, made, held, waiting, asked, wedge>>

-----------------------------------------------------------------------------
(***************************************************************************)
(* postMLSCommit: the epoch inside the Commit against the declared one,    *)
(* then CommitMLSGroup.                                                    *)
(***************************************************************************)
\* Mutant of EpochDeclared: the epoch inside the Commit is not looked at.
AnyEpoch(d) == TRUE

EpochDeclared(d) == job[d].base = Len(made[job[d].commit].on)

Accepts(d) ==
    IF job[d].base = 0 THEN current = NoGroup
                       ELSE current = job[d].group /\ Epoch = job[d].base

Accept(d) ==
    /\ pc[d] = "sent"
    /\ EpochDeclared(d)
    /\ Accepts(d)
    /\ current' = job[d].group
    /\ log' = [log EXCEPT ![job[d].group] = Append(@, job[d].commit)]
    /\ pc' = [pc EXCEPT ![d] = "accepted"]
    /\ UNCHANGED <<published, revoked, info, made, held, seen, job, tries, own>>

\* 409 with the state the group is in, or 400.
Decline(d) ==
    /\ pc[d] = "sent"
    /\ ~(EpochDeclared(d) /\ Accepts(d))
    /\ pc' = [pc EXCEPT ![d] = IF EpochDeclared(d) THEN "refused" ELSE "failed"]
    /\ UNCHANGED <<server, made, held, seen, job, tries, own>>

\* The request, or only its answer, is lost: of the Commit that makes the group
\* ("founding"), or of a later one ("loss").
Lose(d) ==
    /\ (IF job[d].kind = "establish" THEN "founding" ELSE "loss") \in Failures
    /\ pc[d] \in {"sent", "accepted", "refused"}
    /\ pc' = [pc EXCEPT ![d] = "failed"]
    /\ UNCHANGED <<server, made, held, seen, job, tries, own>>

-----------------------------------------------------------------------------
(***************************************************************************)
(* The answer: Session.commit, joinByExternalCommit and their callers.     *)
(***************************************************************************)
\* A Commit that is in no log is nowhere once its builder has dropped it.
Forgotten(c) == [made EXCEPT ![c] = IF InLog(c) THEN @ ELSE Unmade]

\* commitAccepted.  A prune is followed by another look.
Merge(d) ==
    LET g == job[d].group IN
    /\ pc[d] = "accepted"
    /\ held' = [held EXCEPT ![d][g].state = "ok", ![d][g].hist = Append(@, job[d].commit)]
    /\ IF job[d].kind = "prune"
         THEN /\ pc' = [pc EXCEPT ![d] = "reconcile"]
              /\ tries' = [tries EXCEPT ![d] = @ + 1]
              /\ job' = [job EXCEPT ![d] = NoJob]
              /\ UNCHANGED <<seen, pub, waiting>>
         ELSE /\ Over(d)
              /\ waiting' = IF job[d].kind = "join" THEN waiting \ {d} ELSE waiting
              /\ StartPublishing(d, g)
    /\ UNCHANGED <<server, made, asked, wedge>>

\* 409: drop what was built, never apply it, and look again.
\* Mutant of Refused: a refused Commit is merged all the same.
MergeRefused(d) ==
    /\ pc[d] = "refused"
    /\ held' = [held EXCEPT ![d][job[d].group].state = "ok",
                            ![d][job[d].group].hist = Append(@, job[d].commit)]
    /\ Over(d)
    /\ UNCHANGED <<server, made, own>>

Refused(d) ==
    LET g == job[d].group
        next == [establish |-> "settle", join |-> "join", add |-> "again", prune |-> "again"]
    IN
    /\ pc[d] = "refused"
    /\ made' = Forgotten(job[d].commit)
    /\ tries' = [tries EXCEPT ![d] = IF job[d].kind = "establish" THEN 0 ELSE @ + 1]
    /\ held' = [held EXCEPT ![d][g] = IF job[d].kind \in {"establish", "join"}
                                        THEN None ELSE [@ EXCEPT !.state = "ok"]]
    /\ pc' = [pc EXCEPT ![d] = next[job[d].kind]]
    /\ job' = [job EXCEPT ![d] = NoJob]
    /\ UNCHANGED <<server, seen, own>>

CatchUpAgain(d) ==
    /\ pc[d] = "again"
    /\ \E h \in CaughtUp(d, seen[d].group) : held' = [held EXCEPT ![d] = h]
    /\ pc' = [pc EXCEPT ![d] = "reconcile"]
    /\ UNCHANGED <<server, made, seen, job, tries, own>>

\* No answer, or an error: a founder keeps the group it created, a joiner deletes
\* it and announces itself, a reconciliation ends.
\* Mutant of Failed: no answer is taken for a yes.
FailedMerges(d) ==
    /\ pc[d] = "failed"
    /\ held' = [held EXCEPT ![d][job[d].group].state = "ok",
                            ![d][job[d].group].hist = Append(@, job[d].commit)]
    /\ Over(d)
    /\ UNCHANGED <<server, made, own>>

Failed(d) ==
    LET g == job[d].group IN
    /\ pc[d] = "failed"
    /\ made' = Forgotten(job[d].commit)
    /\ IF job[d].kind = "join"
         THEN /\ held' = [held EXCEPT ![d][g] = None]
              /\ tries' = [tries EXCEPT ![d] = Attempts]
              /\ pc' = [pc EXCEPT ![d] = "join"]
              /\ job' = [job EXCEPT ![d] = NoJob]
              /\ UNCHANGED <<seen, pub>>
         ELSE /\ held' = [held EXCEPT ![d][g].state = "ok"]
              /\ Over(d)
              /\ IF job[d].kind = "establish" THEN UNCHANGED pub ELSE StartPublishing(d, g)
    /\ UNCHANGED <<server, waiting, asked, wedge>>

\* The tab is closed or reloaded.  What was persisted stays: the staged Commit, the
\* half-joined group.  Whatever was only in memory goes.
Reload(d) ==
    /\ "reload" \in Failures
    /\ pc[d] # "idle"
    /\ Over(d)
    /\ made' = IF Locked(d) THEN Forgotten(job[d].commit) ELSE made
    /\ waiting' = waiting \ {d}
    /\ asked' = asked \ {d}
    /\ pub' = [pub EXCEPT ![d] = Idle]
    /\ wedge' = [wedge EXCEPT ![d] = "no"]
    /\ UNCHANGED <<server, held>>

-----------------------------------------------------------------------------
(***************************************************************************)
(* Beside the settle: the live stream, GroupInfo, the watched ratchet.     *)
(***************************************************************************)
\* catchUpToLatest, on a Welcome or a Commit arriving.
Live(d) ==
    /\ d \in published
    /\ ~Locked(d)
    /\ current # NoGroup
    /\ Len(held[d][current].hist) < Epoch
    /\ \E h \in CaughtUp(d, current) :
         /\ held' = [held EXCEPT ![d] = h]
         /\ wedge' = [wedge EXCEPT ![d] =
                        IF @ = "no" /\ Behind(d, h, current, Epoch) THEN "watched" ELSE @]
    /\ UNCHANGED <<server, made, pc, seen, job, tries, waiting, asked, pub>>

Export(d) ==
    LET p == pub[d] IN
    /\ p.step = "export"
    /\ ~Locked(d)
    /\ pub' = [pub EXCEPT ![d] = IF CanRead(d, p.group)
                                   THEN [p EXCEPT !.step = "label", !.on = held[d][p.group].hist]
                                   ELSE Idle]
    /\ UNCHANGED <<server, made, held, pc, seen, job, tries, waiting, asked, wedge>>

\* The epoch is read after the export, once the lock is free again.
Label(d) ==
    /\ pub[d].step = "label"
    /\ ~Locked(d)
    /\ pub' = [pub EXCEPT ![d].step = "check", ![d].epoch = Len(held[d][pub[d].group].hist)]
    /\ UNCHANGED <<server, made, held, pc, seen, job, tries, waiting, asked, wedge>>

\* SetMLSGroupInfo reads, then writes.
CheckInfo(d) ==
    LET p == pub[d] IN
    /\ p.step = "check"
    /\ pub' = [pub EXCEPT ![d] =
                 IF p.group = current /\ ~(info.group = p.group /\ info.epoch >= p.epoch)
                   THEN [p EXCEPT !.step = "write"] ELSE Idle]
    /\ UNCHANGED <<server, made, held, pc, seen, job, tries, waiting, asked, wedge>>

WriteInfo(d) ==
    /\ pub[d].step = "write"
    /\ info' = [group |-> pub[d].group, epoch |-> pub[d].epoch, on |-> pub[d].on]
    /\ pub' = [pub EXCEPT ![d] = Idle]
    /\ UNCHANGED <<published, revoked, current, log, made, held, pc, seen, job, tries,
                   waiting, asked, wedge>>

\* The timer of observeWedge.
Recheck(d) ==
    /\ wedge[d] = "watched"
    /\ ~Locked(d)
    /\ IF current = NoGroup
         THEN wedge' = [wedge EXCEPT ![d] = "no"] /\ UNCHANGED held
         ELSE \E h \in CaughtUp(d, current) :
                /\ held' = [held EXCEPT ![d] = h]
                /\ wedge' = [wedge EXCEPT ![d] =
                               IF Behind(d, h, current, Epoch) THEN "confirmed" ELSE "no"]
    /\ UNCHANGED <<server, made, pc, seen, job, tries, waiting, asked, pub>>

\* mlsResetGroup, then ensureGroup, which joins the settle that is running if one is.
Retire(d) ==
    /\ wedge[d] = "confirmed"
    /\ current' = NoGroup
    /\ wedge' = [wedge EXCEPT ![d] = "no"]
    /\ pc' = [pc EXCEPT ![d] = IF @ = "idle" THEN "settle" ELSE @]
    /\ UNCHANGED <<published, revoked, log, info, made, held, seen, job, tries, waiting, asked, pub>>

-----------------------------------------------------------------------------

Init ==
    /\ published = First
    /\ revoked = {}
    /\ current = NoGroup
    /\ log = [g \in Groups |-> << >>]
    /\ made = [c \in Commits |-> Unmade]
    /\ info = NoInfo
    /\ held = [d \in Devices |-> [g \in Groups |-> None]]
    /\ pc = [d \in Devices |-> "idle"]
    /\ seen = [d \in Devices |-> Unseen]
    /\ job = [d \in Devices |-> NoJob]
    /\ tries = [d \in Devices |-> 0]
    /\ waiting = {}
    /\ asked = {}
    /\ pub = [d \in Devices |-> Idle]
    /\ wedge = [d \in Devices |-> "no"]

\* What the settle, or the admission, of one device does next.
Settle(d) ==
    \/ ReadState(d) \/ NobodyThere(d) \/ CatchUp(d) \/ CheckFollowing(d)
    \/ FetchInfo(d) \/ AlreadyIn(d) \/ Announce(d) \/ GiveUp(d) \/ Admit(d) \/ Look(d) \/ Reconciled(d)
    \/ CannotStage(d)
    \/ Accept(d) \/ Decline(d) \/ Merge(d) \/ Refused(d) \/ CatchUpAgain(d) \/ Failed(d)
    \/ \E c \in Commits :
         \/ ExternalJoin(d, c)
         \/ Stage(d, c)
         \/ \E g \in Groups : Establish(d, g, c)

Beside(d) ==
    \/ Live(d) \/ Export(d) \/ Label(d) \/ CheckInfo(d) \/ WriteInfo(d)
    \/ Recheck(d) \/ Retire(d)

Happens(d) == Publish(d) \/ Tombstone(d) \/ Sever(d) \/ Lose(d) \/ Reload(d)

Next == \/ \E d \in Awake : Settle(d) \/ Beside(d)
        \/ \E d \in Devices : Happens(d)

Spec == Init /\ [][Next]_vars

-----------------------------------------------------------------------------
(***************************************************************************)
(* What must hold.                                                         *)
(***************************************************************************)
States == [state : {"none", "ok", "staged", "joining"}, hist : Seq(Commits), since : Nat]

\* Every variable has its shape; a group the server has now has a Commit in its
\* log; a settle that is over left nothing behind; a Commit that is being offered
\* was built by the device that offers it.
TypeOK ==
    /\ published \cup revoked \cup waiting \cup asked \subseteq Devices
    /\ current \in Groups \cup {NoGroup}
    /\ log \in [Groups -> Seq(Commits)]
    /\ current # NoGroup => log[current] # << >>
    /\ DOMAIN made = Commits
    /\ \A c \in Commits : InLog(c) => made[c].by \in Devices
    /\ held \in [Devices -> [Groups -> States]]
    /\ \A d \in Devices :
         /\ pc[d] \in {"idle", "settle", "establish", "catchup", "behind", "join", "fetched",
                       "giveup", "reconcile", "stage", "sent", "accepted", "refused", "failed", "again"}
         /\ pc[d] = "idle" => seen[d] = Unseen /\ job[d] = NoJob
         /\ Locked(d) => job[d].commit \in Commits /\ made[job[d].commit].by = d
         /\ tries[d] \in 0..Attempts
         /\ pub[d].step \in {"off", "export", "label", "check", "write"}
         /\ wedge[d] \in {"no", "watched", "confirmed"}

History(g, h) == Len(h) <= Len(log[g]) /\ h = SubSeq(log[g], 1, Len(h))

\* Every Commit the server accepted was built on the one accepted before it, so a
\* member that has applied the one can apply the other (postMLSCommit).
LogApplies ==
    \A g \in Groups : \A i \in 1..Len(log[g]) : made[log[g][i]].on = SubSeq(log[g], 1, i - 1)

\* No device forks: whatever it staged, lost, joined or was welcomed to, the state
\* it holds is one the group was in (Session.commit, joinByExternalCommit, catchUp).
NoFork ==
    \A d \in Devices, g \in Groups : History(g, held[d][g].hist)

\* A device that holds the group and is not behind the server is where the server
\* is, with a leaf of its own: being behind is the one sign of trouble the client
\* looks for (stillBehind, catchUpToLatest).
UnreadableIsNoticed ==
    \A d \in published \ revoked :
        /\ current # NoGroup /\ Holds(d, current) /\ ~Locked(d)
        /\ Len(held[d][current].hist) >= Epoch
        => held[d][current].hist = log[current] /\ CanRead(d, current)

\* Nothing takes a group away from a device that is in it.
KeysKept ==
    [][\A d \in Devices, g \in Groups :
         held[d][g].state \in {"ok", "staged"} /\ held[d][g].hist # << >> =>
             /\ held'[d][g].state \in {"ok", "staged"}
             /\ \E n \in 0..Len(held'[d][g].hist) : held[d][g].hist = SubSeq(held'[d][g].hist, 1, n)]_vars
=============================================================================
