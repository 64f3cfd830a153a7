------------------------------- MODULE Channels -------------------------------
(***************************************************************************)
(* A channel and the people around it: joining, approval, moderation and   *)
(* leaving (channel/members.go), device subscriptions, API keys, comments, *)
(* and the deletes that take a channel, a message or an account away with  *)
(* everything that hangs off it.  One action per store call; requests run  *)
(* concurrently, and any of them may fail or die between two calls.        *)
(*                                                                         *)
(*   join       upsert -> find -> write                                    *)
(*   moderate   role -> status | remove -> notify    (notify: the devices) *)
(*   leave      remove -> notify                                           *)
(*   key        insertKey         comment   insertComment                  *)
(*   dispatch   deliver           delete    one step per element of todo   *)
(***************************************************************************)
EXTENDS ChannelStore

CONSTANTS Procs,
          GivenRoles,   \* the roles updateMember is asked to give
          Backends,     \* the stores the deployment may be running on
          MaxRequests,  \* bound on the requests ever begun
          MaxFaults     \* bound on failed calls and dead requests

\* What a request is for.
Ops == {"key", "join", "leave", "moderate", "dispatch", "comment",
        "delete channel", "delete message", "delete user"}

ASSUME ChannelsAssumption ==
    /\ Owner \in Users /\ GivenRoles \subseteq Roles /\ Backends \subseteq {"mongo", "memory"}
    /\ MaxRequests \in Nat /\ MaxFaults \in Nat
    /\ None \notin Users \cup Messages \cup Channel \cup ChannelMember \cup Comment
    /\ None \notin Statuses \cup Roles \cup {"live", "revoked"} \cup Ops

VARIABLES backend, db, req, begun, faults,
          admitted,   \* ghost: users who have been active members
          late,       \* ghost: rows written once what they belong to was being deleted
          removed,    \* ghost: messages taken away by DeleteMessage
          disturbed,  \* ghost: users whom two requests were about at once, whose request failed,
                      \* or whose device somebody else named
          lent        \* ghost: <<v, u>> when u has named a device of v's in a request to join

rows == <<db, admitted, late, removed>>
vars == <<backend, rows, req, begun, faults, disturbed, lent>>

Idle == [pc |-> "idle", op |-> None, u |-> None, arg |-> None, role |-> None,
         status |-> None, todo |-> <<>>, ids |-> {}]
At(p, pc) == req[p].pc = pc
Goto(p, pc) == req' = [req EXCEPT ![p].pc = pc]
Finish(p) == req' = [req EXCEPT ![p] = Idle]

\* The users a request is about.
Concerns(r) ==
    CASE r.op = "delete channel" \/ (r.op = "delete user" /\ r.u = Owner) -> Users
      [] r.op \in {"join", "leave", "moderate"} \/ (r.op = "delete user" /\ r.u # Owner) -> {r.u}
      [] OTHER -> {}

\* The owner of a device that the caller of r names and that is not the caller's own.
Lender(r) == {v \in Users : r.op = "join" /\ r.arg = v /\ v # r.u}

Begin(p, r) ==
    /\ At(p, "idle") /\ begun < MaxRequests
    /\ begun' = begun + 1
    /\ req' = [req EXCEPT ![p] = r]
    /\ disturbed' = disturbed \cup
          {u \in Concerns(r) : \E q \in Procs \ {p} : u \in Concerns(req[q])} \cup Lender(r)
    /\ lent' = lent \cup {<<v, r.u>> : v \in Lender(r)}
    /\ UNCHANGED <<backend, faults>>

(***************************************************************************)
(* Who hangs off whom                                                      *)
(***************************************************************************)
Rows(d) ==
    {<<"member", u>> : u \in {x \in Users : d.members[x] # None}}
    \cup {<<"sub", u>> : u \in {x \in Users : d.subs[x] # <<>>}}
    \cup {<<"key", k>> : k \in {x \in Keys : d.keys[x] # None}}
    \cup {<<"message", m>> : m \in d.messages}
    \cup {<<"delivery", m>> : m \in d.deliveries}
    \cup {<<"comment", c>> : c \in {x \in Comments : d.comments[x] # None}}

Gone(d, parent) ==
    CASE parent[1] = "channel" -> d.channel = None
      [] parent[1] = "user" -> parent[2] \notin d.users
      [] parent[1] = "message" -> parent[2] \in removed

BeingDeleted(parent) ==
    \E p \in Procs : /\ req[p].todo # <<>>
                     /\ \/ parent[1] = "channel" /\ {"channels"} \cap UNION {req[p].todo[i] : i \in DOMAIN req[p].todo} # {}
                        \/ parent[1] = "user" /\ req[p].op = "delete user" /\ parent[2] = req[p].u
                        \/ parent[1] = "message" /\ req[p].op = "delete message" /\ parent[2] = req[p].arg

Parents(d, row) ==
    CASE row[1] \in {"member", "sub"} -> {<<"channel", None>>, <<"user", row[2]>>}
      [] row[1] \in {"key", "message"} -> {<<"channel", None>>}
      [] row[1] = "delivery" -> {<<"channel", None>>, <<"message", row[2]>>}
      [] row[1] = "comment" -> {<<"channel", None>>, <<"user", d.comments[row[2]].by>>,
                                <<"message", d.comments[row[2]].on>>}

\* Every write of the database keeps the ghosts.
WriteTaking(d, taken) ==
    /\ db' = d
    /\ admitted' = admitted \cup {u \in Users : d.members[u] # None /\ d.members[u].status = "active"}
    /\ removed' = removed \cup taken
    /\ late' = (late \cap Rows(d)) \cup
          {row \in Rows(d) \ Rows(db) :
              \E x \in Parents(d, row) :
                  Gone(d, x) \/ BeingDeleted(x) \/ (x[1] = "message" /\ x[2] \notin d.messages)}
Write(d) == WriteTaking(d, {})

Init ==
    /\ backend \in Backends
    /\ \E mode \in Modes :
          db = [users |-> Users, channel |-> [mode |-> mode, status |-> "active"],
                members |-> [u \in Users |-> None], subs |-> [u \in Users |-> <<>>],
                keys |-> [k \in Keys |-> None], messages |-> {}, deliveries |-> {},
                comments |-> [c \in Comments |-> None]]
    /\ req = [p \in Procs |-> Idle]
    /\ begun = 0 /\ faults = 0
    /\ admitted = {} /\ late = {} /\ removed = {} /\ disturbed = {} /\ lent = {}

(***************************************************************************)
(* Reads the handlers share                                                *)
(***************************************************************************)
IsActive(u) == db.members[u] # None /\ db.members[u].status = "active"

canAdminister(u) ==
    db.channel # None /\ (u = Owner \/ (IsActive(u) /\ db.members[u].role = "admin"))
Moderated == \E by \in db.users : canAdminister(by)

\* relationFor and canReadChannel: the owner, or an active member.
canReadChannel(u) == db.channel # None /\ (u = Owner \/ IsActive(u))

\* Mutant: a device is activated for a member who is still waiting.
subStatusForEveryone(s) == IF s = "blocked" THEN "blocked" ELSE "active"
subStatusFor(s) == s

(***************************************************************************)
(* The channel itself                                                      *)
(***************************************************************************)
\* updateChannel by the owner, and the administrator's UpdateChannelStatus.  A channel
\* deleted since it was read matches nothing and is not brought back.
updateChannel(c) ==
    /\ db.channel # None /\ c # db.channel /\ begun < MaxRequests
    /\ begun' = begun + 1
    /\ db' = [db EXCEPT !.channel = c]
    /\ UNCHANGED <<backend, req, faults, admitted, late, removed, disturbed, lent>>

\* ownsChannel, then the key.
createKey(p) ==
    /\ db.channel # None
    /\ Begin(p, [Idle EXCEPT !.pc = "insertKey", !.op = "key"])
    /\ UNCHANGED rows

CreateAPIKey(p) ==
    /\ At(p, "insertKey")
    /\ \E k \in Keys : db.keys[k] = None /\ Write([db EXCEPT !.keys[k] = "live"])
    /\ Finish(p)
    /\ UNCHANGED <<backend, begun, faults, disturbed, lent>>

RevokeAPIKey(k) ==
    /\ db.channel # None /\ db.keys[k] = "live"
    /\ Write([db EXCEPT !.keys[k] = "revoked"])
    /\ UNCHANGED <<backend, req, begun, faults, disturbed, lent>>

(***************************************************************************)
(* join: the membership, then the device with the status it came out with. *)
(* joinChannel refuses a disabled channel, subscribe does not look.  A     *)
(* request to join may name no device, or (nobody looks) the device of     *)
(* somebody else: device is its owner.                                     *)
(***************************************************************************)
join(p, u, device, route) ==
    /\ u \in db.users /\ db.channel # None
    /\ route = "join" => db.channel.status # "disabled"
    /\ route = "subscribe" => device # None
    /\ Begin(p, [Idle EXCEPT !.pc = "upsert", !.op = "join", !.u = u, !.arg = device,
                    !.status = IF db.channel.mode = "approval" /\ u # Owner
                               THEN "pending" ELSE "active"])
    /\ UNCHANGED rows

JoinUpsert(p) ==
    LET u == req[p].u
        d == UpsertMember(db, u, [status |-> req[p].status, role |-> "user"])
    IN /\ At(p, "upsert")
       /\ Write(d)
       /\ req' = [req EXCEPT ![p] =
             IF @.arg # None THEN [@ EXCEPT !.pc = "find", !.status = subStatusFor(d.members[u].status)]
             ELSE Idle]
       /\ UNCHANGED <<backend, begun, faults, disturbed, lent>>

Subscribe(p) ==
    /\ At(p, "find")
    /\ IF backend = "memory"
       THEN Write(MemorySubscribe(db, req[p].arg, req[p].status)) /\ Finish(p)
       ELSE /\ Goto(p, IF db.subs[req[p].arg] = <<>> THEN "insertSub" ELSE "updateSub")
            /\ UNCHANGED rows
    /\ UNCHANGED <<backend, begun, faults, disturbed, lent>>

SubscribeWrite(p) ==
    /\ \/ At(p, "updateSub") /\ Write(MongoSubscribeFound(db, req[p].arg, req[p].status))
       \/ At(p, "insertSub") /\ Write(MongoSubscribeInsert(db, req[p].arg, req[p].status))
    /\ Finish(p)
    /\ UNCHANGED <<backend, begun, faults, disturbed, lent>>

\* The device must be the caller's own.
unsubscribe(u) ==
    /\ u \in db.users /\ db.subs[u] # <<>> /\ begun < MaxRequests
    /\ begun' = begun + 1
    /\ Write(Unsubscribe(db, u))
    /\ UNCHANGED <<backend, req, faults, disturbed, lent>>

(***************************************************************************)
(* Moderation: the right to moderate is checked, then the membership is    *)
(* written, then the user's devices follow, and an error in this last call *)
(* is ignored.                                                             *)
(***************************************************************************)
leaveChannel(p, u) ==
    /\ u \in db.users /\ ~(db.channel # None /\ u = Owner)
    /\ Begin(p, [Idle EXCEPT !.pc = "remove", !.op = "leave", !.u = u])
    /\ UNCHANGED rows

approveMember(p, u) ==
    /\ Moderated
    /\ Begin(p, [Idle EXCEPT !.pc = "status", !.op = "moderate", !.u = u, !.status = "active"])
    /\ UNCHANGED rows

\* denyMember does what removeMember does, and may be used on the owner's own row.
denyMember(p, u) ==
    /\ Moderated
    /\ Begin(p, [Idle EXCEPT !.pc = "remove", !.op = "moderate", !.u = u])
    /\ UNCHANGED rows

removeMember(p, u) == u # Owner /\ denyMember(p, u)

updateMember(p, u, role, status) ==
    /\ Moderated /\ u # Owner
    /\ role # None \/ status # None
    /\ Begin(p, [Idle EXCEPT !.pc = IF role # None THEN "role" ELSE "status",
                    !.op = "moderate", !.u = u, !.role = role, !.status = status])
    /\ UNCHANGED rows

\* A member that is not there ends the request before the devices are touched.
MemberRole(p) ==
    /\ At(p, "role")
    /\ IF db.members[req[p].u] = None
       THEN Finish(p) /\ UNCHANGED rows
       ELSE /\ Write(UpdateMemberRole(db, req[p].u, req[p].role))
            /\ IF req[p].status = None THEN Finish(p) ELSE Goto(p, "status")
    /\ UNCHANGED <<backend, begun, faults, disturbed, lent>>

MemberStatus(p) ==
    /\ At(p, "status")
    /\ IF db.members[req[p].u] = None
       THEN Finish(p) /\ UNCHANGED rows
       ELSE Write(UpdateMemberStatus(db, req[p].u, req[p].status)) /\ Goto(p, "notify")
    /\ UNCHANGED <<backend, begun, faults, disturbed, lent>>

\* Mutant: the member goes and the devices stay.
MemberRemoveOnly(p) ==
    /\ At(p, "remove")
    /\ Write(RemoveMember(db, req[p].u)) /\ Finish(p)
    /\ UNCHANGED <<backend, begun, faults, disturbed, lent>>

\* leaveChannel goes on when there was no membership to remove.
MemberRemove(p) ==
    /\ At(p, "remove")
    /\ IF db.members[req[p].u] = None /\ req[p].op = "moderate"
       THEN Finish(p) /\ UNCHANGED rows
       ELSE /\ Write(RemoveMember(db, req[p].u))
            /\ req' = [req EXCEPT ![p].pc = "notify", ![p].status = "blocked"]
    /\ UNCHANGED <<backend, begun, faults, disturbed, lent>>

NotifyDevices(p) ==
    /\ At(p, "notify")
    /\ Write(SetSubscriptionStatusForUser(db, req[p].u, subStatusFor(req[p].status)))
    /\ Finish(p)
    /\ UNCHANGED <<backend, begun, faults, disturbed, lent>>

(***************************************************************************)
(* Messages and comments                                                   *)
(***************************************************************************)
\* The dispatcher stores a queued post without looking at the channel again, then
\* records a delivery for every active device.
CreateMessage(p, m) ==
    /\ m \notin db.messages \cup removed
    /\ Begin(p, [Idle EXCEPT !.pc = "deliver", !.op = "dispatch", !.arg = m])
    /\ Write([db EXCEPT !.messages = @ \cup {m}])

CreateDelivery(p) ==
    /\ At(p, "deliver")
    /\ IF ActiveDevicesForChannel(db) = {} THEN UNCHANGED rows
       ELSE Write([db EXCEPT !.deliveries = @ \cup {req[p].arg}])
    /\ Finish(p)
    /\ UNCHANGED <<backend, begun, faults, disturbed, lent>>

postComment(p, u, m) ==
    /\ u \in db.users /\ canReadChannel(u) /\ m \in db.messages
    /\ Begin(p, [Idle EXCEPT !.pc = "insertComment", !.op = "comment", !.u = u, !.arg = m])
    /\ UNCHANGED rows

CreateComment(p) ==
    /\ At(p, "insertComment")
    /\ \E c \in Comments :
          /\ db.comments[c] = None
          /\ Write([db EXCEPT !.comments[c] = [by |-> req[p].u, on |-> req[p].arg]])
    /\ Finish(p)
    /\ UNCHANGED <<backend, begun, faults, disturbed, lent>>

\* The author, a moderator or an administrator of the site.
DeleteComment(c) ==
    /\ db.comments[c] # None
    /\ Write([db EXCEPT !.comments[c] = None])
    /\ UNCHANGED <<backend, req, begun, faults, disturbed, lent>>

(***************************************************************************)
(* Deletes                                                                 *)
(***************************************************************************)
deleteChannel(p) ==
    /\ db.channel # None
    /\ Begin(p, [Idle EXCEPT !.pc = "delete", !.op = "delete channel", !.ids = db.messages,
                    !.todo = IF backend = "mongo" THEN MongoDeleteChannel ELSE MemoryDeleteChannel])
    /\ UNCHANGED rows

deleteMessage(p, m) ==
    /\ Moderated /\ m \in db.messages
    /\ Begin(p, [Idle EXCEPT !.pc = "delete", !.op = "delete message", !.arg = m,
                    !.todo = IF backend = "mongo" THEN MongoDeleteMessage ELSE MemoryDeleteMessage])
    /\ UNCHANGED rows

deleteUser(p, u) ==
    /\ u \in db.users
    /\ Begin(p, [Idle EXCEPT !.pc = "delete", !.op = "delete user", !.u = u, !.ids = db.messages,
                    !.todo = IF backend = "mongo" THEN MongoDeleteUser(db, u)
                             ELSE MemoryDeleteUser(db, u)])
    /\ UNCHANGED rows

\* A delete that finds its own row gone was overtaken by another, and stops with an error.
DeleteStep(p) ==
    LET tables == Head(req[p].todo)
        overtaken == \/ "channels" \in tables /\ db.channel = None
                     \/ "message" \in tables /\ req[p].arg \notin db.messages
    IN /\ At(p, "delete")
       /\ IF overtaken \/ Len(req[p].todo) = 1 THEN Finish(p)
          ELSE req' = [req EXCEPT ![p].todo = Tail(@)]
       /\ WriteTaking(Without(db, tables, req[p].u, req[p].arg, req[p].ids),
                      {m \in db.messages : "message" \in tables /\ m = req[p].arg})
       /\ UNCHANGED <<backend, begun, faults, disturbed, lent>>

\* The call a request is at fails, or the process dies there.
CallFails(p) ==
    /\ ~At(p, "idle") /\ faults < MaxFaults
    /\ faults' = faults + 1
    /\ disturbed' = disturbed \cup Concerns(req[p])
    /\ Finish(p)
    /\ UNCHANGED <<backend, begun, rows, lent>>

\* The processes free to take a request.
Waiting == {p \in Procs : At(p, "idle") /\ begun < MaxRequests}

Next ==
    \/ \E c \in Channel : updateChannel(c)
    \/ \E k \in Keys : RevokeAPIKey(k)
    \/ \E c \in Comments : DeleteComment(c)
    \/ \E u \in Users : unsubscribe(u)
    \/ \E p \in Waiting :
        \/ createKey(p) \/ deleteChannel(p)
        \/ \E u \in Users :
              \/ \E device \in Users \cup {None}, route \in {"join", "subscribe"} : join(p, u, device, route)
              \/ leaveChannel(p, u) \/ deleteUser(p, u)
              \/ approveMember(p, u) \/ denyMember(p, u) \/ removeMember(p, u)
              \/ \E role \in GivenRoles \cup {None}, status \in Statuses \cup {None} :
                    updateMember(p, u, role, status)
        \/ \E m \in Messages : \/ CreateMessage(p, m) \/ deleteMessage(p, m)
                               \/ \E u \in Users : postComment(p, u, m)
    \/ \E p \in Procs :
        \/ CreateAPIKey(p) \/ JoinUpsert(p) \/ Subscribe(p) \/ SubscribeWrite(p)
        \/ MemberRole(p) \/ MemberStatus(p) \/ MemberRemove(p) \/ NotifyDevices(p)
        \/ CreateDelivery(p) \/ CreateComment(p) \/ DeleteStep(p) \/ CallFails(p)

Spec == Init /\ [][Next]_vars
-----------------------------------------------------------------------------
(* Correctness *)

\* A device is only ever active by way of somebody whom the channel had let in: its owner, or
\* whoever else has named it.  Neither a device registered by a pending member, nor an approval
\* of somebody who is no longer waiting, opens a channel to a user (join and
\* SetSubscriptionStatusForUser in members.go).
NobodyHearsUnadmitted ==
    \A v \in ActiveDevicesForChannel(db) : \E u \in admitted : u = v \/ <<v, u>> \in lent

\* Through any sequence of joins, approvals, blocks, removals and departures that did not
\* overlap and did not fail, the devices of everybody who is not an active member are silent,
\* as long as nobody else named them.
OutsidersHearNothing ==
    \A u \in ActiveDevicesForChannel(db) \ disturbed :
        (\A p \in Procs : u \notin Concerns(req[p])) => IsActive(u)

\* Once a channel, a message or an account is gone, nothing of it is left but what was
\* written while it was being deleted: however often a delete failed half way, the row
\* that lets it be repeated outlives its dependents (DeleteChannel, DeleteMessage, DeleteUser).
NothingOldSurvivesDelete ==
    \A row \in Rows(db) \ late : \A x \in Parents(db, row) : ~Gone(db, x)

\* "so a device has at most one subscription per channel" (Mongo.Subscribe).
OneSubscriptionPerDevice == \A u \in Users : Len(db.subs[u]) <= 1
=============================================================================
