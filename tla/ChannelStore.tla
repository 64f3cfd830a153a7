----------------------------- MODULE ChannelStore -----------------------------
(***************************************************************************)
(* The rows of one channel in the two implementations of store.Store, and  *)
(* the calls that change them.  A database db is a record:                 *)
(*                                                                         *)
(*   users        accounts that exist                                      *)
(*   channel      None, or the channel row                                 *)
(*   members      user -> channelMembers row, or None                      *)
(*   subs         user -> the subscription rows of the user's device       *)
(*   keys         API key -> "live", "revoked" or None                     *)
(*   messages     messages stored                                          *)
(*   deliveries   messages with delivery rows                              *)
(*   comments     comment -> [by, on], or None                             *)
(*                                                                         *)
(* A delete that removes dependents is a sequence of steps, each the set   *)
(* of collections that disappear at once: Mongo takes one collection per   *)
(* call, Memory everything under one lock.                                 *)
(***************************************************************************)
EXTENDS Naturals, Sequences, FiniteSets

CONSTANTS None, Users, Owner, Keys, Messages, Comments

Statuses == {"active", "pending", "blocked"}
Roles == {"user", "admin"}
Modes == {"open", "approval"}

Channel == [mode : Modes, status : {"active", "disabled"}]
ChannelMember == [status : Statuses, role : Roles]
Subscription == Statuses
Comment == [by : Users, on : Messages]

Databases ==
    [users : SUBSET Users, channel : Channel \cup {None},
     members : [Users -> ChannelMember \cup {None}],
     subs : [Users -> UNION {[1 .. n -> Subscription] : n \in 0 .. 2}],
     keys : [Keys -> {"live", "revoked", None}],
     messages : SUBSET Messages, deliveries : SUBSET Messages,
     comments : [Comments -> Comment \cup {None}]]

(***************************************************************************)
(* Membership                                                              *)
(***************************************************************************)

\* One membership per channel and user: a row that exists is kept as it is.  Mongo looks
\* and inserts, and the unique index sends the loser of a race back to the row that won.
UpsertMember(db, u, m) == IF db.members[u] = None THEN [db EXCEPT !.members[u] = m] ELSE db

UpdateMemberStatus(db, u, s) == [db EXCEPT !.members[u].status = s]
UpdateMemberRole(db, u, r) == [db EXCEPT !.members[u].role = r]
RemoveMember(db, u) == [db EXCEPT !.members[u] = None]

(***************************************************************************)
(* Subscriptions.  Mongo looks for the device's row in one call and writes *)
(* in the next; nothing in the database keeps a device to one row.         *)
(***************************************************************************)
MongoSubscribeFound(db, u, s) ==
    IF db.subs[u] = <<>> THEN db ELSE [db EXCEPT !.subs[u][1] = s]
MongoSubscribeInsert(db, u, s) == [db EXCEPT !.subs[u] = Append(@, s)]
MemorySubscribe(db, u, s) ==
    IF db.subs[u] = <<>> THEN MongoSubscribeInsert(db, u, s) ELSE MongoSubscribeFound(db, u, s)

Unsubscribe(db, u) == [db EXCEPT !.subs[u] = IF @ = <<>> THEN @ ELSE Tail(@)]

\* Through the devices the user has at the time.
SetSubscriptionStatusForUser(db, u, s) ==
    IF u \in db.users THEN [db EXCEPT !.subs[u] = [i \in DOMAIN @ |-> s]] ELSE db

ActiveDevicesForChannel(db) ==
    {u \in db.users : \E i \in DOMAIN db.subs[u] : db.subs[u][i] = "active"}

(***************************************************************************)
(* Deletes                                                                 *)
(***************************************************************************)
ChannelTables == {"messages", "subscriptions", "apiKeys", "channelMembers", "comments"}

\* Mutant: the channel's row goes first.
MongoDeleteChannelRowFirst ==
    <<{"channels"}, {"deliveries"}, {"messages"}, {"subscriptions"}, {"apiKeys"},
      {"channelMembers"}, {"comments"}>>

\* The channel's row goes last, so that a delete that failed half way can be repeated.
MongoDeleteChannel ==
    <<{"deliveries"}, {"messages"}, {"subscriptions"}, {"apiKeys"}, {"channelMembers"},
      {"comments"}, {"channels"}>>
MemoryDeleteChannel == <<{"channels", "deliveries"} \cup ChannelTables>>

MongoDeleteMessage == <<{"its comments"}, {"its deliveries"}, {"message"}>>
MemoryDeleteMessage == <<{"message", "its comments", "its deliveries"}>>

\* The channels the user owns first, then what the user left anywhere.
MongoDeleteUser(db, u) ==
    (IF u = Owner /\ db.channel # None THEN MongoDeleteChannel ELSE <<>>)
    \o <<{"user's subscriptions"}, {"user's memberships"}, {"user's comments"}, {"user"}>>
MemoryDeleteUser(db, u) ==
    (IF u = Owner /\ db.channel # None THEN MemoryDeleteChannel ELSE <<>>)
    \o <<{"user's subscriptions", "user's memberships", "user's comments", "user"}>>

\* What is left of db once the given collections are gone.  Mongo finds a channel's
\* deliveries by the ids of the messages it read when the delete began.
Without(db, tables, u, m, ids) ==
    LET Gone(c) == \/ "comments" \in tables
                   \/ "its comments" \in tables /\ db.comments[c].on = m
                   \/ "user's comments" \in tables /\ db.comments[c].by = u
    IN [users |-> IF "user" \in tables THEN db.users \ {u} ELSE db.users,
        channel |-> IF "channels" \in tables THEN None ELSE db.channel,
        members |-> [x \in Users |->
                        IF \/ "channelMembers" \in tables
                           \/ "user's memberships" \in tables /\ x = u
                        THEN None ELSE db.members[x]],
        subs |-> [x \in Users |->
                    IF \/ "subscriptions" \in tables
                       \/ "user's subscriptions" \in tables /\ x = u
                    THEN <<>> ELSE db.subs[x]],
        keys |-> IF "apiKeys" \in tables THEN [k \in Keys |-> None] ELSE db.keys,
        messages |-> IF "messages" \in tables THEN {}
                     ELSE IF "message" \in tables THEN db.messages \ {m} ELSE db.messages,
        deliveries |-> IF "deliveries" \in tables
                       THEN db.deliveries \ (IF "messages" \in tables THEN db.messages ELSE ids)
                       ELSE IF "its deliveries" \in tables THEN db.deliveries \ {m}
                       ELSE db.deliveries,
        comments |-> [c \in Comments |->
                        IF db.comments[c] # None /\ Gone(c) THEN None ELSE db.comments[c]]]
=============================================================================
