---------------------------- MODULE ChannelsProofs ----------------------------
(***************************************************************************)
(* Proofs about a channel and the people around it, for any number of      *)
(* users, messages and concurrent requests, either store, and whatever     *)
(* call fails: no device hears a channel that let in neither its user nor  *)
(* whoever named it; the devices of who is out are silent unless requests  *)
(* overlapped or failed or somebody else named them; and what is deleted   *)
(* leaves nothing behind that was there before.                            *)
(***************************************************************************)
EXTENDS Channels, SequenceTheorems, TLAPS

(***************************************************************************)
(* Types.  A request is at a call that goes with its operation.            *)
(***************************************************************************)
Devices == {"find", "insertSub", "updateSub"}
Opening == {"find", "insertSub", "updateSub", "notify"}
About == {"upsert", "role", "status", "remove"} \cup Opening
Pcs == {"idle", "insertKey", "deliver", "insertComment", "delete"} \cup About
Tables == ChannelTables \cup
    {"channels", "deliveries", "its comments", "its deliveries", "message",
     "user's subscriptions", "user's memberships", "user's comments", "user"}

MemberTable == [Users -> ChannelMember \cup {None}]
SubTable == [Users -> Seq(Subscription)]
KeyTable == [Keys -> {"live", "revoked", None}]
CommentTable == [Comments -> Comment \cup {None}]
Database ==
    [users : SUBSET Users, channel : Channel \cup {None}, members : MemberTable, subs : SubTable,
     keys : KeyTable, messages : SUBSET Messages, deliveries : SUBSET Messages,
     comments : CommentTable]

Request ==
    [pc : Pcs, op : Ops \cup {None}, u : Users \cup {None}, arg : Users \cup Messages \cup {None},
     role : Roles \cup {None}, status : Statuses \cup {None}, todo : Seq(SUBSET Tables),
     ids : SUBSET Messages]

\* What the tables of a delete may be, by what it deletes.
Only(s, T) == s \in Seq(SUBSET T) /\ s # <<>>
ChannelsOwn == ChannelTables \cup {"channels", "deliveries"}
MessagesOwn == {"message", "its comments", "its deliveries"}
UsersOwn == {"user's subscriptions", "user's memberships", "user's comments", "user"}
Scoped(r) ==
    \/ r.op = "delete channel" /\ Only(r.todo, ChannelsOwn)
    \/ r.op = "delete message" /\ Only(r.todo, MessagesOwn) /\ r.arg \in Messages
    \/ r.op = "delete user" /\ r.u \in Users
       /\ Only(r.todo, IF r.u = Owner THEN ChannelsOwn \cup UsersOwn ELSE UsersOwn)

Placed(r) ==
    /\ r.pc = "idle" => r = Idle
    /\ r.pc \in About => r.u \in Users /\ r.op \in {"join", "leave", "moderate"}
    /\ r.pc \in Opening \cup {"upsert", "status"} => r.status \in Statuses
    /\ r.pc \in Devices \cup {"upsert"} => r.op = "join" /\ r.arg \in Users \cup {None}
    /\ r.pc \in Devices => r.arg \in Users
    /\ r.pc = "role" => r.role \in Roles
    /\ r.pc = "deliver" => r.arg \in Messages /\ r.op = "dispatch"
    /\ r.pc = "insertComment" => r.u \in Users /\ r.arg \in Messages /\ r.op = "comment"
    /\ r.pc = "delete" => Scoped(r)
    /\ r.pc # "delete" => r.todo = <<>>

RequestTypes == req \in [Procs -> Request] /\ \A p \in Procs : Placed(req[p])
Types == db \in Database /\ RequestTypes

LEMMA IdlePlaced == Idle \in Request /\ Placed(Idle)
BY DEF Idle, Request, Placed, Pcs, About, Opening, Devices

\* What one table of e is, the other tables are those of d.
Except(d, e, t) ==
    /\ t # "members" => e.members = d.members
    /\ t # "subs" => e.subs = d.subs
    /\ t # "keys" => e.keys = d.keys
    /\ t # "messages" => e.messages = d.messages
    /\ t # "deliveries" => e.deliveries = d.deliveries
    /\ t # "comments" => e.comments = d.comments
    /\ t # "channel" => e.channel = d.channel
    /\ e.users = d.users

LEMMA FieldWrites ==
    ASSUME NEW d \in Database
    PROVE  /\ \A f \in MemberTable : LET e == [d EXCEPT !.members = f] IN
                  e \in Database /\ e.members = f /\ Except(d, e, "members")
           /\ \A f \in SubTable : LET e == [d EXCEPT !.subs = f] IN
                  e \in Database /\ e.subs = f /\ Except(d, e, "subs")
           /\ \A f \in KeyTable : LET e == [d EXCEPT !.keys = f] IN
                  e \in Database /\ e.keys = f /\ Except(d, e, "keys")
           /\ \A f \in CommentTable : LET e == [d EXCEPT !.comments = f] IN
                  e \in Database /\ e.comments = f /\ Except(d, e, "comments")
           /\ \A s \in SUBSET Messages : LET e == [d EXCEPT !.messages = s] IN
                  e \in Database /\ e.messages = s /\ Except(d, e, "messages")
           /\ \A s \in SUBSET Messages : LET e == [d EXCEPT !.deliveries = s] IN
                  e \in Database /\ e.deliveries = s /\ Except(d, e, "deliveries")
           /\ \A c \in Channel : LET e == [d EXCEPT !.channel = c] IN
                  e \in Database /\ e.channel = c /\ Except(d, e, "channel")
BY DEF Database, Except

\* The members' table, written by one of its calls.
LEMMA MemberWrites ==
    ASSUME NEW d \in Database, NEW u \in Users, NEW m \in ChannelMember, NEW e,
           e = UpsertMember(d, u, m)
    PROVE  /\ e \in Database /\ Except(d, e, "members")
           /\ \A x \in Users : e.members[x] = IF x = u /\ d.members[u] = None THEN m ELSE d.members[x]
<1>1. d.members \in MemberTable
  BY DEF Database
<1>2. CASE d.members[u] = None
  <2>1. PICK f \in MemberTable : f = [d.members EXCEPT ![u] = m]
    BY <1>1 DEF MemberTable
  <2>2. e = [d EXCEPT !.members = f]
    BY <1>2, <2>1 DEF UpsertMember
  <2>3. \A x \in Users : f[x] = IF x = u THEN m ELSE d.members[x]
    BY <1>1, <2>1 DEF MemberTable
  <2> QED BY <1>2, <2>2, <2>3, FieldWrites
<1>3. CASE d.members[u] # None
  BY <1>3 DEF UpsertMember, Except
<1> QED BY <1>2, <1>3

LEMMA RowWrites ==
    ASSUME NEW d \in Database, NEW u \in Users, d.members[u] # None, NEW s \in Statuses, NEW r \in Roles
    PROVE  /\ LET e == UpdateMemberStatus(d, u, s) IN
                /\ e \in Database /\ Except(d, e, "members")
                /\ \A x \in Users : x # u => e.members[x] = d.members[x]
                /\ e.members[u] # None /\ e.members[u].status = s
           /\ LET e == UpdateMemberRole(d, u, r) IN
                /\ e \in Database /\ Except(d, e, "members")
                /\ \A x \in Users : x # u => e.members[x] = d.members[x]
                /\ e.members[u] # None /\ e.members[u].status = d.members[u].status
<1>1. d.members \in MemberTable /\ d.members[u] \in ChannelMember
  BY DEF Database, MemberTable
<1>2. PICK a \in Statuses, b \in Roles : d.members[u] = [status |-> a, role |-> b]
  BY <1>1 DEF ChannelMember
<1>3. PICK f \in MemberTable : f = [d.members EXCEPT ![u] = [status |-> s, role |-> b]]
  BY <1>1 DEF MemberTable, ChannelMember
<1>4. PICK g \in MemberTable : g = [d.members EXCEPT ![u] = [status |-> a, role |-> r]]
  BY <1>1 DEF MemberTable, ChannelMember
<1>5. UpdateMemberStatus(d, u, s) = [d EXCEPT !.members = f]
  BY <1>2, <1>3 DEF UpdateMemberStatus
<1>6. UpdateMemberRole(d, u, r) = [d EXCEPT !.members = g]
  BY <1>2, <1>4 DEF UpdateMemberRole
<1>7. f[u] = [status |-> s, role |-> b] /\ \A x \in Users : x # u => f[x] = d.members[x]
  BY <1>1, <1>3 DEF MemberTable
<1>8. g[u] = [status |-> a, role |-> r] /\ \A x \in Users : x # u => g[x] = d.members[x]
  BY <1>1, <1>4 DEF MemberTable
<1>9. [status |-> s, role |-> b] # None /\ [status |-> a, role |-> r] # None
  BY ChannelsAssumption DEF ChannelMember
<1> QED BY <1>2, <1>5, <1>6, <1>7, <1>8, <1>9, FieldWrites

LEMMA MemberGoes ==
    ASSUME NEW d \in Database, NEW u \in Users, NEW e, e = RemoveMember(d, u)
    PROVE  /\ e \in Database /\ Except(d, e, "members")
           /\ \A x \in Users : e.members[x] = IF x = u THEN None ELSE d.members[x]
<1>1. d.members \in MemberTable
  BY DEF Database
<1>2. PICK f \in MemberTable : f = [d.members EXCEPT ![u] = None]
  BY <1>1 DEF MemberTable
<1>3. e = [d EXCEPT !.members = f]
  BY <1>2 DEF RemoveMember
<1>4. \A x \in Users : f[x] = IF x = u THEN None ELSE d.members[x]
  BY <1>1, <1>2 DEF MemberTable
<1> QED BY <1>3, <1>4, FieldWrites

\* The subscriptions' table.  A device is heard of when one of its rows is active.
Sounds(s) == \E i \in DOMAIN s : s[i] = "active"
Hears(u) == Sounds(db.subs[u])

LEMMA RowSounds ==
    ASSUME NEW s \in Seq(Subscription), NEW a \in Statuses
    PROVE  /\ Append(s, a) \in Seq(Subscription)
           /\ Sounds(Append(s, a)) => a = "active" \/ Sounds(s)
           /\ s # <<>> => /\ [s EXCEPT ![1] = a] \in Seq(Subscription)
                          /\ Sounds([s EXCEPT ![1] = a]) => a = "active" \/ Sounds(s)
                          /\ Tail(s) \in Seq(Subscription)
                          /\ Sounds(Tail(s)) => Sounds(s)
           /\ [i \in DOMAIN s |-> a] \in Seq(Subscription)
           /\ Sounds([i \in DOMAIN s |-> a]) => a = "active"
<1> USE DEF Subscription
<1>1. Append(s, a) \in Seq(Subscription) /\ DOMAIN Append(s, a) = 1 .. (Len(s) + 1)
      /\ \A i \in 1 .. Len(s) + 1 : Append(s, a)[i] = IF i = Len(s) + 1 THEN a ELSE s[i]
  OBVIOUS
<1>2. DOMAIN s = 1 .. Len(s) /\ Len(s) \in Nat
  OBVIOUS
<1>3. Sounds(Append(s, a)) => a = "active" \/ Sounds(s)
  BY <1>1, <1>2 DEF Sounds
<1>4. ASSUME s # <<>>
      PROVE  /\ [s EXCEPT ![1] = a] \in Seq(Subscription)
             /\ Sounds([s EXCEPT ![1] = a]) => a = "active" \/ Sounds(s)
             /\ Tail(s) \in Seq(Subscription)
             /\ Sounds(Tail(s)) => Sounds(s)
  <2>1. [s EXCEPT ![1] = a] \in Seq(Subscription)
    BY <1>2, <1>4
  <2>2. Sounds([s EXCEPT ![1] = a]) => a = "active" \/ Sounds(s)
    BY <1>2, <1>4 DEF Sounds
  <2>3. Tail(s) \in Seq(Subscription) /\ DOMAIN Tail(s) = 1 .. Len(s) - 1
        /\ \A i \in 1 .. Len(s) - 1 : Tail(s)[i] = s[i + 1]
    BY <1>4, <1>2
  <2>4. Sounds(Tail(s)) => Sounds(s)
    <3> SUFFICES ASSUME NEW i \in 1 .. Len(s) - 1, Tail(s)[i] = "active" PROVE Sounds(s)
      BY <2>3 DEF Sounds
    <3>1. i + 1 \in DOMAIN s /\ s[i + 1] = "active"
      BY <2>3, <1>2
    <3> QED BY <3>1 DEF Sounds
  <2> QED BY <2>1, <2>2, <2>3, <2>4
<1>5. [i \in DOMAIN s |-> a] \in Seq(Subscription)
  <2>1. [i \in 1 .. Len(s) |-> a] \in Seq(Subscription)
    BY <1>2
  <2> QED BY <2>1, <1>2
<1>6. Sounds([i \in DOMAIN s |-> a]) => a = "active"
  BY DEF Sounds
<1> QED BY <1>1, <1>3, <1>4, <1>5, <1>6

\* The rows of one user's device are written.
Rewrites(d, e, u) ==
    /\ e \in Database /\ Except(d, e, "subs")
    /\ \A x \in Users : x # u => e.subs[x] = d.subs[x]

LEMMA SubWrite ==
    ASSUME NEW d \in Database, NEW u \in Users, NEW s \in Seq(Subscription)
    PROVE  /\ Rewrites(d, [d EXCEPT !.subs[u] = s], u)
           /\ [d EXCEPT !.subs[u] = s].subs[u] = s
<1>1. d.subs \in SubTable
  BY DEF Database
<1>2. PICK f \in SubTable : f = [d.subs EXCEPT ![u] = s]
  BY <1>1 DEF SubTable
<1>3. [d EXCEPT !.subs[u] = s] = [d EXCEPT !.subs = f]
  BY <1>2
<1>4. f[u] = s /\ \A x \in Users : x # u => f[x] = d.subs[x]
  BY <1>1, <1>2 DEF SubTable
<1>5. PICK e : e = [d EXCEPT !.subs = f]
  OBVIOUS
<1>6. e \in Database /\ e.subs = f /\ Except(d, e, "subs")
  BY <1>5, FieldWrites
<1>7. [d EXCEPT !.subs[u] = s] = e
  BY <1>3, <1>5
<1>8. Rewrites(d, e, u) /\ e.subs[u] = s
  BY <1>4, <1>6 DEF Rewrites
<1> QED BY <1>7, <1>8

\* Whatever a call writes, a row is active because it was or because the call says so.
LEMMA SubWrites ==
    ASSUME NEW d \in Database, NEW u \in Users, NEW a \in Statuses, NEW e,
           \/ e = MongoSubscribeFound(d, u, a) \/ e = MongoSubscribeInsert(d, u, a)
           \/ e = MemorySubscribe(d, u, a)
    PROVE  /\ Rewrites(d, e, u)
           /\ Sounds(e.subs[u]) => a = "active" \/ Sounds(d.subs[u])
<1>1. d.subs \in SubTable /\ d.subs[u] \in Seq(Subscription)
  BY DEF Database, SubTable
<1>2. PICK s \in Seq(Subscription) : s = d.subs[u]
  BY <1>1
<1>3. Rewrites(d, d, u)
  BY DEF Rewrites, Except
<1>4. MemorySubscribe(d, u, a) \in {MongoSubscribeFound(d, u, a), MongoSubscribeInsert(d, u, a)}
  BY DEF MemorySubscribe
<1>5. CASE e = MongoSubscribeInsert(d, u, a)
  <2>1. PICK t \in Seq(Subscription) : t = Append(s, a) /\ (Sounds(t) => a = "active" \/ Sounds(s))
    BY RowSounds
  <2>2. e = [d EXCEPT !.subs[u] = t]
    BY <1>2, <1>5, <2>1 DEF MongoSubscribeInsert
  <2>3. Rewrites(d, e, u) /\ e.subs[u] = t
    BY <2>2, SubWrite
  <2> QED BY <1>2, <2>1, <2>3
<1>6. CASE e = MongoSubscribeFound(d, u, a) /\ s # <<>>
  <2>1. PICK t \in Seq(Subscription) : t = [s EXCEPT ![1] = a] /\ (Sounds(t) => a = "active" \/ Sounds(s))
    BY <1>6, RowSounds
  <2>2. e = [d EXCEPT !.subs[u] = t]
    BY <1>2, <1>6, <2>1 DEF MongoSubscribeFound
  <2>3. Rewrites(d, e, u) /\ e.subs[u] = t
    BY <2>2, SubWrite
  <2> QED BY <1>2, <2>1, <2>3
<1>7. CASE e = MongoSubscribeFound(d, u, a) /\ s = <<>>
  <2>1. e = d
    BY <1>2, <1>7 DEF MongoSubscribeFound
  <2> QED BY <2>1, <1>3
<1> QED BY <1>4, <1>5, <1>6, <1>7

LEMMA NotifyWrites ==
    ASSUME NEW d \in Database, NEW u \in Users, NEW a \in Statuses, NEW e,
           e = SetSubscriptionStatusForUser(d, u, a)
    PROVE  /\ Rewrites(d, e, u)
           /\ Sounds(e.subs[u]) => a = "active" \/ Sounds(d.subs[u])
           /\ u \in d.users /\ Sounds(e.subs[u]) => a = "active"
<1>1. d.subs \in SubTable /\ d.subs[u] \in Seq(Subscription)
  BY DEF Database, SubTable
<1>2. PICK s \in Seq(Subscription) : s = d.subs[u]
  BY <1>1
<1>3. CASE u \in d.users
  <2>1. PICK t \in Seq(Subscription) : t = [i \in DOMAIN s |-> a] /\ (Sounds(t) => a = "active")
    BY RowSounds
  <2>2. e = [d EXCEPT !.subs[u] = t]
    BY <1>2, <1>3, <2>1 DEF SetSubscriptionStatusForUser
  <2>3. Rewrites(d, e, u) /\ e.subs[u] = t
    BY <2>2, SubWrite
  <2> QED BY <2>1, <2>3
<1>4. CASE u \notin d.users
  BY <1>4 DEF SetSubscriptionStatusForUser, Rewrites, Except
<1> QED BY <1>3, <1>4

LEMMA UnsubscribeWrites ==
    ASSUME NEW d \in Database, NEW u \in Users, NEW e, e = Unsubscribe(d, u)
    PROVE  Rewrites(d, e, u) /\ (Sounds(e.subs[u]) => Sounds(d.subs[u]))
<1>1. d.subs \in SubTable /\ d.subs[u] \in Seq(Subscription)
  BY DEF Database, SubTable
<1>2. PICK s \in Seq(Subscription) : s = d.subs[u]
  BY <1>1
<1>3. PICK t \in Seq(Subscription) : /\ t = IF s = <<>> THEN s ELSE Tail(s)
                                     /\ Sounds(t) => Sounds(s)
  <2>1. CASE s = <<>>
    BY <2>1
  <2>2. CASE s # <<>>
    <3>1. "active" \in Statuses
      BY DEF Statuses
    <3> QED BY <2>2, <3>1, RowSounds
  <2> QED BY <2>1, <2>2
<1>4. e = [d EXCEPT !.subs[u] = t]
  BY <1>2, <1>3 DEF Unsubscribe
<1>5. Rewrites(d, e, u) /\ e.subs[u] = t
  BY <1>4, SubWrite
<1> QED BY <1>2, <1>3, <1>5

\* The rows that go with the given tables.
MemberGone(tables, u, x) == "channelMembers" \in tables \/ ("user's memberships" \in tables /\ x = u)
SubGone(tables, u, x) == "subscriptions" \in tables \/ ("user's subscriptions" \in tables /\ x = u)

LEMMA TablesGo ==
    ASSUME NEW d \in Database, NEW tables, NEW u, NEW m, NEW ids, NEW e,
           e = Without(d, tables, u, m, ids)
    PROVE  /\ e \in Database /\ e.users \subseteq d.users
           /\ \A x \in Users : /\ MemberGone(tables, u, x) => e.members[x] = None
                               /\ ~MemberGone(tables, u, x) => e.members[x] = d.members[x]
                               /\ SubGone(tables, u, x) => e.subs[x] = <<>>
                               /\ ~SubGone(tables, u, x) => e.subs[x] = d.subs[x]
<1> DEFINE mem == [x \in Users |-> IF MemberGone(tables, u, x) THEN None ELSE d.members[x]]
           sub == [x \in Users |-> IF SubGone(tables, u, x) THEN <<>> ELSE d.subs[x]]
<1>1. mem \in MemberTable
  BY DEF Database, MemberTable
<1>2. sub \in SubTable
  <2>1. <<>> \in Seq(Subscription)
    OBVIOUS
  <2> QED BY <2>1 DEF Database, SubTable
<1>3. e.members = mem /\ e.subs = sub
  BY DEF Without, MemberGone, SubGone
<1>4. /\ e.users \subseteq d.users /\ e.users \in SUBSET Users
      /\ e.channel \in Channel \cup {None}
      /\ e.messages \in SUBSET Messages /\ e.deliveries \in SUBSET Messages
      /\ e.keys \in KeyTable
  BY DEF Without, Database, KeyTable
<1>5. e.comments \in CommentTable
  BY DEF Without, Database, CommentTable
<1>6. e = [users |-> e.users, channel |-> e.channel, members |-> e.members, subs |-> e.subs,
           keys |-> e.keys, messages |-> e.messages, deliveries |-> e.deliveries,
           comments |-> e.comments]
  BY DEF Without
<1>7. e \in Database
  BY <1>1, <1>2, <1>3, <1>4, <1>5, <1>6 DEF Database
<1> QED BY <1>3, <1>4, <1>7

(***************************************************************************)
(* The sequences of tables that a delete takes away                        *)
(***************************************************************************)
\* A table b goes no earlier than a table a; after the messages goes the channel.
Before(s, a, b) == \A i \in 1 .. Len(s) : b \in s[i] => \E j \in 1 .. i : a \in s[j]
ChannelFollows(s) ==
    \A i \in 1 .. Len(s) : "messages" \in s[i] => \E k \in i .. Len(s) : "channels" \in s[k]
Ordered(s) ==
    /\ Before(s, "subscriptions", "channelMembers") /\ Before(s, "deliveries", "messages")
    /\ \A t \in ChannelTables \cup {"deliveries"} : Before(s, t, "channels")
    /\ Before(s, "its comments", "message") /\ Before(s, "its deliveries", "message")
    /\ Before(s, "user's subscriptions", "user's memberships")
    /\ Before(s, "user's subscriptions", "user") /\ Before(s, "user's memberships", "user")
    /\ Before(s, "user's comments", "user")
    /\ ChannelFollows(s)

\* In one step, all of a kind.
LEMMA AtOnce ==
    ASSUME NEW T \in {ChannelsOwn, MessagesOwn, UsersOwn}
    PROVE  Only(<<T>>, T) /\ Ordered(<<T>>)
<1>1. PICK s : s = <<T>>
  OBVIOUS
<1>2. s \in Seq(SUBSET T) /\ s # <<>> /\ Len(s) = 1 /\ s[1] = T
  BY <1>1
<1>3. ASSUME NEW a, NEW b, b \in T => a \in T PROVE Before(s, a, b)
  BY <1>2, <1>3 DEF Before
<1>4. "messages" \in T => "channels" \in T
  <2>1. "channels" \in ChannelsOwn /\ "messages" \notin MessagesOwn /\ "messages" \notin UsersOwn
    BY DEF ChannelsOwn, MessagesOwn, UsersOwn
  <2> QED BY <2>1
<1>5. ChannelFollows(s)
  BY <1>2, <1>4 DEF ChannelFollows
<1>6. Ordered(s)
  BY <1>3, <1>5 DEF Ordered, ChannelsOwn, MessagesOwn, UsersOwn, ChannelTables
<1> QED BY <1>1, <1>2, <1>6 DEF Only

\* One table per step.
LEMMA OneByOne ==
    ASSUME NEW s, NEW a, NEW b, NEW n \in Nat, Len(s) = n, NEW k \in 1 .. n, NEW j \in 1 .. k, a \in s[j],
           \A i \in 1 .. n : i # k => b \notin s[i]
    PROVE  Before(s, a, b)
BY DEF Before
LEMMA NotThere ==
    ASSUME NEW T, NEW s \in Seq(SUBSET T), NEW a, NEW b
    PROVE  /\ b \notin T => Before(s, a, b)
           /\ "messages" \notin T => ChannelFollows(s)
<1>1. ASSUME NEW i \in 1 .. Len(s) PROVE s[i] \in SUBSET T
  OBVIOUS
<1>2. b \notin T => Before(s, a, b)
  BY <1>1 DEF Before
<1>3. "messages" \notin T => ChannelFollows(s)
  BY <1>1 DEF ChannelFollows
<1> QED BY <1>2, <1>3

LEMMA ChannelDelete ==
    ASSUME NEW s, s = MongoDeleteChannel
    PROVE  Only(s, ChannelsOwn) /\ Ordered(s)
<1>1. s \in Seq(SUBSET ChannelsOwn) /\ s # <<>> /\ Len(s) = 7
  BY DEF MongoDeleteChannel, ChannelsOwn, ChannelTables
<1>2. /\ s[1] = {"deliveries"} /\ s[2] = {"messages"} /\ s[3] = {"subscriptions"}
      /\ s[4] = {"apiKeys"} /\ s[5] = {"channelMembers"} /\ s[6] = {"comments"} /\ s[7] = {"channels"}
  BY DEF MongoDeleteChannel
<1>3. \A i \in 1 .. 7 : i = 1 \/ i = 2 \/ i = 3 \/ i = 4 \/ i = 5 \/ i = 6 \/ i = 7
  OBVIOUS
<1>4. Before(s, "subscriptions", "channelMembers")
  BY <1>1, <1>2, <1>3 DEF Before
<1>5. Before(s, "deliveries", "messages")
  BY <1>1, <1>2, <1>3 DEF Before
<1>6. ASSUME NEW t \in ChannelTables \cup {"deliveries"} PROVE Before(s, t, "channels")
  <2>1. \A i \in 1 .. 7 : i # 7 => "channels" \notin s[i]
    BY <1>2, <1>3
  <2>2. PICK j \in 1 .. 7 : t \in s[j]
    BY <1>2 DEF ChannelTables
  <2>3. 7 \in Nat /\ 7 \in 1 .. 7
    OBVIOUS
  <2> QED BY <1>1, <2>1, <2>2, <2>3, OneByOne
<1>7. ASSUME NEW a, NEW b, b \notin ChannelsOwn PROVE Before(s, a, b)
  BY <1>1, <1>7, NotThere
<1>8. ChannelFollows(s)
  <2>1. ASSUME NEW i \in 1 .. 7 PROVE 7 \in i .. 7 /\ "channels" \in s[7]
    BY <1>2
  <2> QED BY <1>1, <2>1 DEF ChannelFollows
<1> QED BY <1>1, <1>4, <1>5, <1>6, <1>7, <1>8 DEF Only, Ordered, ChannelsOwn, ChannelTables

LEMMA Tuples ==
    ASSUME NEW T, NEW a \in T, NEW b \in T, NEW c \in T, NEW d \in T
    PROVE  /\ <<a, b, c>> \in Seq(T) /\ <<a, b, c>> # <<>> /\ Len(<<a, b, c>>) = 3
           /\ <<a, b, c, d>> \in Seq(T) /\ <<a, b, c, d>> # <<>> /\ Len(<<a, b, c, d>>) = 4
OBVIOUS

LEMMA MessageDelete ==
    ASSUME NEW s, s = MongoDeleteMessage
    PROVE  Only(s, MessagesOwn) /\ Ordered(s)
<1>0. {"its comments"} \in SUBSET MessagesOwn /\ {"its deliveries"} \in SUBSET MessagesOwn
      /\ {"message"} \in SUBSET MessagesOwn
  BY DEF MessagesOwn
<1>1. s \in Seq(SUBSET MessagesOwn) /\ s # <<>> /\ Len(s) = 3
  BY <1>0, Tuples DEF MongoDeleteMessage
<1>2. s[1] = {"its comments"} /\ s[2] = {"its deliveries"} /\ s[3] = {"message"}
  BY DEF MongoDeleteMessage
<1>3. Before(s, "its comments", "message") /\ Before(s, "its deliveries", "message")
  <2>1. 3 \in 1 .. 3 /\ 1 \in 1 .. 3 /\ 2 \in 1 .. 3 /\ 3 \in Nat
        /\ \A i \in 1 .. 3 : i # 3 => i = 1 \/ i = 2
    OBVIOUS
  <2>2. \A i \in 1 .. 3 : i # 3 => "message" \notin s[i]
    BY <1>2, <2>1
  <2>3. "its comments" \in s[1] /\ "its deliveries" \in s[2]
    BY <1>2
  <2> QED BY <1>1, <2>1, <2>2, <2>3, OneByOne
<1>4. ASSUME NEW a, NEW b, b \notin MessagesOwn PROVE Before(s, a, b)
  BY <1>1, <1>4, NotThere
<1>5. ChannelFollows(s)
  <2>1. "messages" \notin MessagesOwn
    BY DEF MessagesOwn
  <2> QED BY <1>1, <2>1, NotThere
<1> QED BY <1>1, <1>3, <1>4, <1>5 DEF Only, Ordered, MessagesOwn

OwnTables == <<{"user's subscriptions"}, {"user's memberships"}, {"user's comments"}, {"user"}>>

LEMMA OwnDelete ==
    ASSUME NEW s, s = OwnTables
    PROVE  Only(s, UsersOwn) /\ Ordered(s)
<1>0. /\ {"user's subscriptions"} \in SUBSET UsersOwn /\ {"user's memberships"} \in SUBSET UsersOwn
      /\ {"user's comments"} \in SUBSET UsersOwn /\ {"user"} \in SUBSET UsersOwn
  BY DEF UsersOwn
<1>1. s \in Seq(SUBSET UsersOwn) /\ s # <<>> /\ Len(s) = 4
  BY <1>0, Tuples DEF OwnTables
<1>2. /\ s[1] = {"user's subscriptions"} /\ s[2] = {"user's memberships"}
      /\ s[3] = {"user's comments"} /\ s[4] = {"user"}
  BY DEF OwnTables
<1>3. Before(s, "user's subscriptions", "user's memberships")
  <2>1. 2 \in 1 .. 4 /\ 1 \in 1 .. 2 /\ 4 \in Nat /\ \A i \in 1 .. 4 : i # 2 => i = 1 \/ i = 3 \/ i = 4
    OBVIOUS
  <2>2. \A i \in 1 .. 4 : i # 2 => "user's memberships" \notin s[i]
    BY <1>2, <2>1
  <2>3. "user's subscriptions" \in s[1]
    BY <1>2
  <2> QED BY <1>1, <2>1, <2>2, <2>3, OneByOne
<1>4. /\ Before(s, "user's subscriptions", "user") /\ Before(s, "user's memberships", "user")
      /\ Before(s, "user's comments", "user")
  <2>1. 4 \in 1 .. 4 /\ 1 \in 1 .. 4 /\ 2 \in 1 .. 4 /\ 3 \in 1 .. 4 /\ 4 \in Nat
        /\ \A i \in 1 .. 4 : i # 4 => i = 1 \/ i = 2 \/ i = 3
    OBVIOUS
  <2>2. \A i \in 1 .. 4 : i # 4 => "user" \notin s[i]
    BY <1>2, <2>1
  <2>3. "user's subscriptions" \in s[1] /\ "user's memberships" \in s[2] /\ "user's comments" \in s[3]
    BY <1>2
  <2> QED BY <1>1, <2>1, <2>2, <2>3, OneByOne
<1>5. ASSUME NEW a, NEW b, b \notin UsersOwn PROVE Before(s, a, b)
  BY <1>1, <1>5, NotThere
<1>6. ChannelFollows(s)
  <2>1. "messages" \notin UsersOwn
    BY DEF UsersOwn
  <2> QED BY <1>1, <2>1, NotThere
<1> QED BY <1>1, <1>3, <1>4, <1>5, <1>6 DEF Only, Ordered, UsersOwn

LEMMA Joined ==
    ASSUME NEW S, NEW s \in Seq(SUBSET S), NEW t \in Seq(SUBSET S), NEW a, NEW b,
           Before(s, a, b), Before(t, a, b)
    PROVE  Before(s \o t, a, b)
<1>1. PICK w : w = s \o t
  OBVIOUS
<1>2. /\ w \in Seq(SUBSET S) /\ Len(w) = Len(s) + Len(t)
      /\ \A i \in 1 .. Len(s) : w[i] = s[i]
      /\ \A i \in 1 .. Len(t) : w[Len(s) + i] = t[i]
  BY <1>1
<1>3. Len(s) \in Nat /\ Len(t) \in Nat
  OBVIOUS
<1>4. ASSUME NEW i \in 1 .. Len(w), b \in w[i] PROVE \E j \in 1 .. i : a \in w[j]
  <2>1. CASE i <= Len(s)
    <3>1. i \in 1 .. Len(s) /\ w[i] = s[i]
      BY <1>2, <1>3, <2>1
    <3>2. PICK j \in 1 .. i : a \in s[j]
      BY <1>4, <3>1 DEF Before
    <3>3. j \in 1 .. Len(s)
      BY <3>1, <1>3
    <3> QED BY <3>2, <3>3, <1>2
  <2>2. CASE i > Len(s)
    <3>0. i - Len(s) \in 1 .. Len(t) /\ i = Len(s) + (i - Len(s))
      BY <1>2, <1>3, <2>2
    <3>1. PICK k \in 1 .. Len(t) : i = Len(s) + k
      BY <3>0
    <3>2. w[i] = t[k]
      BY <1>2, <3>1
    <3>3. PICK j \in 1 .. k : a \in t[j]
      BY <1>4, <3>2 DEF Before
    <3>4. j \in 1 .. Len(t) /\ Len(s) + j \in 1 .. i
      BY <3>1, <1>3
    <3>5. w[Len(s) + j] = t[j]
      BY <1>2, <3>4
    <3> QED BY <3>3, <3>4, <3>5
  <2> QED BY <1>2, <1>3, <2>1, <2>2
<1> QED BY <1>1, <1>4 DEF Before

LEMMA JoinedFollows ==
    ASSUME NEW S, NEW s \in Seq(SUBSET S), NEW t \in Seq(SUBSET S), ChannelFollows(s), ChannelFollows(t)
    PROVE  ChannelFollows(s \o t)
<1>1. PICK w : w = s \o t
  OBVIOUS
<1>2. /\ w \in Seq(SUBSET S) /\ Len(w) = Len(s) + Len(t)
      /\ \A i \in 1 .. Len(s) : w[i] = s[i]
      /\ \A i \in 1 .. Len(t) : w[Len(s) + i] = t[i]
  BY <1>1
<1>3. Len(s) \in Nat /\ Len(t) \in Nat
  OBVIOUS
<1>4. ASSUME NEW i \in 1 .. Len(w), "messages" \in w[i] PROVE \E k \in i .. Len(w) : "channels" \in w[k]
  <2>1. CASE i <= Len(s)
    <3>1. i \in 1 .. Len(s) /\ w[i] = s[i]
      BY <1>2, <1>3, <2>1
    <3>2. PICK k \in i .. Len(s) : "channels" \in s[k]
      BY <1>4, <3>1 DEF ChannelFollows
    <3>3. k \in 1 .. Len(s) /\ k \in i .. Len(w)
      BY <1>2, <1>3, <3>1
    <3> QED BY <3>2, <3>3, <1>2
  <2>2. CASE i > Len(s)
    <3>0. i - Len(s) \in 1 .. Len(t) /\ i = Len(s) + (i - Len(s))
      BY <1>2, <1>3, <2>2
    <3>1. PICK j \in 1 .. Len(t) : i = Len(s) + j
      BY <3>0
    <3>2. w[i] = t[j]
      BY <1>2, <3>1
    <3>3. PICK k \in j .. Len(t) : "channels" \in t[k]
      BY <1>4, <3>2 DEF ChannelFollows
    <3>4. k \in 1 .. Len(t) /\ Len(s) + k \in i .. Len(w)
      BY <1>2, <1>3, <3>1
    <3>5. w[Len(s) + k] = t[k]
      BY <1>2, <3>4
    <3> QED BY <3>3, <3>4, <3>5
  <2> QED BY <1>2, <1>3, <2>1, <2>2
<1> QED BY <1>1, <1>4 DEF ChannelFollows

(***************************************************************************)
(* What each step does to the accounts, the members, the devices and the   *)
(* requests.                                                               *)
(***************************************************************************)
\* Nothing that other rows hang off is taken away.
Kept(d, e) ==
    /\ e.users = d.users /\ (e.channel = None <=> d.channel = None) /\ d.messages \subseteq e.messages
    /\ \A c \in Comments : d.comments[c] # None => e.comments[c] \in {d.comments[c], None}
SameLists ==
    /\ db' \in Database /\ db'.users = db.users /\ db'.members = db.members /\ db'.subs = db.subs
    /\ Kept(db, db')
Becomes(p, r) == r \in Request /\ Placed(r) /\ req' = [req EXCEPT ![p] = r]
Ends(p) == req' = [req EXCEPT ![p] = Idle]
Calm == disturbed' = disturbed /\ lent' = lent

Deletes(r) ==
    Ordered(r.todo) /\ UNCHANGED rows /\ (r.op # "delete message" => r.ids = db.messages)
Starts(p, r) ==
    /\ SameLists /\ req[p].pc = "idle" /\ Becomes(p, r)
    /\ r.pc \notin Opening \cup {"idle"}
    /\ r.pc = "delete" => Deletes(r)
    /\ disturbed' = disturbed \cup
          {u \in Concerns(r) : \E q \in Procs \ {p} : u \in Concerns(req[q])} \cup Lender(r)
    /\ lent' = lent \cup {<<v, r.u>> : v \in Lender(r)}
Aside == SameLists /\ req' = req /\ Calm
Stops(p) == SameLists /\ Ends(p) /\ req[p].pc # "notify" /\ Calm
Fails(p) == SameLists /\ Ends(p) /\ disturbed' = disturbed \cup Concerns(req[p]) /\ lent' = lent
Drops(u) ==
    /\ Rewrites(db, db', u) /\ db.subs[u] # <<>> /\ (Sounds(db'.subs[u]) => Sounds(db.subs[u]))
    /\ req' = req /\ Calm
\* The same request, further on.
Follows(r, q) == r.op = q.op /\ r.u = q.u /\ r.arg = q.arg /\ r.todo = q.todo
Upserts(p) ==
    LET u == req[p].u IN
    /\ req[p].pc = "upsert" /\ db' \in Database /\ Except(db, db', "members")
    /\ \A x \in Users : x # u \/ db.members[x] # None => db'.members[x] = db.members[x]
    /\ db'.members[u] # None
    /\ \/ Ends(p)
       \/ \E r : Becomes(p, r) /\ Follows(r, req[p]) /\ r.pc = "find" /\ r.status = db'.members[u].status
    /\ Calm
Finds(p) ==
    /\ SameLists /\ req[p].pc = "find" /\ Calm
    /\ \E r : /\ Becomes(p, r) /\ Follows(r, req[p])
              /\ r.pc \in {"insertSub", "updateSub"} /\ r.status = req[p].status
Subscribes(p) ==
    LET u == req[p].arg IN
    /\ req[p].pc \in {"find", "insertSub", "updateSub"} /\ Ends(p) /\ Calm
    /\ Rewrites(db, db', u)
    /\ Sounds(db'.subs[u]) => req[p].status = "active" \/ Sounds(db.subs[u])
SetsRow(p, u, r) ==
    /\ db' \in Database /\ Except(db, db', "members") /\ Calm
    /\ \A x \in Users : x # u => db'.members[x] = db.members[x]
    /\ Becomes(p, r)
SetsRole(p) ==
    LET u == req[p].u IN
    \E r : /\ req[p].pc = "role" /\ SetsRow(p, u, r)
           /\ r = Idle \/ (Follows(r, req[p]) /\ r.pc = "status")
           /\ db.members[u] # None /\ db'.members[u] # None
           /\ db'.members[u].status = db.members[u].status
SetsStatus(p) ==
    LET u == req[p].u IN
    \E r : /\ req[p].pc = "status" /\ SetsRow(p, u, r)
           /\ Follows(r, req[p]) /\ r.pc = "notify" /\ r.status = req[p].status
           /\ db'.members[u] # None /\ db'.members[u].status = req[p].status
Removes(p) ==
    LET u == req[p].u IN
    \E r : /\ req[p].pc = "remove" /\ SetsRow(p, u, r)
           /\ Follows(r, req[p]) /\ r.pc = "notify" /\ r.status = "blocked"
           /\ db'.members[u] = None
Notifies(p) ==
    LET u == req[p].u IN
    /\ req[p].pc = "notify" /\ Ends(p) /\ Calm
    /\ Rewrites(db, db', u)
    /\ Sounds(db'.subs[u]) => req[p].status = "active" \/ Sounds(db.subs[u])
    /\ u \in db.users /\ Sounds(db'.subs[u]) => req[p].status = "active"
Clears(p) ==
    LET r == req[p]
        tables == Head(r.todo)
    IN  /\ r.pc = "delete" /\ Calm
        /\ db' = Without(db, tables, r.u, r.arg, r.ids)
        /\ \/ Ends(p)
           \/ \E q : Becomes(p, q) /\ q.op = r.op /\ q.u = r.u /\ q.pc = "delete" /\ q.todo = Tail(r.todo)
                     /\ q.arg = r.arg /\ q.ids = r.ids /\ Len(r.todo) > 1

LEMMA Untouched == ASSUME Types, UNCHANGED db PROVE SameLists
BY DEF Types, SameLists, Kept

LEMMA OtherTable ==
    ASSUME NEW e \in Database, NEW t, t # "members", t # "subs", Except(db, e, t), db' = e,
           t = "channel" => (e.channel = None <=> db.channel = None),
           t = "messages" => db.messages \subseteq e.messages,
           t = "comments" => \A c \in Comments : db.comments[c] # None => e.comments[c] \in {db.comments[c], None}
    PROVE  SameLists
BY DEF Except, SameLists, Kept

LEMMA WritesDb == ASSUME NEW d, NEW taken, WriteTaking(d, taken) \/ Write(d) PROVE db' = d
BY DEF Write, WriteTaking

\* A request begins with what its handler has read.
LEMMA BeginStarts ==
    ASSUME Types, NEW p \in Procs, NEW r \in Request, Placed(r), Begin(p, r), SameLists,
           r.pc \notin Opening \cup {"idle"}, r.pc = "delete" => Deletes(r)
    PROVE  Starts(p, r)
BY DEF Begin, At, Starts, Becomes

LEMMA IdleIs ==
    /\ Idle.pc = "idle" /\ Idle.op = None /\ Idle.u = None /\ Idle.arg = None /\ Idle.role = None
    /\ Idle.status = None /\ Idle.todo = <<>> /\ Idle.ids = {}
BY DEF Idle

LEMMA MembersBegin ==
    ASSUME Types, NEW p \in Procs, NEW u \in Users,
           \/ \E device \in Users \cup {None}, route \in {"join", "subscribe"} : join(p, u, device, route)
           \/ leaveChannel(p, u) \/ approveMember(p, u) \/ denyMember(p, u) \/ removeMember(p, u)
           \/ \E role \in GivenRoles \cup {None}, status \in Statuses \cup {None} :
                 updateMember(p, u, role, status)
    PROVE  \E r : Starts(p, r)
<1>1. ASSUME NEW device \in Users \cup {None}, NEW route, join(p, u, device, route) PROVE \E r : Starts(p, r)
  <2>1. PICK s \in {"pending", "active"} :
          Begin(p, [Idle EXCEPT !.pc = "upsert", !.op = "join", !.u = u, !.arg = device, !.status = s])
    BY <1>1 DEF join
  <2>2. PICK r : r = [Idle EXCEPT !.pc = "upsert", !.op = "join", !.u = u, !.arg = device, !.status = s]
    OBVIOUS
  <2>3. /\ "upsert" \in Pcs /\ "join" \in Ops \cup {None} /\ u \in Users \cup {None}
        /\ device \in Users \cup Messages \cup {None} /\ s \in Statuses \cup {None}
    BY DEF Pcs, About, Ops, Statuses
  <2>4. r \in Request /\ r.pc = "upsert" /\ r.op = "join" /\ r.u = u /\ r.arg = device /\ r.status = s /\ r.todo = <<>>
    BY <2>2, <2>3, IdlePlaced, IdleIs DEF Request
  <2>5. Placed(r)
    BY <2>4 DEF Placed, About, Opening, Devices, Statuses
  <2>6. SameLists
    BY <1>1, Untouched DEF join, rows
  <2> QED BY <2>1, <2>2, <2>4, <2>5, <2>6, BeginStarts DEF Opening
<1>2. ASSUME NEW r, UNCHANGED rows, Begin(p, r), r \in Request, r.u = u, r.op \in {"leave", "moderate"},
             r.pc \in {"remove", "status", "role"}, r.pc = "role" => r.role # None,
             r.pc = "status" => r.status # None, r.todo = <<>>
      PROVE  \E x : Starts(p, x)
  <2>1. Placed(r)
    BY <1>2 DEF Placed, About, Opening, Request, Devices
  <2>2. SameLists
    BY <1>2, Untouched DEF rows
  <2> QED BY <1>2, <2>1, <2>2, BeginStarts DEF Opening
<1>3. /\ {"remove", "status", "role"} \subseteq Pcs /\ {"leave", "moderate"} \subseteq Ops \cup {None}
      /\ u \in Users \cup {None} /\ "active" \in Statuses \cup {None} /\ "active" # None
  BY ChannelsAssumption DEF Pcs, About, Ops, Statuses
<1>4. CASE leaveChannel(p, u)
  <2>1. PICK r : r = [Idle EXCEPT !.pc = "remove", !.op = "leave", !.u = u]
    OBVIOUS
  <2>2. r \in Request /\ r.pc = "remove" /\ r.op = "leave" /\ r.u = u /\ r.todo = <<>>
    BY <2>1, <1>3, IdlePlaced, IdleIs DEF Request
  <2>3. Begin(p, r) /\ UNCHANGED rows
    BY <1>4, <2>1 DEF leaveChannel
  <2> QED BY <1>2, <2>2, <2>3
<1>5. CASE approveMember(p, u)
  <2>1. PICK r : r = [Idle EXCEPT !.pc = "status", !.op = "moderate", !.u = u, !.status = "active"]
    OBVIOUS
  <2>2. r \in Request /\ r.pc = "status" /\ r.op = "moderate" /\ r.u = u /\ r.todo = <<>> /\ r.status = "active"
    BY <2>1, <1>3, IdlePlaced, IdleIs DEF Request
  <2>3. Begin(p, r) /\ UNCHANGED rows
    BY <1>5, <2>1 DEF approveMember
  <2> QED BY <1>2, <1>3, <2>2, <2>3
<1>6. CASE denyMember(p, u)
  <2>1. PICK r : r = [Idle EXCEPT !.pc = "remove", !.op = "moderate", !.u = u]
    OBVIOUS
  <2>2. r \in Request /\ r.pc = "remove" /\ r.op = "moderate" /\ r.u = u /\ r.todo = <<>>
    BY <2>1, <1>3, IdlePlaced, IdleIs DEF Request
  <2>3. Begin(p, r) /\ UNCHANGED rows
    BY <1>6, <2>1 DEF denyMember
  <2> QED BY <1>2, <2>2, <2>3
<1>7. ASSUME NEW role \in GivenRoles \cup {None}, NEW status \in Statuses \cup {None},
             updateMember(p, u, role, status)
      PROVE  \E r : Starts(p, r)
  <2>1. PICK pc \in {"status", "role"} : pc = IF role # None THEN "role" ELSE "status"
    OBVIOUS
  <2>2. PICK r : r = [Idle EXCEPT !.pc = pc, !.op = "moderate", !.u = u, !.role = role, !.status = status]
    OBVIOUS
  <2>3. role \in Roles \cup {None}
    BY ChannelsAssumption
  <2>4. /\ r \in Request /\ r.pc = pc /\ r.op = "moderate" /\ r.u = u /\ r.todo = <<>>
        /\ r.role = role /\ r.status = status
    BY <2>1, <2>2, <2>3, <1>3, IdlePlaced, IdleIs DEF Request
  <2>5. Begin(p, r) /\ UNCHANGED rows /\ (role # None \/ status # None)
    BY <1>7, <2>1, <2>2 DEF updateMember
  <2> QED BY <1>2, <2>1, <2>4, <2>5
<1> QED BY <1>1, <1>4, <1>5, <1>6, <1>7 DEF removeMember

LEMMA UserDelete ==
    ASSUME NEW u, NEW s \in {MongoDeleteUser(db, u), MemoryDeleteUser(db, u)}
    PROVE  Only(s, IF u = Owner THEN ChannelsOwn \cup UsersOwn ELSE UsersOwn) /\ Ordered(s)
<1>1. ASSUME NEW t \in Seq(SUBSET UsersOwn) PROVE <<>> \o t = t
  BY <1>1
<1>2. Only(OwnTables, UsersOwn) /\ Ordered(OwnTables) /\ Only(<<UsersOwn>>, UsersOwn) /\ Ordered(<<UsersOwn>>)
  BY OwnDelete, AtOnce
<1>3. PICK t : t \in {OwnTables, <<UsersOwn>>} /\ s \in {t, MongoDeleteChannel \o t, MemoryDeleteChannel \o t}
               /\ (s # t => u = Owner)
  <2>1. <<>> \o OwnTables = OwnTables /\ <<>> \o <<UsersOwn>> = <<UsersOwn>>
    BY <1>1, <1>2 DEF Only
  <2>2. CASE s = MongoDeleteUser(db, u)
    <3>1. s = (IF u = Owner /\ db.channel # None THEN MongoDeleteChannel ELSE <<>>) \o OwnTables
      BY <2>2 DEF MongoDeleteUser, OwnTables
    <3>2. s = OwnTables \/ (s = MongoDeleteChannel \o OwnTables /\ u = Owner)
      BY <2>1, <3>1
    <3> QED BY <3>2
  <2>3. CASE s = MemoryDeleteUser(db, u)
    <3>1. s = (IF u = Owner /\ db.channel # None THEN MemoryDeleteChannel ELSE <<>>) \o <<UsersOwn>>
      BY <2>3 DEF MemoryDeleteUser, UsersOwn
    <3>2. s = <<UsersOwn>> \/ (s = MemoryDeleteChannel \o <<UsersOwn>> /\ u = Owner)
      BY <2>1, <3>1
    <3> QED BY <3>2
  <2> QED BY <2>2, <2>3
<1>4. Only(t, UsersOwn) /\ Ordered(t)
  BY <1>2, <1>3
<1>5. CASE s = t
  <2>1. ASSUME Only(t, UsersOwn) PROVE Only(t, ChannelsOwn \cup UsersOwn)
    BY <2>1 DEF Only
  <2> QED BY <1>4, <1>5, <2>1
<1>6. ASSUME NEW c \in {MongoDeleteChannel, MemoryDeleteChannel}, s = c \o t, u = Owner
      PROVE  Only(s, ChannelsOwn \cup UsersOwn) /\ Ordered(s)
  <2>1. Only(c, ChannelsOwn) /\ Ordered(c)
    <3>1. MemoryDeleteChannel = <<ChannelsOwn>>
      BY DEF MemoryDeleteChannel, ChannelsOwn
    <3> QED BY <1>6, <3>1, ChannelDelete, AtOnce
  <2>2. PICK S : S = ChannelsOwn \cup UsersOwn
    OBVIOUS
  <2>3. c \in Seq(SUBSET S) /\ t \in Seq(SUBSET S)
    BY <1>4, <2>1, <2>2 DEF Only
  <2>4. Ordered(s)
    BY <1>4, <1>6, <2>1, <2>3, Joined, JoinedFollows DEF Ordered
  <2>5. s \in Seq(SUBSET S) /\ s # <<>>
    <3>1. t \in Seq(SUBSET S) /\ t # <<>>
      BY <1>4, <2>3 DEF Only
    <3>2. Len(t) # 0 /\ Len(t) \in Nat /\ Len(c) \in Nat
      BY <3>1, <2>3
    <3>3. s \in Seq(SUBSET S) /\ Len(s) = Len(c) + Len(t)
      BY <1>6, <2>3
    <3> QED BY <3>2, <3>3
  <2> QED BY <2>2, <2>4, <2>5 DEF Only
<1> QED BY <1>3, <1>4, <1>5, <1>6

LEMMA OthersBegin ==
    ASSUME Types, NEW p \in Procs,
           \/ createKey(p)
           \/ \E u \in Users, m \in Messages : postComment(p, u, m)
           \/ \E m \in Messages : CreateMessage(p, m)
    PROVE  \E r : Starts(p, r) /\ r.pc # "delete"
<1>1. /\ {"insertKey", "insertComment", "deliver"} \subseteq Pcs
      /\ {"key", "comment", "dispatch"} \subseteq Ops \cup {None}
  BY DEF Pcs, Ops
<1>2. ASSUME NEW r, SameLists, Begin(p, r), r \in Request, r.todo = <<>>,
             \/ r.pc = "insertKey"
             \/ r.pc = "insertComment" /\ r.op = "comment" /\ r.u \in Users /\ r.arg \in Messages
             \/ r.pc = "deliver" /\ r.op = "dispatch" /\ r.arg \in Messages
      PROVE  \E x : Starts(p, x) /\ x.pc # "delete"
  <2>1. Placed(r)
    BY <1>2 DEF Placed, About, Opening, Devices
  <2> QED BY <1>2, <2>1, BeginStarts DEF Opening
<1>3. CASE createKey(p)
  <2>1. PICK r : r = [Idle EXCEPT !.pc = "insertKey", !.op = "key"]
    OBVIOUS
  <2>2. r \in Request /\ r.pc = "insertKey" /\ r.todo = <<>>
    BY <2>1, <1>1, IdlePlaced, IdleIs DEF Request
  <2>3. Begin(p, r) /\ UNCHANGED rows
    BY <1>3, <2>1 DEF createKey
  <2> QED BY <1>2, <2>2, <2>3, Untouched DEF rows
<1>4. ASSUME NEW u \in Users, NEW m \in Messages, postComment(p, u, m)
      PROVE  \E r : Starts(p, r) /\ r.pc # "delete"
  <2>1. PICK r : r = [Idle EXCEPT !.pc = "insertComment", !.op = "comment", !.u = u, !.arg = m]
    OBVIOUS
  <2>2. u \in Users \cup {None} /\ m \in Users \cup Messages \cup {None}
    OBVIOUS
  <2>3. /\ r \in Request /\ r.pc = "insertComment" /\ r.todo = <<>> /\ r.op = "comment"
        /\ r.u = u /\ r.arg = m
    BY <2>1, <2>2, <1>1, IdlePlaced, IdleIs DEF Request
  <2>4. Begin(p, r) /\ UNCHANGED rows
    BY <1>4, <2>1 DEF postComment
  <2> QED BY <1>2, <2>3, <2>4, Untouched DEF rows
<1>5. ASSUME NEW m \in Messages, CreateMessage(p, m) PROVE \E r : Starts(p, r) /\ r.pc # "delete"
  <2>1. PICK r : r = [Idle EXCEPT !.pc = "deliver", !.op = "dispatch", !.arg = m]
    OBVIOUS
  <2>2. m \in Users \cup Messages \cup {None}
    OBVIOUS
  <2>3. r \in Request /\ r.pc = "deliver" /\ r.todo = <<>> /\ r.op = "dispatch" /\ r.arg = m
    BY <2>1, <2>2, <1>1, IdlePlaced, IdleIs DEF Request
  <2>4. Begin(p, r) /\ Write([db EXCEPT !.messages = @ \cup {m}])
    BY <1>5, <2>1 DEF CreateMessage
  <2>5. PICK s \in SUBSET Messages : s = db.messages \cup {m}
    BY DEF Types, Database
  <2>6. db' = [db EXCEPT !.messages = s]
    BY <2>4, <2>5, WritesDb
  <2>7. SameLists
    <3>1. PICK e : e = [db EXCEPT !.messages = s]
      OBVIOUS
    <3>2. e \in Database /\ e.messages = s /\ Except(db, e, "messages")
      BY <3>1, FieldWrites DEF Types
    <3> QED BY <2>5, <2>6, <3>1, <3>2, OtherTable
  <2> QED BY <1>2, <2>3, <2>4, <2>7
<1> QED BY <1>3, <1>4, <1>5

LEMMA DeletesBegin ==
    ASSUME Types, NEW p \in Procs,
           \/ deleteChannel(p) \/ \E u \in Users : deleteUser(p, u)
           \/ \E m \in Messages : deleteMessage(p, m)
    PROVE  \E r : Starts(p, r)
<1>1. /\ "delete" \in Pcs /\ db.messages \in SUBSET Messages
      /\ {"delete channel", "delete message", "delete user"} \subseteq Ops \cup {None}
  BY DEF Pcs, Ops, Types, Database
<1>2. ASSUME NEW s, NEW T, T \subseteq Tables, Only(s, T) PROVE s \in Seq(SUBSET Tables)
  BY <1>2 DEF Only
<1>3. /\ ChannelsOwn \subseteq Tables /\ MessagesOwn \subseteq Tables /\ UsersOwn \subseteq Tables
      /\ ChannelsOwn \cup UsersOwn \subseteq Tables
  BY DEF Tables, ChannelsOwn, MessagesOwn, UsersOwn
<1>4. ASSUME NEW r, UNCHANGED rows, Begin(p, r), r \in Request, r.pc = "delete", Scoped(r), Ordered(r.todo),
             r.op # "delete message" => r.ids = db.messages
      PROVE  \E x : Starts(p, x)
  <2>1. Placed(r)
    BY <1>4 DEF Placed, About, Opening, Devices
  <2>2. SameLists
    BY <1>4, Untouched DEF rows
  <2> QED BY <1>4, <2>1, <2>2, BeginStarts DEF Opening, Deletes
<1>5. CASE deleteChannel(p)
  <2>1. PICK s : s = IF backend = "mongo" THEN MongoDeleteChannel ELSE MemoryDeleteChannel
    OBVIOUS
  <2>2. Only(s, ChannelsOwn) /\ Ordered(s)
    <3>1. MemoryDeleteChannel = <<ChannelsOwn>>
      BY DEF MemoryDeleteChannel, ChannelsOwn
    <3> QED BY <2>1, <3>1, ChannelDelete, AtOnce
  <2>3. s \in Seq(SUBSET Tables)
    BY <2>2, <1>2, <1>3
  <2>4. PICK r : r = [Idle EXCEPT !.pc = "delete", !.op = "delete channel", !.ids = db.messages, !.todo = s]
    OBVIOUS
  <2>5. r \in Request /\ r.pc = "delete" /\ r.op = "delete channel" /\ r.todo = s /\ r.ids = db.messages
    BY <2>3, <2>4, <1>1, IdlePlaced, IdleIs DEF Request
  <2>6. Begin(p, r) /\ UNCHANGED rows
    BY <1>5, <2>1, <2>4 DEF deleteChannel
  <2> QED BY <1>4, <2>2, <2>5, <2>6 DEF Scoped
<1>6. ASSUME NEW m \in Messages, deleteMessage(p, m) PROVE \E r : Starts(p, r)
  <2>1. PICK s : s = IF backend = "mongo" THEN MongoDeleteMessage ELSE MemoryDeleteMessage
    OBVIOUS
  <2>2. Only(s, MessagesOwn) /\ Ordered(s)
    <3>1. MemoryDeleteMessage = <<MessagesOwn>>
      BY DEF MemoryDeleteMessage, MessagesOwn
    <3> QED BY <2>1, <3>1, MessageDelete, AtOnce
  <2>3. s \in Seq(SUBSET Tables) /\ m \in Users \cup Messages \cup {None}
    BY <2>2, <1>2, <1>3
  <2>4. PICK r : r = [Idle EXCEPT !.pc = "delete", !.op = "delete message", !.arg = m, !.todo = s]
    OBVIOUS
  <2>5. r \in Request /\ r.pc = "delete" /\ r.op = "delete message" /\ r.todo = s /\ r.arg = m
    BY <2>3, <2>4, <1>1, IdlePlaced, IdleIs DEF Request
  <2>6. Begin(p, r) /\ UNCHANGED rows
    BY <1>6, <2>1, <2>4 DEF deleteMessage
  <2> QED BY <1>4, <2>2, <2>5, <2>6 DEF Scoped
<1>7. ASSUME NEW u \in Users, deleteUser(p, u) PROVE \E r : Starts(p, r)
  <2>1. PICK s : s = IF backend = "mongo" THEN MongoDeleteUser(db, u) ELSE MemoryDeleteUser(db, u)
    OBVIOUS
  <2>2. Only(s, IF u = Owner THEN ChannelsOwn \cup UsersOwn ELSE UsersOwn) /\ Ordered(s)
    BY <2>1, UserDelete
  <2>3. s \in Seq(SUBSET Tables) /\ u \in Users \cup {None}
    BY <2>2, <1>2, <1>3
  <2>4. PICK r : r = [Idle EXCEPT !.pc = "delete", !.op = "delete user", !.u = u, !.ids = db.messages, !.todo = s]
    OBVIOUS
  <2>5. r \in Request /\ r.pc = "delete" /\ r.op = "delete user" /\ r.todo = s /\ r.u = u /\ r.ids = db.messages
    BY <2>3, <2>4, <1>1, IdlePlaced, IdleIs DEF Request
  <2>6. Begin(p, r) /\ UNCHANGED rows
    BY <1>7, <2>1, <2>4 DEF deleteUser
  <2> QED BY <1>4, <2>2, <2>5, <2>6 DEF Scoped
<1> QED BY <1>5, <1>6, <1>7

\* The calls of a join, of a moderation and of a departure.
LEMMA RequestSteps ==
    ASSUME Types, NEW p \in Procs
    PROVE  /\ req[p] \in Request /\ Placed(req[p]) /\ db \in Database
           /\ req[p].pc \in About => req[p].u \in Users
BY DEF Types, RequestTypes, Placed

\* A request that goes on to another call of its own.
LEMMA Phases ==
    /\ \A pc \in {"find", "insertSub", "updateSub", "notify"} : pc \in About /\ pc \in Opening \cup {"status"}
    /\ \A pc \in {"upsert", "role", "status", "remove"} : pc \in About
    /\ "status" \in Opening \cup {"status"} /\ "status" \notin Devices /\ "notify" \notin Devices
BY DEF About, Opening, Devices

Moved(r, pc, s) == [r EXCEPT !.pc = pc, !.status = s]

LEMMA GoesOn ==
    ASSUME Types, NEW p \in Procs, req[p].pc \in About, NEW pc \in Opening \cup {"status"},
           NEW s \in Statuses, NEW r, r = Moved(req[p], pc, s),
           pc \in Devices => req[p].op = "join" /\ req[p].arg \in Users
    PROVE  r \in Request /\ Placed(r) /\ Follows(r, req[p]) /\ r.pc = pc /\ r.status = s
<1>1. PICK q \in Request : q = req[p] /\ Placed(q)
  BY RequestSteps
<1>2. pc \in Pcs /\ s \in Statuses \cup {None}
  BY DEF Pcs, About, Opening
<1>3. r \in Request /\ r.pc = pc /\ r.status = s /\ r.op = q.op /\ r.u = q.u /\ r.arg = q.arg /\ r.todo = q.todo
  BY <1>1, <1>2 DEF Request, Moved
<1>4. Placed(r)
  BY <1>1, <1>3 DEF Placed, About, Opening, Devices
<1> QED BY <1>1, <1>3, <1>4 DEF Follows

LEMMA JoinSteps ==
    ASSUME Types, NEW p \in Procs, JoinUpsert(p)
    PROVE  Upserts(p)
<1>1. PICK u \in Users : u = req[p].u /\ req[p].pc = "upsert" /\ req[p].status \in Statuses
  BY RequestSteps DEF JoinUpsert, At, Placed, About
<1>2. PICK m \in ChannelMember : m = [status |-> req[p].status, role |-> "user"]
  BY <1>1 DEF ChannelMember, Roles
<1>3. PICK d : d = UpsertMember(db, u, m)
  OBVIOUS
<1>4. db' = d
  BY <1>1, <1>2, <1>3, WritesDb DEF JoinUpsert
<1>5. /\ d \in Database /\ Except(db, d, "members")
      /\ \A x \in Users : d.members[x] = IF x = u /\ db.members[u] = None THEN m ELSE db.members[x]
  BY <1>3, RequestSteps, MemberWrites
<1>6. d.members[u] # None /\ d.members[u] \in ChannelMember
  <2>1. db.members[u] \in ChannelMember \cup {None} /\ m # None
    BY ChannelsAssumption DEF Types, Database, MemberTable
  <2> QED BY <1>5, <2>1
<1>7. PICK s \in Statuses : s = d.members[u].status
  BY <1>6 DEF ChannelMember
<1>8. PICK r : r = Moved(req[p], "find", s)
  OBVIOUS
<1>9. req[p].arg # None => r \in Request /\ Placed(r) /\ Follows(r, req[p]) /\ r.pc = "find" /\ r.status = s
  <2>1. req[p].op = "join" /\ req[p].arg \in Users \cup {None}
    BY <1>1, RequestSteps DEF Placed
  <2> QED BY <1>1, <1>8, <2>1, Phases, GoesOn
<1>10. Calm /\ req' = [req EXCEPT ![p] = IF req[p].arg # None THEN r ELSE Idle]
  BY <1>1, <1>2, <1>3, <1>7, <1>8 DEF JoinUpsert, Calm, subStatusFor, Moved
<1> QED BY <1>1, <1>4, <1>5, <1>6, <1>7, <1>9, <1>10 DEF Upserts, Becomes, Ends

LEMMA SubscribeSteps ==
    ASSUME Types, NEW p \in Procs, Subscribe(p) \/ SubscribeWrite(p)
    PROVE  Finds(p) \/ Subscribes(p)
<1>1. Calm
  BY DEF Subscribe, SubscribeWrite, Calm
<1>2. req[p].pc \in {"find", "insertSub", "updateSub"}
  BY DEF Subscribe, SubscribeWrite, At
<1>3. PICK u \in Users : u = req[p].arg /\ req[p].op = "join"
  BY <1>2, RequestSteps DEF Placed, Devices
<1>4. PICK s \in Statuses : s = req[p].status
  BY <1>2, RequestSteps DEF Placed, Opening
<1>5. ASSUME NEW d, Finish(p), Write(d), \/ d = MongoSubscribeFound(db, u, s)
                                         \/ d = MongoSubscribeInsert(db, u, s)
                                         \/ d = MemorySubscribe(db, u, s)
      PROVE  Subscribes(p)
  <2>1. Rewrites(db, d, u) /\ (Sounds(d.subs[u]) => s = "active" \/ Sounds(db.subs[u]))
    BY <1>5, RequestSteps, SubWrites
  <2>2. db' = d
    BY <1>5, WritesDb
  <2> QED BY <1>1, <1>2, <1>3, <1>4, <1>5, <2>1, <2>2 DEF Subscribes, Finish, Ends
<1>6. CASE SubscribeWrite(p)
  <2>1. PICK d : Write(d) /\ (d = MongoSubscribeFound(db, u, s) \/ d = MongoSubscribeInsert(db, u, s))
    BY <1>3, <1>4, <1>6 DEF SubscribeWrite
  <2> QED BY <1>5, <1>6, <2>1 DEF SubscribeWrite
<1>7. CASE Subscribe(p) /\ backend = "memory"
  <2>1. PICK d : Write(d) /\ d = MemorySubscribe(db, u, s)
    BY <1>3, <1>4, <1>7 DEF Subscribe
  <2> QED BY <1>5, <1>7, <2>1 DEF Subscribe
<1>8. CASE Subscribe(p) /\ backend # "memory"
  <2>1. PICK pc \in {"insertSub", "updateSub"} : req' = [req EXCEPT ![p].pc = pc]
    BY <1>8 DEF Subscribe, Goto
  <2>2. PICK r : r = Moved(req[p], pc, s)
    OBVIOUS
  <2>3. r \in Request /\ Placed(r) /\ Follows(r, req[p]) /\ r.pc = pc /\ r.status = s
    BY <1>2, <1>3, <2>2, Phases, GoesOn
  <2>4. r = [req[p] EXCEPT !.pc = pc]
    BY <1>4, <2>2, RequestSteps DEF Request, Moved
  <2>5. Becomes(p, r)
    BY <2>1, <2>3, <2>4 DEF Becomes
  <2>6. SameLists
    BY <1>8, Untouched DEF Subscribe, rows
  <2> QED BY <1>1, <1>4, <1>8, <2>3, <2>5, <2>6 DEF Finds, Subscribe, At
<1> QED BY <1>6, <1>7, <1>8

\* A step that ends its request before it has written the membership.
LEMMA StopsShort ==
    ASSUME Types, NEW p \in Procs, Finish(p), UNCHANGED <<rows, disturbed, lent>>, req[p].pc # "notify"
    PROVE  Stops(p)
BY Untouched DEF Stops, Ends, Finish, rows, Calm

LEMMA ModerationSteps ==
    ASSUME Types, NEW p \in Procs, MemberRole(p) \/ MemberStatus(p) \/ MemberRemove(p)
    PROVE  Stops(p) \/ SetsRole(p) \/ SetsStatus(p) \/ Removes(p)
<1>1. Calm
  BY DEF MemberRole, MemberStatus, MemberRemove, Calm
<1>2. req[p].pc \in {"role", "status", "remove"}
  BY DEF MemberRole, MemberStatus, MemberRemove, At
<1>3. PICK u \in Users : u = req[p].u
  BY <1>2, RequestSteps DEF About
<1>4. CASE Finish(p) /\ UNCHANGED rows
  BY <1>1, <1>2, <1>4, StopsShort DEF Calm
<1>5. CASE MemberRole(p) /\ ~(Finish(p) /\ UNCHANGED rows)
  <2>1. PICK g \in Roles : g = req[p].role
    BY <1>5, RequestSteps DEF MemberRole, At, Placed
  <2>2. PICK d : d = UpdateMemberRole(db, u, g)
    OBVIOUS
  <2>3. db.members[u] # None /\ db' = d /\ req[p].pc = "role"
    BY <1>3, <1>5, <2>1, <2>2, WritesDb DEF MemberRole, At
  <2>4. "active" \in Statuses
    BY DEF Statuses
  <2>5. /\ d \in Database /\ Except(db, d, "members")
        /\ \A x \in Users : x # u => d.members[x] = db.members[x]
        /\ d.members[u] # None /\ d.members[u].status = db.members[u].status
    BY <2>2, <2>3, <2>4, RequestSteps, RowWrites
  <2>6. \E r : Becomes(p, r) /\ (r = Idle \/ (Follows(r, req[p]) /\ r.pc = "status"))
    <3>1. CASE req[p].status = None
      BY <1>3, <1>5, <3>1, IdlePlaced DEF MemberRole, Finish, Becomes
    <3>2. CASE req[p].status # None
      <4>1. PICK s \in Statuses : s = req[p].status
        BY <3>2, RequestSteps DEF Request
      <4>2. PICK r : r = Moved(req[p], "status", s)
        OBVIOUS
      <4>3. r \in Request /\ Placed(r) /\ Follows(r, req[p]) /\ r.pc = "status"
        BY <1>2, <4>2, Phases, GoesOn
      <4>4. r = [req[p] EXCEPT !.pc = "status"]
        BY <4>1, <4>2, RequestSteps DEF Request, Moved
      <4>5. req' = [req EXCEPT ![p] = r]
        BY <1>3, <1>5, <2>3, <3>2, <4>4 DEF MemberRole, Goto
      <4> QED BY <4>3, <4>5 DEF Becomes
    <3> QED BY <3>1, <3>2
  <2> QED BY <1>1, <1>3, <2>3, <2>5, <2>6 DEF SetsRole, SetsRow
<1>6. CASE MemberStatus(p) /\ ~(Finish(p) /\ UNCHANGED rows)
  <2>1. PICK s \in Statuses : s = req[p].status
    BY <1>6, RequestSteps DEF MemberStatus, At, Placed
  <2>2. PICK d : d = UpdateMemberStatus(db, u, s)
    OBVIOUS
  <2>3. db.members[u] # None /\ db' = d /\ req[p].pc = "status" /\ req' = [req EXCEPT ![p].pc = "notify"]
    BY <1>3, <1>6, <2>1, <2>2, WritesDb DEF MemberStatus, At, Goto
  <2>4. "user" \in Roles
    BY DEF Roles
  <2>5. /\ d \in Database /\ Except(db, d, "members")
        /\ \A x \in Users : x # u => d.members[x] = db.members[x]
        /\ d.members[u] # None /\ d.members[u].status = s
    BY <2>2, <2>3, <2>4, RequestSteps, RowWrites
  <2>6. PICK r : r = Moved(req[p], "notify", s)
    OBVIOUS
  <2>7. r \in Request /\ Placed(r) /\ Follows(r, req[p]) /\ r.pc = "notify" /\ r.status = s
    BY <1>2, <2>6, Phases, GoesOn
  <2>8. r = [req[p] EXCEPT !.pc = "notify"]
    BY <2>1, <2>6, RequestSteps DEF Request, Moved
  <2>9. Becomes(p, r)
    BY <2>3, <2>7, <2>8 DEF Becomes
  <2> QED BY <1>1, <1>3, <2>1, <2>3, <2>5, <2>7, <2>9 DEF SetsStatus, SetsRow
<1>7. CASE MemberRemove(p) /\ ~(Finish(p) /\ UNCHANGED rows)
  <2>1. PICK d : d = RemoveMember(db, u)
    OBVIOUS
  <2>2. db' = d /\ req[p].pc = "remove"
        /\ req' = [req EXCEPT ![p].pc = "notify", ![p].status = "blocked"]
    BY <1>3, <1>7, <2>1, WritesDb DEF MemberRemove, At
  <2>3. /\ d \in Database /\ Except(db, d, "members")
        /\ \A x \in Users : d.members[x] = IF x = u THEN None ELSE db.members[x]
    BY <2>1, RequestSteps, MemberGoes
  <2>4. PICK r : r = Moved(req[p], "notify", "blocked")
    OBVIOUS
  <2>5. r \in Request /\ Placed(r) /\ Follows(r, req[p]) /\ r.pc = "notify" /\ r.status = "blocked"
    <3>1. "blocked" \in Statuses
      BY DEF Statuses
    <3> QED BY <1>2, <2>4, <3>1, Phases, GoesOn
  <2>6. req' = [req EXCEPT ![p] = r]
    BY <2>2, <2>4, RequestSteps DEF Types, RequestTypes, Moved
  <2> QED BY <1>1, <1>3, <2>2, <2>3, <2>5, <2>6 DEF Removes, SetsRow, Becomes
<1> QED BY <1>4, <1>5, <1>6, <1>7

LEMMA NotifySteps ==
    ASSUME Types, NEW p \in Procs, NotifyDevices(p)
    PROVE  Notifies(p)
<1>1. PICK u \in Users : u = req[p].u /\ req[p].pc = "notify"
  BY RequestSteps DEF NotifyDevices, At, About, Opening
<1>2. PICK s \in Statuses : s = req[p].status
  BY <1>1, RequestSteps DEF Placed, Opening
<1>3. PICK d : d = SetSubscriptionStatusForUser(db, u, s)
  OBVIOUS
<1>4. db' = d
  BY <1>1, <1>2, <1>3, WritesDb DEF NotifyDevices, subStatusFor
<1>5. /\ Rewrites(db, d, u)
      /\ Sounds(d.subs[u]) => s = "active" \/ Sounds(db.subs[u])
      /\ u \in db.users /\ Sounds(d.subs[u]) => s = "active"
  BY <1>3, RequestSteps, NotifyWrites
<1> QED BY <1>1, <1>2, <1>4, <1>5 DEF Notifies, NotifyDevices, Finish, Ends, Calm

LEMMA OtherSteps ==
    ASSUME Types, NEW p \in Procs, CreateAPIKey(p) \/ CreateDelivery(p) \/ CreateComment(p)
    PROVE  Stops(p)
<1>1. Ends(p) /\ Calm /\ req[p].pc # "notify"
  BY DEF CreateAPIKey, CreateDelivery, CreateComment, Finish, Ends, Calm, At
<1>2. CASE CreateAPIKey(p)
  <2>1. PICK k \in Keys : Write([db EXCEPT !.keys[k] = "live"])
    BY <1>2 DEF CreateAPIKey
  <2>2. PICK f \in KeyTable : f = [db.keys EXCEPT ![k] = "live"]
    BY DEF Types, Database, KeyTable
  <2>3. db' = [db EXCEPT !.keys = f]
    BY <2>1, <2>2, WritesDb
  <2> QED BY <1>1, <2>3, FieldWrites, OtherTable DEF Types, Stops
<1>3. CASE CreateDelivery(p) /\ UNCHANGED rows
  BY <1>1, <1>3, Untouched DEF Stops, rows
<1>4. CASE CreateDelivery(p) /\ ~UNCHANGED rows
  <2>1. Write([db EXCEPT !.deliveries = @ \cup {req[p].arg}]) /\ req[p].pc = "deliver"
    BY <1>4 DEF CreateDelivery, At
  <2>2. PICK s \in SUBSET Messages : s = db.deliveries \cup {req[p].arg}
    BY <2>1, RequestSteps DEF Placed, Database
  <2>3. db' = [db EXCEPT !.deliveries = s]
    BY <2>1, <2>2, WritesDb
  <2> QED BY <1>1, <2>3, FieldWrites, OtherTable DEF Types, Stops
<1>5. CASE CreateComment(p)
  <2>1. PICK c \in Comments : /\ db.comments[c] = None
                             /\ Write([db EXCEPT !.comments[c] = [by |-> req[p].u, on |-> req[p].arg]])
    BY <1>5 DEF CreateComment
  <2>2. PICK x \in Comment : x = [by |-> req[p].u, on |-> req[p].arg]
    BY <1>5, RequestSteps DEF Placed, Comment, CreateComment, At
  <2>3. PICK f \in CommentTable : f = [db.comments EXCEPT ![c] = x]
    BY DEF Types, Database, CommentTable
  <2>4. db' = [db EXCEPT !.comments = f]
    BY <2>1, <2>2, <2>3, WritesDb
  <2>5. \A y \in Comments : db.comments[y] # None => f[y] \in {db.comments[y], None}
    BY <2>1, <2>3 DEF Types, Database, CommentTable
  <2>6. PICK e : e = [db EXCEPT !.comments = f]
    OBVIOUS
  <2>7. e \in Database /\ e.comments = f /\ Except(db, e, "comments")
    BY <2>6, FieldWrites DEF Types
  <2> QED BY <1>1, <2>4, <2>5, <2>6, <2>7, OtherTable DEF Stops
<1> QED BY <1>2, <1>3, <1>4, <1>5

LEMMA LoneSteps ==
    ASSUME Types,
           \/ \E c \in Channel : updateChannel(c)
           \/ \E k \in Keys : RevokeAPIKey(k)
           \/ \E c \in Comments : DeleteComment(c)
    PROVE  Aside
<1>1. ASSUME NEW c \in Channel, updateChannel(c) PROVE Aside
  <2>1. db' = [db EXCEPT !.channel = c]
    BY <1>1 DEF updateChannel
  <2>2. db.channel # None /\ c # None
    BY <1>1, ChannelsAssumption DEF updateChannel
  <2>3. PICK e : e = [db EXCEPT !.channel = c]
    OBVIOUS
  <2>4. e \in Database /\ e.channel = c /\ Except(db, e, "channel")
    BY <2>3, FieldWrites DEF Types
  <2> QED BY <1>1, <2>1, <2>2, <2>3, <2>4, OtherTable DEF Aside, Calm, updateChannel
<1>2. ASSUME NEW k \in Keys, RevokeAPIKey(k) PROVE Aside
  <2>1. PICK f \in KeyTable : f = [db.keys EXCEPT ![k] = "revoked"]
    BY DEF Types, Database, KeyTable
  <2>2. db' = [db EXCEPT !.keys = f]
    BY <1>2, <2>1, WritesDb DEF RevokeAPIKey
  <2> QED BY <1>2, <2>2, FieldWrites, OtherTable DEF Types, Aside, Calm, RevokeAPIKey
<1>3. ASSUME NEW c \in Comments, DeleteComment(c) PROVE Aside
  <2>1. PICK f \in CommentTable : f = [db.comments EXCEPT ![c] = None]
    BY DEF Types, Database, CommentTable
  <2>2. db' = [db EXCEPT !.comments = f]
    BY <1>3, <2>1, WritesDb DEF DeleteComment
  <2>3. \A y \in Comments : db.comments[y] # None => f[y] \in {db.comments[y], None}
    BY <2>1 DEF Types, Database, CommentTable
  <2>4. PICK e : e = [db EXCEPT !.comments = f]
    OBVIOUS
  <2>5. e \in Database /\ e.comments = f /\ Except(db, e, "comments")
    BY <2>4, FieldWrites DEF Types
  <2> QED BY <1>3, <2>2, <2>3, <2>4, <2>5, OtherTable DEF Aside, Calm, DeleteComment
<1> QED BY <1>1, <1>2, <1>3

LEMMA UnsubscribeSteps ==
    ASSUME Types, NEW u \in Users, unsubscribe(u)
    PROVE  Drops(u)
<1>1. PICK d : d = Unsubscribe(db, u)
  OBVIOUS
<1>2. db' = d
  BY <1>1, WritesDb DEF unsubscribe
<1>3. Rewrites(db, d, u) /\ (Sounds(d.subs[u]) => Sounds(db.subs[u]))
  BY <1>1, UnsubscribeWrites DEF Types
<1> QED BY <1>2, <1>3 DEF Drops, Calm, unsubscribe

LEMMA FaultSteps ==
    ASSUME Types, NEW p \in Procs, CallFails(p)
    PROVE  Fails(p)
BY Untouched DEF CallFails, Fails, Ends, Finish, rows

LEMMA Shorter ==
    ASSUME NEW T, NEW s, Only(s, T), Len(s) # 1
    PROVE  Only(Tail(s), T) /\ Len(s) > 1
<1>1. s \in Seq(SUBSET T) /\ Len(s) \in Nat /\ Len(s) # 0
  BY DEF Only
<1>2. Tail(s) \in Seq(SUBSET T) /\ Len(Tail(s)) = Len(s) - 1
  BY <1>1
<1>3. Len(s) > 1 /\ Len(Tail(s)) # 0 /\ Len(<<>>) = 0
  BY <1>1, <1>2
<1>4. Tail(s) # <<>>
  BY <1>3
<1> QED BY <1>2, <1>3, <1>4 DEF Only

LEMMA DeleteSteps ==
    ASSUME Types, NEW p \in Procs, DeleteStep(p)
    PROVE  Clears(p)
<1>1. PICK r \in Request : r = req[p] /\ Placed(r) /\ r.pc = "delete" /\ Scoped(r)
  BY RequestSteps DEF DeleteStep, At, Placed
<1>2. db' = Without(db, Head(r.todo), r.u, r.arg, r.ids) /\ Calm
  BY <1>1, WritesDb DEF DeleteStep, Calm
<1>3. Finish(p) \/ (Len(r.todo) # 1 /\ req' = [req EXCEPT ![p].todo = Tail(@)])
  BY <1>1 DEF DeleteStep
<1>4. ASSUME Len(r.todo) # 1, req' = [req EXCEPT ![p].todo = Tail(@)]
      PROVE  \E q : Becomes(p, q) /\ q.op = r.op /\ q.u = r.u /\ q.pc = "delete" /\ q.todo = Tail(r.todo)
                    /\ q.arg = r.arg /\ q.ids = r.ids /\ Len(r.todo) > 1
  <2>1. PICK t : t = Tail(r.todo)
    OBVIOUS
  <2>2. r.todo \in Seq(SUBSET Tables) /\ r.todo # <<>>
    BY <1>1 DEF Scoped, Only, Request
  <2>3. t \in Seq(SUBSET Tables) /\ Len(r.todo) > 1
    BY <1>4, <2>1, <2>2, Shorter DEF Only
  <2>4. PICK q : q = [r EXCEPT !.todo = t]
    OBVIOUS
  <2>5. /\ q \in Request /\ q.op = r.op /\ q.u = r.u /\ q.pc = r.pc /\ q.todo = t
        /\ q.arg = r.arg /\ q.ids = r.ids
    BY <1>1, <2>3, <2>4 DEF Request
  <2>6. Scoped(q)
    BY <1>1, <1>4, <2>1, <2>5, Shorter DEF Scoped
  <2>7. Placed(q)
    BY <1>1, <2>5, <2>6 DEF Placed, About, Opening
  <2>8. req' = [req EXCEPT ![p] = q]
    BY <1>1, <1>4, <2>1, <2>4
  <2> QED BY <1>1, <2>1, <2>3, <2>5, <2>7, <2>8 DEF Becomes
<1> QED BY <1>1, <1>2, <1>3, <1>4 DEF Clears, Finish, Ends

(***************************************************************************)
(* Every step is one of these.                                             *)
(***************************************************************************)
Step ==
    \/ Aside \/ \E u \in Users : Drops(u)
    \/ \E p \in Procs :
        \/ \E r : Starts(p, r)
        \/ Stops(p) \/ Fails(p) \/ Upserts(p) \/ Finds(p) \/ Subscribes(p)
        \/ SetsRole(p) \/ SetsStatus(p) \/ Removes(p) \/ Notifies(p)
        \/ DeleteStep(p) /\ Clears(p)

LEMMA StepsAre == ASSUME Types, Next PROVE Step
<1>1. CASE \/ \E c \in Channel : updateChannel(c)
           \/ \E k \in Keys : RevokeAPIKey(k)
           \/ \E c \in Comments : DeleteComment(c)
  BY <1>1, LoneSteps DEF Step
<1>2. ASSUME NEW u \in Users, unsubscribe(u) PROVE Step
  BY <1>2, UnsubscribeSteps DEF Step
<1>3. ASSUME NEW p \in Waiting,
        \/ createKey(p) \/ deleteChannel(p)
        \/ \E u \in Users :
              \/ \E device \in Users \cup {None}, route \in {"join", "subscribe"} : join(p, u, device, route)
              \/ leaveChannel(p, u) \/ deleteUser(p, u)
              \/ approveMember(p, u) \/ denyMember(p, u) \/ removeMember(p, u)
              \/ \E role \in GivenRoles \cup {None}, status \in Statuses \cup {None} :
                    updateMember(p, u, role, status)
        \/ \E m \in Messages : \/ CreateMessage(p, m) \/ deleteMessage(p, m)
                               \/ \E u \in Users : postComment(p, u, m)
      PROVE Step
  <2>1. p \in Procs
    BY DEF Waiting
  <2>2. \E r : Starts(p, r)
    BY <1>3, <2>1, OthersBegin, DeletesBegin, MembersBegin
  <2> QED BY <2>1, <2>2 DEF Step
<1>4. ASSUME NEW p \in Procs,
        \/ CreateAPIKey(p) \/ JoinUpsert(p) \/ Subscribe(p) \/ SubscribeWrite(p)
        \/ MemberRole(p) \/ MemberStatus(p) \/ MemberRemove(p) \/ NotifyDevices(p)
        \/ CreateDelivery(p) \/ CreateComment(p) \/ DeleteStep(p) \/ CallFails(p)
      PROVE Step
  <2>1. \/ Stops(p) \/ Fails(p) \/ Upserts(p) \/ Finds(p) \/ Subscribes(p)
        \/ SetsRole(p) \/ SetsStatus(p) \/ Removes(p) \/ Notifies(p)
        \/ DeleteStep(p) /\ Clears(p)
    BY <1>4, OtherSteps, JoinSteps, SubscribeSteps, ModerationSteps, NotifySteps, DeleteSteps, FaultSteps
  <2> QED BY <2>1 DEF Step
<1> QED BY <1>1, <1>2, <1>3, <1>4 DEF Next

LEMMA TypesStep == ASSUME Types, Next PROVE Types'
<1>1. Step
  BY StepsAre
<1>2. ASSUME NEW p \in Procs, NEW r, Becomes(p, r) PROVE RequestTypes'
  BY <1>2 DEF Types, RequestTypes, Becomes
<1>3. ASSUME NEW p \in Procs, Ends(p) PROVE RequestTypes'
  BY <1>2, <1>3, IdlePlaced DEF Ends, Becomes
<1>4. req' = req => RequestTypes'
  BY DEF Types, RequestTypes
<1>5. Aside \/ (\E u \in Users : Drops(u)) => Types'
  BY <1>4 DEF Aside, Drops, SameLists, Rewrites, Types
<1>6. ASSUME NEW p \in Procs, \/ \E r : Starts(p, r)
                              \/ Stops(p) \/ Fails(p) \/ Upserts(p) \/ Finds(p) \/ Subscribes(p)
                              \/ Notifies(p)
      PROVE  Types'
  BY <1>2, <1>3, <1>6 DEF Starts, Stops, Fails, Upserts, Finds, Subscribes, Notifies, SameLists, Rewrites, Types
<1>7. ASSUME NEW p \in Procs, SetsRole(p) \/ SetsStatus(p) \/ Removes(p) PROVE Types'
  BY <1>2, <1>7 DEF SetsRole, SetsStatus, Removes, SetsRow, Types
<1>8. ASSUME NEW p \in Procs, Clears(p) PROVE Types'
  <2>1. RequestTypes'
    BY <1>2, <1>3, <1>8 DEF Clears
  <2>2. db' \in Database
    <3>1. PICK tables, u, m, ids : db' = Without(db, tables, u, m, ids)
      BY <1>8 DEF Clears
    <3> QED BY <3>1, TablesGo DEF Types
  <2> QED BY <2>1, <2>2 DEF Types
<1> QED BY <1>1, <1>5, <1>6, <1>7, <1>8 DEF Step

(***************************************************************************)
(* Who hears a channel was let in                                          *)
(***************************************************************************)
\* Whoever has somebody else's device in hand is on record.
Named ==
    \A p \in Procs : \A v \in Lender(req[p]) : v \in disturbed /\ <<v, req[p].u>> \in lent

\* Besides the devices: whoever is an active member is on record, and so is the member with
\* whose status a request is about to open a device.
ByWayOf(v) == \E u \in admitted : u = v \/ <<v, u>> \in lent
AdmittedInv ==
    /\ \A u \in Users : IsActive(u) => u \in admitted
    /\ \A v \in Users : Hears(v) => ByWayOf(v)
    /\ \A p \in Procs : req[p].pc \in Opening /\ req[p].status = "active" => req[p].u \in admitted

LEMMA Written ==
    ASSUME Next
    PROVE  \/ UNCHANGED rows
           \/ \E d : Write(d)
           \/ \E p \in Procs : DeleteStep(p)
           \/ \E c \in Channel : updateChannel(c)
<1> DEFINE Done == \/ UNCHANGED rows
                   \/ \E d : Write(d)
                   \/ \E p \in Procs : DeleteStep(p)
                   \/ \E c \in Channel : updateChannel(c)
<1>1. (\E d : Write(d)) => Done
  OBVIOUS
<1>2. (\E k \in Keys : RevokeAPIKey(k)) => Done
  BY <1>1 DEF RevokeAPIKey
<1>3. (\E c \in Comments : DeleteComment(c)) => Done
  BY <1>1 DEF DeleteComment
<1>4. (\E u \in Users : unsubscribe(u)) => Done
  BY <1>1 DEF unsubscribe
<1>5. ASSUME NEW p, \/ createKey(p) \/ deleteChannel(p)
                    \/ \E u \in Users :
                        \/ \E device \in Users \cup {None}, route \in {"join", "subscribe"} : join(p, u, device, route)
                        \/ leaveChannel(p, u) \/ deleteUser(p, u)
                        \/ approveMember(p, u) \/ denyMember(p, u) \/ removeMember(p, u)
                        \/ \E role \in GivenRoles \cup {None}, status \in Statuses \cup {None} :
                              updateMember(p, u, role, status)
                    \/ \E m \in Messages : deleteMessage(p, m) \/ \E u \in Users : postComment(p, u, m)
      PROVE  Done
  BY <1>5 DEF createKey, deleteChannel, join, leaveChannel, deleteUser, approveMember, denyMember,
              removeMember, updateMember, deleteMessage, postComment
<1>6. ASSUME NEW p, NEW m, CreateMessage(p, m) PROVE Done
  BY <1>1, <1>6 DEF CreateMessage
<1>7. ASSUME NEW p, CreateAPIKey(p) \/ JoinUpsert(p) \/ Subscribe(p) \/ SubscribeWrite(p) PROVE Done
  BY <1>1, <1>7 DEF CreateAPIKey, JoinUpsert, Subscribe, SubscribeWrite
<1>8. ASSUME NEW p, MemberRole(p) \/ MemberStatus(p) \/ MemberRemove(p) \/ NotifyDevices(p) PROVE Done
  BY <1>1, <1>8 DEF MemberRole, MemberStatus, MemberRemove, NotifyDevices
<1>9. ASSUME NEW p \in Procs, CreateDelivery(p) \/ CreateComment(p) \/ DeleteStep(p) \/ CallFails(p)
      PROVE  Done
  <2>1. CreateDelivery(p) \/ CreateComment(p) => Done
    BY <1>1 DEF CreateDelivery, CreateComment
  <2>2. CallFails(p) => Done
    BY DEF CallFails
  <2> QED BY <1>9, <2>1, <2>2
<1> HIDE DEF Done
<1>10. ASSUME NEW p \in Waiting,
        \/ createKey(p) \/ deleteChannel(p)
        \/ \E u \in Users :
              \/ \E device \in Users \cup {None}, route \in {"join", "subscribe"} : join(p, u, device, route)
              \/ leaveChannel(p, u) \/ deleteUser(p, u)
              \/ approveMember(p, u) \/ denyMember(p, u) \/ removeMember(p, u)
              \/ \E role \in GivenRoles \cup {None}, status \in Statuses \cup {None} :
                    updateMember(p, u, role, status)
        \/ \E m \in Messages : \/ CreateMessage(p, m) \/ deleteMessage(p, m)
                               \/ \E u \in Users : postComment(p, u, m)
      PROVE Done
  BY <1>5, <1>6, <1>10
<1>11. ASSUME NEW p \in Procs,
        \/ CreateAPIKey(p) \/ JoinUpsert(p) \/ Subscribe(p) \/ SubscribeWrite(p)
        \/ MemberRole(p) \/ MemberStatus(p) \/ MemberRemove(p) \/ NotifyDevices(p)
        \/ CreateDelivery(p) \/ CreateComment(p) \/ DeleteStep(p) \/ CallFails(p)
      PROVE Done
  BY <1>7, <1>8, <1>9, <1>11
<1>12. Done
  <2>1. (\E c \in Channel : updateChannel(c)) => Done
    BY DEF Done
  <2> QED BY <2>1, <1>2, <1>3, <1>4, <1>10, <1>11 DEF Next
<1> QED BY <1>12 DEF Done

\* Nobody is struck off the record, and whoever becomes an active member is on it.
LEMMA Admits ==
    ASSUME Types, Next, \A u \in Users : IsActive(u) => u \in admitted
    PROVE  admitted \subseteq admitted' /\ \A u \in Users : IsActive(u)' => u \in admitted'
<1>1. CASE UNCHANGED rows
  BY <1>1 DEF rows, IsActive
<1>2. ASSUME NEW d, NEW taken, WriteTaking(d, taken) \/ Write(d)
      PROVE  admitted \subseteq admitted' /\ \A u \in Users : IsActive(u)' => u \in admitted'
  BY <1>2 DEF Write, WriteTaking, IsActive
<1>3. ASSUME NEW c \in Channel, updateChannel(c)
      PROVE  admitted \subseteq admitted' /\ \A u \in Users : IsActive(u)' => u \in admitted'
  <2>1. Aside
    BY <1>3, LoneSteps
  <2> QED BY <1>3, <2>1 DEF Aside, SameLists, IsActive, updateChannel
<1>4. ASSUME NEW p \in Procs, DeleteStep(p) PROVE \E d, taken : WriteTaking(d, taken)
  BY <1>4 DEF DeleteStep
<1> QED BY <1>1, <1>2, <1>3, <1>4, Written

LEMMA NamedStep == ASSUME Types, Next, Named PROVE Named' /\ lent \subseteq lent'
<1>1. Step
  BY StepsAre
<1>2. ASSUME lent \subseteq lent', disturbed \subseteq disturbed',
             NEW p \in Procs, NEW r, req' = [req EXCEPT ![p] = r],
             \/ Lender(r) = {}
             \/ Lender(r) = Lender(req[p]) /\ r.u = req[p].u
             \/ \A v \in Lender(r) : v \in disturbed' /\ <<v, r.u>> \in lent'
      PROVE  Named' /\ lent \subseteq lent'
  <2>1. req'[p] = r /\ \A q \in Procs : q # p => req'[q] = req[q]
    BY <1>2 DEF Types, RequestTypes
  <2>2. ASSUME NEW q \in Procs, NEW v \in Lender(req'[q]) PROVE v \in disturbed' /\ <<v, req'[q].u>> \in lent'
    BY <1>2, <2>1, <2>2 DEF Named
  <2>3. Named'
    BY <2>2 DEF Named, Lender
  <2> QED BY <1>2, <2>3
<1>3. Lender(Idle) = {}
  BY IdleIs, ChannelsAssumption DEF Lender, Ops
<1>4. ASSUME NEW r, NEW q, Follows(r, q) PROVE Lender(r) = Lender(q) /\ r.u = q.u
  BY <1>4 DEF Follows, Lender
<1>5. CASE Aside \/ \E u \in Users : Drops(u)
  BY <1>5 DEF Aside, Drops, Calm, Named
<1>6. ASSUME NEW p \in Procs, NEW r, Starts(p, r) PROVE Named' /\ lent \subseteq lent'
  <2>1. /\ req' = [req EXCEPT ![p] = r] /\ disturbed \subseteq disturbed' /\ lent \subseteq lent'
        /\ \A v \in Lender(r) : v \in disturbed' /\ <<v, r.u>> \in lent'
    BY <1>6 DEF Starts, Becomes
  <2> QED BY <1>2, <2>1
<1>7. ASSUME NEW p \in Procs, \/ Stops(p) \/ Fails(p) \/ Subscribes(p) \/ Notifies(p)
      PROVE  Named' /\ lent \subseteq lent'
  <2>1. req' = [req EXCEPT ![p] = Idle] /\ disturbed \subseteq disturbed' /\ lent \subseteq lent'
    BY <1>7 DEF Stops, Fails, Subscribes, Notifies, Ends, Calm
  <2> QED BY <1>2, <1>3, <2>1
<1>8. ASSUME NEW p \in Procs, Upserts(p) \/ Finds(p) \/ SetsRole(p) \/ SetsStatus(p) \/ Removes(p)
      PROVE  Named' /\ lent \subseteq lent'
  <2>1. PICK r : req' = [req EXCEPT ![p] = r] /\ (r = Idle \/ Follows(r, req[p]))
    BY <1>8 DEF Upserts, Finds, SetsRole, SetsStatus, Removes, SetsRow, Becomes, Ends
  <2>2. disturbed' = disturbed /\ lent' = lent
    BY <1>8 DEF Upserts, Finds, SetsRole, SetsStatus, Removes, SetsRow, Calm
  <2> QED BY <1>2, <1>3, <1>4, <2>1, <2>2
<1>9. ASSUME NEW p \in Procs, Clears(p) PROVE Named' /\ lent \subseteq lent'
  <2>1. PICK r : req' = [req EXCEPT ![p] = r] /\ (r = Idle \/ r.op = req[p].op)
    BY <1>9 DEF Clears, Becomes, Ends
  <2>2. disturbed' = disturbed /\ lent' = lent /\ Scoped(req[p])
    BY <1>9, RequestSteps DEF Clears, Calm, Placed
  <2>3. r = Idle \/ r.op # "join"
    BY <2>1, <2>2 DEF Scoped
  <2>4. Lender(r) = {}
    BY <1>3, <2>3 DEF Lender
  <2> QED BY <1>2, <2>1, <2>2, <2>4
<1> QED BY <1>1, <1>5, <1>6, <1>7, <1>8, <1>9 DEF Step

LEMMA AdmittedStep == ASSUME Types, Next, Named, AdmittedInv PROVE AdmittedInv'
<1>1. admitted \subseteq admitted' /\ \A u \in Users : IsActive(u)' => u \in admitted'
  BY Admits DEF AdmittedInv
<1>2. Step
  BY StepsAre
<1>3. ASSUME \A u \in Users : Hears(u)' => Hears(u) \/ ByWayOf(u),
             \A p \in Procs : req'[p].pc \in Opening /\ req'[p].status = "active" => req'[p].u \in admitted'
      PROVE  AdmittedInv'
  <2>1. lent \subseteq lent'
    BY NamedStep
  <2>2. \A v \in Users : ByWayOf(v) => ByWayOf(v)'
    BY <1>1, <2>1 DEF ByWayOf
  <2> QED BY <1>1, <1>3, <2>2 DEF AdmittedInv
<1>4. ASSUME NEW p \in Procs, NEW r, req' = [req EXCEPT ![p] = r],
             r.pc \in Opening /\ r.status = "active" => r.u \in admitted'
      PROVE  \A q \in Procs : req'[q].pc \in Opening /\ req'[q].status = "active" => req'[q].u \in admitted'
  BY <1>1, <1>4 DEF AdmittedInv, Types, RequestTypes
<1>5. ASSUME NEW p \in Procs, Ends(p)
      PROVE  \A q \in Procs : req'[q].pc \in Opening /\ req'[q].status = "active" => req'[q].u \in admitted'
  BY <1>4, <1>5, IdleIs DEF Ends, Opening
<1>6. SameLists => \A u \in Users : Hears(u)' => Hears(u)
  BY DEF SameLists, Hears
<1>7. CASE Aside
  BY <1>1, <1>3, <1>6, <1>7 DEF Aside, AdmittedInv
<1>8. ASSUME NEW u \in Users, Drops(u) PROVE AdmittedInv'
  BY <1>1, <1>3, <1>8 DEF Drops, Rewrites, Hears, AdmittedInv
<1>9. ASSUME NEW p \in Procs, NEW r, Starts(p, r) PROVE AdmittedInv'
  BY <1>3, <1>4, <1>6, <1>9 DEF Starts, Becomes
<1>10. ASSUME NEW p \in Procs, Stops(p) \/ Fails(p) PROVE AdmittedInv'
  BY <1>3, <1>5, <1>6, <1>10 DEF Stops, Fails
<1>11. ASSUME NEW p \in Procs, Upserts(p) PROVE AdmittedInv'
  <2>1. req[p].u \in Users
    BY <1>11, RequestSteps DEF Upserts, About
  <2>2. \A u \in Users : Hears(u)' => Hears(u)
    BY <1>11 DEF Upserts, Except, Hears
  <2>3. ASSUME NEW r, Becomes(p, r), Follows(r, req[p]), r.status = db'.members[req[p].u].status
        PROVE  AdmittedInv'
    <3>1. r.status = "active" => r.u \in admitted'
      BY <1>1, <1>11, <2>1, <2>3 DEF Upserts, IsActive, Follows
    <3> QED BY <1>3, <1>4, <2>2, <2>3, <3>1 DEF Becomes
  <2> QED BY <1>3, <1>5, <1>11, <2>2, <2>3 DEF Upserts
<1>12. ASSUME NEW p \in Procs, Finds(p) PROVE AdmittedInv'
  <2>1. PICK r : Becomes(p, r) /\ Follows(r, req[p]) /\ r.status = req[p].status /\ req[p].pc = "find"
    BY <1>12 DEF Finds
  <2>2. r.status = "active" => r.u \in admitted'
    BY <1>1, <2>1 DEF AdmittedInv, Opening, Follows
  <2> QED BY <1>3, <1>4, <1>6, <1>12, <2>1, <2>2 DEF Becomes, Finds
<1>13. ASSUME NEW p \in Procs, Subscribes(p) \/ Notifies(p) PROVE AdmittedInv'
  <2>1. PICK u \in Users, v \in Users : /\ u = req[p].u /\ (v = u \/ v \in Lender(req[p]))
                                        /\ Subscribes(p) => v = req[p].arg
                                        /\ Notifies(p) => v = u
    <3>1. req[p].u \in Users
      BY <1>13, RequestSteps DEF Subscribes, Notifies, About, Opening
    <3>2. CASE Notifies(p)
      BY <3>1, <3>2 DEF Notifies, Subscribes
    <3>3. CASE Subscribes(p)
      <4>1. req[p].arg \in Users /\ req[p].op = "join" /\ ~Notifies(p)
        BY <3>3, RequestSteps DEF Subscribes, Notifies, Placed, Devices
      <4> QED BY <3>1, <4>1 DEF Lender
    <3> QED BY <1>13, <3>2, <3>3
  <2>2. req[p].status = "active" => ByWayOf(v)
    BY <1>13, <2>1 DEF AdmittedInv, Named, ByWayOf, Subscribes, Notifies, Opening
  <2>3. \A x \in Users : Hears(x)' => Hears(x) \/ ByWayOf(x)
    BY <1>13, <2>1, <2>2 DEF Subscribes, Notifies, Rewrites, Hears
  <2> QED BY <1>3, <1>5, <1>13, <2>3 DEF Subscribes, Notifies
<1>14. ASSUME NEW p \in Procs, SetsRole(p) \/ SetsStatus(p) \/ Removes(p) PROVE AdmittedInv'
  <2>1. req[p].u \in Users
    BY <1>14, RequestSteps DEF SetsRole, SetsStatus, Removes, About
  <2>2. PICK r : /\ Becomes(p, r) /\ Except(db, db', "members")
                 /\ \/ r = Idle \/ r.pc = "status" \/ r.status = "blocked"
                    \/ /\ r.u = req[p].u /\ r.status = db'.members[req[p].u].status
                       /\ db'.members[req[p].u] # None
    BY <1>14 DEF SetsRole, SetsStatus, Removes, SetsRow, Follows
  <2>3. \A u \in Users : Hears(u)' => Hears(u)
    BY <2>2 DEF Except, Hears
  <2>4. r.pc \in Opening /\ r.status = "active" => r.u \in admitted'
    BY <1>1, <2>1, <2>2, IdleIs DEF Opening, IsActive
  <2> QED BY <1>3, <1>4, <2>2, <2>3, <2>4 DEF Becomes
<1>15. ASSUME NEW p \in Procs, Clears(p) PROVE AdmittedInv'
  <2>1. PICK tables, u, m, ids : db' = Without(db, tables, u, m, ids)
    BY <1>15 DEF Clears
  <2>2. PICK e : e = Without(db, tables, u, m, ids)
    OBVIOUS
  <2>3. \A x \in Users : e.subs[x] = <<>> \/ e.subs[x] = db.subs[x]
    BY <2>2, TablesGo DEF Types
  <2>4. \A x \in Users : Hears(x)' => Hears(x)
    BY <2>1, <2>2, <2>3 DEF Hears, Sounds
  <2>5. \/ Ends(p)
        \/ \E q : Becomes(p, q) /\ q.pc = "delete"
    BY <1>15 DEF Clears
  <2> QED BY <1>3, <1>4, <1>5, <2>4, <2>5 DEF Becomes, Opening
<1> QED BY <1>2, <1>7, <1>8, <1>9, <1>10, <1>11, <1>12, <1>13, <1>14, <1>15 DEF Step

LEMMA InitTypes == ASSUME Init PROVE Types /\ Named /\ AdmittedInv
<1>1. PICK mode \in Modes :
          db = [users |-> Users, channel |-> [mode |-> mode, status |-> "active"],
                members |-> [u \in Users |-> None], subs |-> [u \in Users |-> <<>>],
                keys |-> [k \in Keys |-> None], messages |-> {}, deliveries |-> {},
                comments |-> [c \in Comments |-> None]]
  BY DEF Init
<1>2. [mode |-> mode, status |-> "active"] \in Channel \cup {None}
  BY DEF Channel
<1>3. [u \in Users |-> None] \in MemberTable /\ [k \in Keys |-> None] \in KeyTable
      /\ [c \in Comments |-> None] \in CommentTable
  BY DEF MemberTable, KeyTable, CommentTable
<1>4. [u \in Users |-> <<>>] \in SubTable
  <2>1. <<>> \in Seq(Subscription)
    OBVIOUS
  <2> QED BY <2>1 DEF SubTable
<1>5. db \in Database
  BY <1>1, <1>2, <1>3, <1>4 DEF Database
<1>6. RequestTypes
  BY IdlePlaced DEF Init, RequestTypes
<1>7. \A u \in Users : ~IsActive(u) /\ ~Hears(u)
  BY <1>1 DEF IsActive, Hears, Sounds
<1>8. \A p \in Procs : req[p].pc \notin Opening
  BY IdleIs DEF Init, Opening
<1>9. Named
  BY IdleIs, ChannelsAssumption DEF Init, Named, Lender, Ops
<1> QED BY <1>5, <1>6, <1>7, <1>8, <1>9 DEF Types, AdmittedInv

LEMMA TypesHold == Spec => [](Types /\ Named /\ AdmittedInv)
<1>1. ASSUME Types, Named, AdmittedInv, [Next]_vars PROVE (Types /\ Named /\ AdmittedInv)'
  <2>1. CASE Next
    BY <1>1, <2>1, TypesStep, NamedStep, AdmittedStep
  <2>2. CASE UNCHANGED vars
    <3>1. Types' /\ Named'
      BY <1>1, <2>2 DEF vars, rows, Types, RequestTypes, Named
    <3>2. AdmittedInv'
      BY <1>1, <2>2 DEF vars, rows, AdmittedInv, IsActive, Hears, ByWayOf
    <3> QED BY <3>1, <3>2
  <2> QED BY <1>1, <2>1, <2>2
<1> QED BY InitTypes, <1>1, PTL DEF Spec

\* However joins, approvals, blocks, departures and deletes interleave, whichever of them
\* fail, and on either store, a device is active only by way of somebody who has been an active
\* member, its owner or a caller who named it: the status a request carries from the membership
\* to the device is one the membership had (join, SetSubscriptionStatusForUser).
THEOREM AdmittedOnly == Spec => []NobodyHearsUnadmitted
<1>1. Types /\ AdmittedInv => NobodyHearsUnadmitted
  BY DEF NobodyHearsUnadmitted, AdmittedInv, ByWayOf, Types, Database, ActiveDevicesForChannel, Hears, Sounds
<1> QED BY TypesHold, <1>1, PTL

(***************************************************************************)
(* The devices of whoever is out are silent                                *)
(***************************************************************************)
LEMMA ConcernsAre ==
    ASSUME NEW r, NEW q
    PROVE  /\ Concerns(Idle) = {}
           /\ r.op \in {"join", "leave", "moderate"} => Concerns(r) = {r.u}
           /\ r.op = q.op /\ r.u = q.u => Concerns(r) = Concerns(q)
           /\ r.op = "delete channel" \/ (r.op = "delete user" /\ r.u = Owner) => Concerns(r) = Users
           /\ r.op = "delete user" /\ r.u # Owner => Concerns(r) = {r.u}
<1>1. Concerns(Idle) = {}
  BY IdleIs, ChannelsAssumption DEF Concerns, Ops
<1> QED BY <1>1 DEF Concerns

\* An account that is still there has an active device only as an active member.
Quiet(u) == u \in db.users /\ Hears(u) => IsActive(u)
\* The devices of u go no later than the membership.
Outlives(r, u) ==
    \A i \in 1 .. Len(r.todo) : MemberGone(r.todo[i], r.u, u) =>
        db.subs[u] = <<>> \/ \E j \in 1 .. i : SubGone(r.todo[j], r.u, u)

OneEach ==
    \A u \in Users \ disturbed : \A p, q \in Procs :
        u \in Concerns(req[p]) /\ u \in Concerns(req[q]) => p = q
Backed ==
    \A p \in Procs : req[p].pc \in Opening /\ req[p].status = "active" /\ req[p].u \notin disturbed
                     => IsActive(req[p].u)
QuietInv ==
    \A u \in Users \ disturbed : Quiet(u) \/ \E p \in Procs : req[p].pc = "notify" /\ req[p].u = u
DevicesFirst ==
    \A p \in Procs : \A u \in Users \ disturbed : u \in Concerns(req[p]) => Outlives(req[p], u)
\* Nobody but the one request about a user touches the membership and the devices, and what
\* it leaves between two calls is what its next call puts right.
SilentInv == OneEach /\ Backed /\ QuietInv /\ DevicesFirst

LEMMA OwnConcern ==
    ASSUME Types, NEW p \in Procs, req[p].pc \in About
    PROVE  req[p].u \in Users /\ Concerns(req[p]) = {req[p].u}
BY RequestSteps, ConcernsAre DEF Placed

\* Before its request has changed the membership, a user's devices are as they should be.
LEMMA Alone ==
    ASSUME Types, SilentInv, NEW p \in Procs, req[p].pc # "notify",
           NEW u \in Users, u \notin disturbed, u \in Concerns(req[p])
    PROVE  Quiet(u)
<1>1. SUFFICES ASSUME NEW q \in Procs, req[q].pc = "notify", req[q].u = u PROVE FALSE
  BY DEF SilentInv, QuietInv
<1>2. u \in Concerns(req[q])
  BY <1>1, OwnConcern DEF About, Opening
<1> QED BY <1>1, <1>2 DEF SilentInv, OneEach

\* What a step of request p has to show.
LEMMA SilentFrame ==
    ASSUME Types, SilentInv, NEW p \in Procs, NEW r, req' = [req EXCEPT ![p] = r],
           Concerns(r) \subseteq Concerns(req[p]), disturbed \subseteq disturbed',
           db'.users \subseteq db.users,
           \A x \in Users : x \notin Concerns(req[p]) /\ x \notin disturbed' =>
                db'.members[x] = db.members[x] /\ db'.subs[x] = db.subs[x],
           \A u \in Users : u \notin disturbed' /\ u \in Concerns(req[p]) =>
                Quiet(u)' \/ (r.pc = "notify" /\ r.u = u),
           r.pc \in Opening /\ r.status = "active" /\ r.u \notin disturbed' => IsActive(r.u)',
           \A u \in Users : u \notin disturbed' /\ u \in Concerns(r) => Outlives(r, u)'
    PROVE  SilentInv'
<1>1. req'[p] = r /\ \A q \in Procs : q # p => req'[q] = req[q]
  BY DEF Types, RequestTypes
<1>2. ASSUME NEW q \in Procs PROVE Concerns(req'[q]) \subseteq Concerns(req[q])
  BY <1>1
<1>3. OneEach'
  <2>1. SUFFICES ASSUME NEW u \in Users, u \notin disturbed', NEW a \in Procs, NEW b \in Procs,
                        u \in Concerns(req'[a]), u \in Concerns(req'[b])
                 PROVE  a = b
    BY DEF OneEach, Concerns
  <2> QED BY <1>2, <2>1 DEF SilentInv, OneEach
<1>4. ASSUME NEW q \in Procs, q # p, NEW u \in Users, u \notin disturbed', u \in Concerns(req[q])
      PROVE  u \notin disturbed /\ db'.members[u] = db.members[u] /\ db'.subs[u] = db.subs[u]
  BY <1>4 DEF SilentInv, OneEach
<1>5. Backed'
  <2>1. SUFFICES ASSUME NEW q \in Procs, q # p, req[q].pc \in Opening, req[q].status = "active",
                        req[q].u \notin disturbed'
                 PROVE  IsActive(req[q].u)'
    BY <1>1 DEF Backed
  <2>2. req[q].u \in Users /\ req[q].u \in Concerns(req[q])
    BY <2>1, OwnConcern DEF About
  <2>3. IsActive(req[q].u)
    BY <2>1, <1>4, <2>2 DEF SilentInv, Backed
  <2> QED BY <2>1, <2>2, <2>3, <1>1, <1>4 DEF IsActive
<1>6. QuietInv'
  <2>1. SUFFICES ASSUME NEW u \in Users, u \notin disturbed'
                 PROVE  Quiet(u)' \/ \E q \in Procs : req'[q].pc = "notify" /\ req'[q].u = u
    BY DEF QuietInv
  <2>2. CASE u \in Concerns(req[p])
    BY <1>1, <2>1, <2>2
  <2>3. CASE u \notin Concerns(req[p]) /\ Quiet(u)
    <3>1. db'.members[u] = db.members[u] /\ db'.subs[u] = db.subs[u]
      BY <2>1, <2>3
    <3> QED BY <2>3, <3>1 DEF Quiet, Hears, IsActive
  <2>4. ASSUME u \notin Concerns(req[p]), NEW q \in Procs, req[q].pc = "notify", req[q].u = u
        PROVE  \E a \in Procs : req'[a].pc = "notify" /\ req'[a].u = u
    <3>1. u \in Concerns(req[q])
      BY <2>4, OwnConcern DEF About, Opening
    <3> QED BY <1>1, <2>4, <3>1
  <2> QED BY <2>1, <2>2, <2>3, <2>4 DEF SilentInv, QuietInv
<1>7. DevicesFirst'
  <2>1. SUFFICES ASSUME NEW q \in Procs, NEW u \in Users, u \notin disturbed', u \in Concerns(req'[q])
                 PROVE  Outlives(req[q], u)' 
    BY DEF DevicesFirst, Concerns
  <2>2. CASE q = p
    BY <1>1, <2>1, <2>2 DEF Outlives
  <2>3. CASE q # p
    <3>1. u \in Concerns(req[q]) /\ req'[q] = req[q]
      BY <1>1, <2>1, <2>3
    <3>2. u \notin disturbed /\ db'.subs[u] = db.subs[u]
      BY <1>4, <2>1, <2>3, <3>1
    <3>3. Outlives(req[q], u)
      BY <3>1, <3>2 DEF SilentInv, DevicesFirst
    <3> QED BY <3>1, <3>2, <3>3 DEF Outlives
  <2> QED BY <2>2, <2>3
<1> QED BY <1>3, <1>5, <1>6, <1>7 DEF SilentInv

\* A request that keeps the lists, or ends.
LEMMA SilentEnds ==
    ASSUME Types, SilentInv, NEW p \in Procs, Stops(p) \/ Fails(p)
    PROVE  SilentInv'
<1>1. req' = [req EXCEPT ![p] = Idle] /\ SameLists /\ disturbed \subseteq disturbed'
  BY DEF Stops, Fails, Ends, Calm
<1>2. ASSUME NEW u \in Users, u \notin disturbed', u \in Concerns(req[p]) PROVE Quiet(u)'
  <2>1. req[p].pc # "notify" /\ u \notin disturbed
    BY <1>2 DEF Stops, Fails, Calm
  <2>2. Quiet(u)
    BY <1>2, <2>1, Alone
  <2> QED BY <1>1, <2>2 DEF Quiet, SameLists, Hears, IsActive
<1>3. Concerns(Idle) = {} /\ Idle.pc \notin Opening
  BY ConcernsAre, IdleIs DEF Opening
<1> QED BY <1>1, <1>2, <1>3, SilentFrame DEF SameLists

LEMMA SilentStarts ==
    ASSUME Types, SilentInv, NEW p \in Procs, NEW r, Starts(p, r)
    PROVE  SilentInv'
<1>1. /\ SameLists /\ r \in Request /\ Placed(r) /\ req' = [req EXCEPT ![p] = r] /\ r.pc \notin Opening
      /\ req[p] = Idle
      /\ disturbed' = disturbed \cup
            {u \in Concerns(r) : \E q \in Procs \ {p} : u \in Concerns(req[q])} \cup Lender(r)
  BY RequestSteps DEF Starts, Becomes, Placed
<1>2. req'[p] = r /\ \A q \in Procs : q # p => req'[q] = req[q]
  BY <1>1 DEF Types, RequestTypes
<1>3. OneEach'
  <2>1. SUFFICES ASSUME NEW u \in Users, u \notin disturbed', NEW a \in Procs, NEW b \in Procs,
                        u \in Concerns(req'[a]), u \in Concerns(req'[b])
                 PROVE  a = b
    BY DEF OneEach, Concerns
  <2>2. u \notin disturbed /\ (u \in Concerns(r) => \A q \in Procs \ {p} : u \notin Concerns(req[q]))
    BY <1>1, <2>1
  <2> QED BY <1>2, <2>1, <2>2 DEF SilentInv, OneEach
<1>4. Backed'
  <2>1. SUFFICES ASSUME NEW q \in Procs, req'[q].pc \in Opening, req'[q].status = "active",
                        req'[q].u \notin disturbed'
                 PROVE  db'.members[req'[q].u] # None /\ db'.members[req'[q].u].status = "active"
    BY DEF Backed, IsActive
  <2>2. q # p /\ req'[q] = req[q] /\ req[q].u \notin disturbed
    BY <1>1, <1>2, <2>1
  <2>3. IsActive(req[q].u)
    BY <2>1, <2>2 DEF SilentInv, Backed
  <2> QED BY <1>1, <2>2, <2>3 DEF IsActive, SameLists
<1>5. QuietInv'
  <2>1. SUFFICES ASSUME NEW u \in Users, u \notin disturbed'
                 PROVE  Quiet(u)' \/ \E q \in Procs : req'[q].pc = "notify" /\ req'[q].u = u
    BY DEF QuietInv
  <2>2. Quiet(u) => Quiet(u)'
    BY <1>1 DEF Quiet, Hears, IsActive, SameLists
  <2>3. \A q \in Procs : req[q].pc = "notify" => q # p
    BY <1>1, IdleIs
  <2> QED BY <1>1, <1>2, <2>1, <2>2, <2>3 DEF SilentInv, QuietInv
<1>6. DevicesFirst'
  <2>1. SUFFICES ASSUME NEW q \in Procs, NEW u \in Users, u \notin disturbed', u \in Concerns(req'[q])
                 PROVE  Outlives(req[q], u)'
    BY DEF DevicesFirst, Concerns
  <2>2. CASE q # p
    <3>1. req'[q] = req[q] /\ u \notin disturbed /\ u \in Concerns(req[q])
      BY <1>1, <1>2, <2>1, <2>2
    <3>2. Outlives(req[q], u)
      BY <3>1 DEF SilentInv, DevicesFirst
    <3> QED BY <1>1, <3>1, <3>2 DEF Outlives, SameLists
  <2>3. CASE q = p /\ r.pc # "delete"
    <3>1. req'[q].todo = <<>>
      BY <1>1, <1>2, <2>3 DEF Placed
    <3> QED BY <3>1 DEF Outlives
  <2>4. CASE q = p /\ r.pc = "delete"
    <3>1. Before(r.todo, "subscriptions", "channelMembers")
          /\ Before(r.todo, "user's subscriptions", "user's memberships")
      BY <2>4 DEF Starts, Deletes, Ordered
    <3>2. ASSUME NEW i \in 1 .. Len(r.todo), MemberGone(r.todo[i], r.u, u)
          PROVE  \E j \in 1 .. i : SubGone(r.todo[j], r.u, u)
      <4>1. CASE "channelMembers" \in r.todo[i]
        BY <3>1, <4>1 DEF Before, SubGone
      <4>2. CASE "user's memberships" \in r.todo[i] /\ u = r.u
        BY <3>1, <4>2 DEF Before, SubGone
      <4> QED BY <3>2, <4>1, <4>2 DEF MemberGone
    <3> QED BY <1>2, <2>4, <3>2 DEF Outlives
  <2> QED BY <2>2, <2>3, <2>4
<1> QED BY <1>3, <1>4, <1>5, <1>6 DEF SilentInv

LEMMA SilentAside ==
    ASSUME Types, SilentInv, Aside \/ \E u \in Users : Drops(u)
    PROVE  SilentInv'
<1>1. req' = req /\ disturbed' = disturbed /\ db'.users = db.users /\ db'.members = db.members
  BY DEF Aside, Drops, Calm, Rewrites, SameLists, Except
<1>2. \A u \in Users : Hears(u)' => Hears(u)
  BY DEF Aside, Drops, Rewrites, SameLists, Hears
<1>3. \A u \in Users : db.subs[u] = <<>> => db'.subs[u] = <<>>
  BY DEF Aside, Drops, Rewrites, SameLists
<1>4. OneEach' /\ Backed'
  <2>1. OneEach'
    BY <1>1 DEF SilentInv, OneEach
  <2>2. Backed'
    BY <1>1 DEF SilentInv, Backed, IsActive
  <2> QED BY <2>1, <2>2
<1>5. QuietInv'
  BY <1>1, <1>2 DEF SilentInv, QuietInv, Quiet, IsActive
<1>6. DevicesFirst'
  <2>1. SUFFICES ASSUME NEW q \in Procs, NEW u \in Users, u \notin disturbed', u \in Concerns(req'[q])
                 PROVE  Outlives(req[q], u)'
    BY DEF DevicesFirst, Concerns
  <2>2. Outlives(req[q], u)
    BY <1>1, <2>1 DEF SilentInv, DevicesFirst
  <2> QED BY <1>1, <1>3, <2>2 DEF Outlives
<1> QED BY <1>4, <1>5, <1>6 DEF SilentInv

LEMMA SilentJoins ==
    ASSUME Types, Named, SilentInv, NEW p \in Procs, Upserts(p) \/ Finds(p) \/ Subscribes(p)
    PROVE  SilentInv'
<1>1. req[p].pc \in {"upsert", "find", "insertSub", "updateSub"} /\ Calm
  BY DEF Upserts, Finds, Subscribes
<1>2. PICK u \in Users : u = req[p].u /\ Concerns(req[p]) = {u}
  BY <1>1, OwnConcern DEF About, Opening
<1>3. u \notin disturbed => Quiet(u)
  BY <1>1, <1>2, Alone
<1>4. u \notin disturbed /\ req[p].pc # "upsert" /\ req[p].status = "active" => IsActive(u)
  BY <1>1, <1>2 DEF SilentInv, Backed, Opening
<1>5. ASSUME NEW r, \/ r = Idle
                    \/ Follows(r, req[p]) /\ r.pc # "delete" /\ Placed(r)
      PROVE  Concerns(r) \subseteq Concerns(req[p]) /\ \A x : Outlives(r, x)'
  <2>1. Concerns(r) \subseteq Concerns(req[p])
    BY <1>5, ConcernsAre DEF Follows
  <2>2. r.todo = <<>>
    BY <1>5, IdleIs DEF Placed
  <2>3. 1 .. Len(r.todo) = {}
    BY <2>2
  <2> QED BY <2>1, <2>3 DEF Outlives
<1>6. CASE Upserts(p)
  <2>1. PICK r : /\ req' = [req EXCEPT ![p] = r]
                 /\ \/ r = Idle
                    \/ /\ Follows(r, req[p]) /\ Placed(r) /\ r.pc = "find"
                       /\ r.status = db'.members[u].status
    BY <1>2, <1>6 DEF Upserts, Ends, Becomes
  <2>2. db'.members[u] # None /\ db'.subs = db.subs /\ db'.users = db.users
        /\ \A x \in Users : x # u \/ db.members[x] # None => db'.members[x] = db.members[x]
    BY <1>2, <1>6 DEF Upserts, Except
  <2>3. u \notin disturbed => Quiet(u)'
    BY <1>3, <2>2 DEF Quiet, Hears, IsActive
  <2>4. r.pc \in Opening /\ r.status = "active" => IsActive(r.u)'
    BY <1>2, <2>1, <2>2, IdleIs DEF IsActive, Follows, Opening
  <2> QED BY <1>1, <1>2, <1>5, <2>1, <2>2, <2>3, <2>4, SilentFrame DEF Calm
<1>7. CASE Finds(p)
  <2>1. PICK r : /\ req' = [req EXCEPT ![p] = r] /\ Follows(r, req[p]) /\ Placed(r) /\ r.pc # "delete"
                 /\ r.status = req[p].status
    BY <1>7 DEF Finds, Becomes
  <2>2. SameLists /\ req[p].pc = "find"
    BY <1>7 DEF Finds
  <2>3. u \notin disturbed => Quiet(u)'
    BY <1>3, <2>2 DEF Quiet, Hears, IsActive, SameLists
  <2>4. r.u \notin disturbed /\ r.status = "active" => IsActive(r.u)'
    BY <1>2, <1>4, <2>1, <2>2 DEF IsActive, Follows, SameLists
  <2> QED BY <1>1, <1>2, <1>5, <2>1, <2>2, <2>3, <2>4, SilentFrame DEF Calm, SameLists
<1>8. CASE Subscribes(p)
  <2>1. req' = [req EXCEPT ![p] = Idle] /\ req[p].pc # "upsert"
    BY <1>8 DEF Subscribes, Ends
  <2>2. PICK v \in Users : v = req[p].arg /\ (v = u \/ v \in disturbed)
    <3>1. req[p].arg \in Users /\ req[p].op = "join"
      BY <1>8, RequestSteps DEF Subscribes, Placed, Devices
    <3> QED BY <1>2, <3>1 DEF Named, Lender
  <2>3. /\ db'.members = db.members /\ db'.users = db.users
        /\ \A x \in Users : x # v => db'.subs[x] = db.subs[x]
        /\ Sounds(db'.subs[v]) => req[p].status = "active" \/ Sounds(db.subs[v])
    BY <1>8, <2>2 DEF Subscribes, Rewrites, Except
  <2>4. u \notin disturbed => Quiet(u)'
    <3>1. CASE v = u
      BY <1>3, <1>4, <2>1, <2>3, <3>1 DEF Quiet, Hears, IsActive
    <3>2. CASE v # u
      BY <1>3, <2>3, <3>2 DEF Quiet, Hears, IsActive
    <3> QED BY <3>1, <3>2
  <2>5. Idle.pc \notin Opening
    BY IdleIs DEF Opening
  <2>6. disturbed' = disturbed /\ db'.users \subseteq db.users
    BY <1>1, <2>3 DEF Calm
  <2>7. \A x \in Users : x \notin Concerns(req[p]) /\ x \notin disturbed' =>
            db'.members[x] = db.members[x] /\ db'.subs[x] = db.subs[x]
    BY <1>2, <2>2, <2>3, <2>6
  <2> QED BY <1>2, <1>5, <2>1, <2>4, <2>5, <2>6, <2>7, SilentFrame
<1> QED BY <1>6, <1>7, <1>8

LEMMA SilentModerates ==
    ASSUME Types, SilentInv, NEW p \in Procs, SetsRole(p) \/ SetsStatus(p) \/ Removes(p) \/ Notifies(p)
    PROVE  SilentInv'
<1>1. req[p].pc \in {"role", "status", "remove", "notify"} /\ Calm
  BY DEF SetsRole, SetsStatus, Removes, Notifies, SetsRow
<1>2. PICK u \in Users : u = req[p].u /\ Concerns(req[p]) = {u}
  BY <1>1, OwnConcern DEF About, Opening
<1>3. ASSUME NEW r, \/ r = Idle
                    \/ Follows(r, req[p]) /\ r.pc # "delete" /\ Placed(r)
      PROVE  Concerns(r) \subseteq Concerns(req[p]) /\ \A x : Outlives(r, x)'
  <2>1. Concerns(r) \subseteq Concerns(req[p])
    BY <1>3, ConcernsAre DEF Follows
  <2>2. r.todo = <<>>
    BY <1>3, IdleIs DEF Placed
  <2>3. 1 .. Len(r.todo) = {}
    BY <2>2
  <2> QED BY <2>1, <2>3 DEF Outlives
<1>4. CASE SetsRole(p)
  <2>1. PICK r : /\ req' = [req EXCEPT ![p] = r]
                 /\ r = Idle \/ (Follows(r, req[p]) /\ r.pc = "status" /\ Placed(r))
    BY <1>4 DEF SetsRole, SetsRow, Becomes
  <2>2. /\ db'.subs = db.subs /\ db'.users = db.users
        /\ \A x \in Users : x # u => db'.members[x] = db.members[x]
        /\ db'.members[u] # None /\ db'.members[u].status = db.members[u].status
        /\ req[p].pc = "role" /\ db.members[u] # None
    BY <1>2, <1>4 DEF SetsRole, SetsRow, Except
  <2>3. u \notin disturbed => Quiet(u)
    BY <1>2, <2>2, Alone
  <2>4. u \notin disturbed => Quiet(u)'
    BY <2>2, <2>3 DEF Quiet, Hears, IsActive
  <2>5. r.pc \notin Opening
    BY <2>1, IdleIs DEF Opening
  <2> QED BY <1>1, <1>2, <1>3, <2>1, <2>2, <2>4, <2>5, SilentFrame DEF Calm
<1>5. CASE SetsStatus(p) \/ Removes(p)
  <2>1. PICK r : /\ req' = [req EXCEPT ![p] = r]
                 /\ Follows(r, req[p]) /\ r.pc = "notify" /\ Placed(r)
                 /\ \/ db'.members[u] # None /\ db'.members[u].status = r.status
                    \/ r.status = "blocked"
    BY <1>2, <1>5 DEF SetsStatus, Removes, SetsRow, Becomes
  <2>2. /\ db'.subs = db.subs /\ db'.users = db.users
        /\ \A x \in Users : x # u => db'.members[x] = db.members[x]
    BY <1>2, <1>5 DEF SetsStatus, Removes, SetsRow, Except
  <2>3. r.status = "active" => IsActive(r.u)'
    BY <1>2, <2>1 DEF IsActive, Follows
  <2>4. r.u = u
    BY <1>2, <2>1 DEF Follows
  <2> QED BY <1>1, <1>2, <1>3, <2>1, <2>2, <2>3, <2>4, SilentFrame DEF Calm
<1>6. CASE Notifies(p)
  <2>1. req' = [req EXCEPT ![p] = Idle] /\ req[p].pc = "notify"
    BY <1>6 DEF Notifies, Ends
  <2>2. db'.members = db.members /\ db'.users = db.users
        /\ \A x \in Users : x # u => db'.subs[x] = db.subs[x]
    BY <1>2, <1>6 DEF Notifies, Rewrites, Except
  <2>3. u \notin disturbed /\ req[p].status = "active" => IsActive(u)
    BY <1>2, <2>1 DEF SilentInv, Backed, Opening
  <2>4. u \notin disturbed => Quiet(u)'
    BY <1>2, <1>6, <2>2, <2>3 DEF Quiet, Hears, IsActive, Notifies
  <2>5. PICK r : r = Idle
    OBVIOUS
  <2>6. /\ Concerns(r) \subseteq Concerns(req[p]) /\ (\A x : Outlives(r, x)')
        /\ r.pc \notin Opening /\ req' = [req EXCEPT ![p] = r]
    BY <1>3, <2>1, <2>5, IdleIs DEF Opening
  <2>7. \A x \in Users : x \notin Concerns(req[p]) =>
            db'.members[x] = db.members[x] /\ db'.subs[x] = db.subs[x]
    BY <1>2, <2>2
  <2>8. /\ disturbed \subseteq disturbed' /\ db'.users \subseteq db.users
        /\ \A x \in Users : x \notin disturbed' /\ x \in Concerns(req[p]) => Quiet(x)'
    BY <1>1, <1>2, <2>2, <2>4 DEF Calm
  <2> QED BY <2>6, <2>7, <2>8, SilentFrame
<1> QED BY <1>4, <1>5, <1>6

\* A delete leaves alone whom it is not about.
LEMMA Spares ==
    ASSUME NEW r, Scoped(r), NEW tables, tables = Head(r.todo),
           NEW x \in Users, x \notin Concerns(r)
    PROVE  ~MemberGone(tables, r.u, x) /\ ~SubGone(tables, r.u, x)
<1>1. ASSUME NEW T, Only(r.todo, T) PROVE tables \subseteq T
  BY <1>1 DEF Only
<1>2. ASSUME tables \subseteq MessagesOwn \/ (tables \subseteq UsersOwn /\ x # r.u)
      PROVE  ~MemberGone(tables, r.u, x) /\ ~SubGone(tables, r.u, x)
  BY <1>2 DEF MessagesOwn, UsersOwn, MemberGone, SubGone
<1>3. CASE r.op = "delete message"
  BY <1>1, <1>2, <1>3 DEF Scoped
<1>4. CASE r.op = "delete user" /\ r.u # Owner
  BY <1>1, <1>2, <1>4, ConcernsAre DEF Scoped
<1> QED BY <1>3, <1>4, ConcernsAre DEF Scoped

LEMMA SilentClears ==
    ASSUME Types, SilentInv, NEW p \in Procs, Clears(p)
    PROVE  SilentInv'
<1>1. PICK r \in Request : r = req[p] /\ Placed(r) /\ r.pc = "delete" /\ Scoped(r)
  BY RequestSteps DEF Clears, Placed
<1>2. PICK tables : tables = Head(r.todo)
  OBVIOUS
<1>3. r.todo \in Seq(SUBSET Tables) /\ r.todo # <<>>
  BY <1>1 DEF Request, Scoped, Only
<1>4. Len(r.todo) \in Nat /\ Len(r.todo) > 0 /\ tables = r.todo[1]
  BY <1>2, <1>3
<1>5. PICK e : e = Without(db, tables, r.u, r.arg, r.ids)
  OBVIOUS
<1>6. db' = e /\ Calm
  BY <1>1, <1>2, <1>5 DEF Clears
<1>7. /\ e.users \subseteq db.users
      /\ \A x \in Users : /\ MemberGone(tables, r.u, x) => e.members[x] = None
                          /\ ~MemberGone(tables, r.u, x) => e.members[x] = db.members[x]
                          /\ SubGone(tables, r.u, x) => e.subs[x] = <<>>
                          /\ ~SubGone(tables, r.u, x) => e.subs[x] = db.subs[x]
  BY <1>5, TablesGo DEF Types
<1>8. \A x \in Users : x \notin Concerns(r) => e.members[x] = db.members[x] /\ e.subs[x] = db.subs[x]
  BY <1>1, <1>2, <1>7, Spares
<1>9. ASSUME NEW u \in Users, u \notin disturbed, u \in Concerns(r)
      PROVE  /\ MemberGone(tables, r.u, u) => e.subs[u] = <<>>
             /\ db.subs[u] = <<>> => e.subs[u] = <<>>
             /\ Outlives(r, u)
  <2>1. Outlives(r, u)
    BY <1>1, <1>9 DEF SilentInv, DevicesFirst
  <2>2. MemberGone(tables, r.u, u) => db.subs[u] = <<>> \/ SubGone(tables, r.u, u)
    BY <1>4, <2>1 DEF Outlives
  <2> QED BY <1>7, <2>1, <2>2
<1>10. ASSUME NEW u \in Users, u \notin disturbed, u \in Concerns(r) PROVE Quiet(u)'
  <2>1. Quiet(u)
    BY <1>1, <1>10, Alone
  <2>2. e.subs[u] = <<>> \/ (e.subs[u] = db.subs[u] /\ e.members[u] = db.members[u])
    BY <1>7, <1>9, <1>10
  <2> QED BY <1>6, <1>7, <2>1, <2>2 DEF Quiet, Hears, Sounds, IsActive
<1>11. CASE Ends(p)
  <2>1. Concerns(Idle) = {} /\ Idle.pc \notin Opening
    BY ConcernsAre, IdleIs DEF Opening
  <2> QED BY <1>1, <1>6, <1>7, <1>8, <1>10, <1>11, <2>1, SilentFrame DEF Ends, Calm
<1>12. CASE ~Ends(p)
  <2>1. PICK q : /\ req' = [req EXCEPT ![p] = q] /\ q.op = r.op /\ q.u = r.u /\ q.pc = "delete"
                 /\ q.todo = Tail(r.todo)
    BY <1>1, <1>12 DEF Clears, Becomes
  <2>2. Concerns(q) = Concerns(r)
    BY <2>1, ConcernsAre
  <2>3. Len(q.todo) = Len(r.todo) - 1 /\ \A i \in 1 .. Len(q.todo) : q.todo[i] = r.todo[i + 1]
    BY <1>3, <2>1
  <2>4. ASSUME NEW u \in Users, u \notin disturbed, u \in Concerns(r) PROVE Outlives(q, u)'
    <3>1. SUFFICES ASSUME NEW i \in 1 .. Len(q.todo), MemberGone(q.todo[i], q.u, u), e.subs[u] # <<>>
                   PROVE  \E j \in 1 .. i : SubGone(q.todo[j], q.u, u)
      BY <1>6 DEF Outlives
    <3>2. i + 1 \in 1 .. Len(r.todo) /\ MemberGone(r.todo[i + 1], r.u, u)
      BY <1>4, <2>1, <2>3, <3>1
    <3>3. PICK j \in 1 .. i + 1 : SubGone(r.todo[j], r.u, u)
      BY <1>9, <2>4, <3>1, <3>2 DEF Outlives
    <3>4. j # 1
      BY <1>4, <1>7, <3>1, <3>3
    <3>5. j - 1 \in 1 .. i /\ q.todo[j - 1] = r.todo[j]
      BY <1>4, <2>3, <3>1, <3>3, <3>4
    <3> QED BY <2>1, <3>3, <3>5
  <2>5. q.pc \notin Opening
    BY <2>1 DEF Opening
  <2> QED BY <1>1, <1>6, <1>7, <1>8, <1>10, <2>1, <2>2, <2>4, <2>5, SilentFrame DEF Calm
<1> QED BY <1>11, <1>12

LEMMA SilentStep == ASSUME Types, Named, Next, SilentInv PROVE SilentInv'
BY StepsAre, SilentAside, SilentStarts, SilentEnds, SilentJoins, SilentModerates, SilentClears DEF Step

LEMMA InitSilent == ASSUME Init PROVE SilentInv
<1>1. \A p \in Procs : req[p] = Idle
  BY DEF Init
<1>2. \A p \in Procs : Concerns(req[p]) = {} /\ req[p].pc \notin Opening
  BY <1>1, ConcernsAre, IdleIs DEF Opening
<1>3. \A u \in Users : ~Hears(u)
  BY DEF Init, Hears, Sounds
<1> QED BY <1>2, <1>3 DEF SilentInv, OneEach, Backed, QuietInv, Quiet, DevicesFirst

\* The devices of whoever is not an active member are silent once every request about them is
\* done, on either store and through any joins, approvals, blocks, removals, departures and
\* deletes, unless two of those requests overlapped, a call of one failed or somebody else named
\* the device (join, SetSubscriptionStatusForUser, leaveChannel, DeleteChannel, DeleteUser).
THEOREM SilentOutsiders == Spec => []OutsidersHearNothing
<1>1. ASSUME Types, Named, SilentInv, [Next]_vars PROVE SilentInv'
  <2>1. CASE Next
    BY <1>1, <2>1, SilentStep
  <2>2. CASE UNCHANGED vars
    <3>1. req' = req /\ db' = db /\ disturbed' = disturbed
      BY <2>2 DEF vars, rows
    <3>2. OneEach' /\ DevicesFirst'
      BY <1>1, <3>1 DEF SilentInv, OneEach, DevicesFirst, Outlives
    <3>3. Backed' /\ QuietInv'
      BY <1>1, <3>1 DEF SilentInv, Backed, QuietInv, Quiet, IsActive, Hears
    <3> QED BY <3>2, <3>3 DEF SilentInv
  <2> QED BY <1>1, <2>1, <2>2
<1>2. Types /\ SilentInv => OutsidersHearNothing
  <2>1. SUFFICES ASSUME Types, SilentInv, NEW u \in db.users, Sounds(db.subs[u]), u \notin disturbed,
                        \A p \in Procs : u \notin Concerns(req[p])
                 PROVE  IsActive(u)
    BY DEF OutsidersHearNothing, ActiveDevicesForChannel, Sounds
  <2>2. u \in Users
    BY <2>1 DEF Types, Database
  <2>3. \A p \in Procs : ~(req[p].pc = "notify" /\ req[p].u = u)
    BY <2>1, OwnConcern DEF About, Opening
  <2> QED BY <2>1, <2>2, <2>3 DEF SilentInv, QuietInv, Quiet, Hears
<1> QED BY TypesHold, InitSilent, <1>1, <1>2, PTL DEF Spec

(***************************************************************************)
(* What is deleted leaves nothing behind that was there before             *)
(***************************************************************************)
LEMMA RowsAre ==
    ASSUME NEW d, NEW row
    PROVE  row \in Rows(d) <=>
           \/ \E u \in Users : row = <<"member", u>> /\ d.members[u] # None
           \/ \E u \in Users : row = <<"sub", u>> /\ d.subs[u] # <<>>
           \/ \E k \in Keys : row = <<"key", k>> /\ d.keys[k] # None
           \/ \E m \in d.messages : row = <<"message", m>>
           \/ \E m \in d.deliveries : row = <<"delivery", m>>
           \/ \E c \in Comments : row = <<"comment", c>> /\ d.comments[c] # None
BY DEF Rows

LEMMA ParentsAre ==
    ASSUME NEW d, NEW k
    PROVE  /\ Parents(d, <<"member", k>>) = {<<"channel", None>>, <<"user", k>>}
           /\ Parents(d, <<"sub", k>>) = {<<"channel", None>>, <<"user", k>>}
           /\ Parents(d, <<"key", k>>) = {<<"channel", None>>}
           /\ Parents(d, <<"message", k>>) = {<<"channel", None>>}
           /\ Parents(d, <<"delivery", k>>) = {<<"channel", None>>, <<"message", k>>}
           /\ Parents(d, <<"comment", k>>) = {<<"channel", None>>, <<"user", d.comments[k].by>>,
                                              <<"message", d.comments[k].on>>}
BY DEF Parents

\* The row is among what the tables take from d, in a request r.
Covers(d, tables, u, m, ids, row) ==
    \/ row[1] = "member" /\ MemberGone(tables, u, row[2])
    \/ row[1] = "sub" /\ SubGone(tables, u, row[2])
    \/ row[1] = "key" /\ "apiKeys" \in tables
    \/ row[1] = "message" /\ ("messages" \in tables \/ ("message" \in tables /\ row[2] = m))
    \/ row[1] = "delivery" /\ \/ "deliveries" \in tables /\ ("messages" \in tables \/ row[2] \in ids)
                              \/ "its deliveries" \in tables /\ row[2] = m
    \/ row[1] = "comment" /\ \/ "comments" \in tables
                             \/ "its comments" \in tables /\ d.comments[row[2]].on = m
                             \/ "user's comments" \in tables /\ d.comments[row[2]].by = u
Takes(d, tables, r, row) == Covers(d, tables, r.u, r.arg, r.ids, row)

\* With these tables x itself goes.
Parent(tables, r, x) ==
    \/ x[1] = "channel" /\ "channels" \in tables
    \/ x[1] = "user" /\ "user" \in tables /\ x[2] = r.u
    \/ x[1] = "message" /\ "message" \in tables /\ x[2] = r.arg

\* A row that was not there before is no row of e; one that is was not taken, unless it is a
\* delivery of a message that is not stored.
LEMMA CoveredGoes ==
    ASSUME NEW d \in Database, NEW tables, NEW u, NEW m, NEW ids, NEW e, e = Without(d, tables, u, m, ids),
           "deliveries" \in tables => "its deliveries" \notin tables, NEW row, row \in Rows(e)
    PROVE  /\ row \in Rows(d)
           /\ row[1] = "comment" => e.comments[row[2]] = d.comments[row[2]]
           /\ Covers(d, tables, u, m, ids, row) => row[1] = "delivery" /\ row[2] \notin d.messages
<1>1. CASE \E x \in Users : row = <<"member", x>> /\ e.members[x] # None
  <2>1. PICK x \in Users : row = <<"member", x>> /\ e.members[x] # None
    BY <1>1
  <2>2. ~MemberGone(tables, u, x) /\ d.members[x] # None
    BY <2>1 DEF Without, MemberGone
  <2> QED BY <2>1, <2>2, RowsAre DEF Covers
<1>2. CASE \E x \in Users : row = <<"sub", x>> /\ e.subs[x] # <<>>
  <2>1. PICK x \in Users : row = <<"sub", x>> /\ e.subs[x] # <<>>
    BY <1>2
  <2>2. ~SubGone(tables, u, x) /\ d.subs[x] # <<>>
    BY <2>1 DEF Without, SubGone
  <2> QED BY <2>1, <2>2, RowsAre DEF Covers
<1>3. CASE \E k \in Keys : row = <<"key", k>> /\ e.keys[k] # None
  <2>1. PICK k \in Keys : row = <<"key", k>> /\ e.keys[k] # None
    BY <1>3
  <2>2. "apiKeys" \notin tables /\ d.keys[k] # None
    BY <2>1 DEF Without
  <2> QED BY <2>1, <2>2, RowsAre DEF Covers
<1>4. CASE \E y \in e.messages : row = <<"message", y>>
  <2>1. PICK y \in e.messages : row = <<"message", y>>
    BY <1>4
  <2>2. "messages" \notin tables /\ ("message" \in tables => y # m) /\ y \in d.messages
    BY <2>1 DEF Without
  <2> QED BY <2>1, <2>2, RowsAre DEF Covers
<1>5. CASE \E y \in e.deliveries : row = <<"delivery", y>>
  <2>1. PICK y \in e.deliveries : row = <<"delivery", y>>
    BY <1>5
  <2>2. /\ y \in d.deliveries
        /\ "deliveries" \in tables => y \notin (IF "messages" \in tables THEN d.messages ELSE ids)
        /\ "deliveries" \notin tables /\ "its deliveries" \in tables => y # m
    BY <2>1 DEF Without
  <2> QED BY <2>1, <2>2, RowsAre DEF Covers
<1>6. CASE \E c \in Comments : row = <<"comment", c>> /\ e.comments[c] # None
  <2>1. PICK c \in Comments : row = <<"comment", c>> /\ e.comments[c] # None
    BY <1>6
  <2>2. /\ e.comments[c] = d.comments[c] /\ d.comments[c] # None /\ "comments" \notin tables
        /\ "its comments" \in tables => d.comments[c].on # m
        /\ "user's comments" \in tables => d.comments[c].by # u
    BY <2>1 DEF Without
  <2> QED BY <2>1, <2>2, RowsAre DEF Covers
<1> QED BY <1>1, <1>2, <1>3, <1>4, <1>5, <1>6 DEF Rows

Old(row) == row \in Rows(db) /\ row \notin late

\* A delete takes what hangs off x no later than x: it is this that lets a failed delete be
\* repeated, and not the row of x alone.
ParentLast ==
    \A p \in Procs : \A i \in 1 .. Len(req[p].todo) : \A row : Old(row) =>
        \A x \in Parents(db, row) : Parent(req[p].todo[i], req[p], x) =>
            \E j \in 1 .. i : Takes(db, req[p].todo[j], req[p], row)
\* A delivery from before is found through its message, so the messages must not go first.
Stored == \A m : Old(<<"delivery", m>>) => m \in db.messages
DeliveriesFirst ==
    \A p \in Procs : \A i \in 1 .. Len(req[p].todo) : "messages" \in req[p].todo[i] =>
        \A m : Old(<<"delivery", m>>) =>
            \E j \in 1 .. i : Takes(db, req[p].todo[j], req[p], <<"delivery", m>>)
ChannelLast == \A p \in Procs : ChannelFollows(req[p].todo)
DeleteInv == ParentLast /\ Stored /\ DeliveriesFirst /\ ChannelLast /\ NothingOldSurvivesDelete

\* A row that hangs off nothing that is gone or going.
Sound(d, row) ==
    \A x \in Parents(d, row) :
        ~Gone(d, x) /\ ~BeingDeleted(x) /\ (x[1] = "message" => x[2] \in d.messages)

LEMMA NewRows ==
    ASSUME Types, NEW d, NEW taken, WriteTaking(d, taken), NEW row, row \in Rows(db'), row \notin late'
    PROVE  Old(row) \/ (row \notin Rows(db) /\ Sound(db', row))
<1>1. db' = d /\ late' = (late \cap Rows(d)) \cup
          {x \in Rows(d) \ Rows(db) :
              \E y \in Parents(d, x) :
                  Gone(d, y) \/ BeingDeleted(y) \/ (y[1] = "message" /\ y[2] \notin d.messages)}
  BY DEF WriteTaking
<1>2. row \in Rows(d)
  BY <1>1
<1>3. CASE row \in Rows(db)
  BY <1>1, <1>2, <1>3 DEF Old
<1>4. CASE row \notin Rows(db)
  <2>1. ~\E y \in Parents(d, row) :
             Gone(d, y) \/ BeingDeleted(y) \/ (y[1] = "message" /\ y[2] \notin d.messages)
    BY <1>1, <1>2, <1>4
  <2> QED BY <1>1, <1>4, <2>1 DEF Sound
<1> QED BY <1>3, <1>4

\* What a delete under way is about to take away is being deleted.
LEMMA Underway ==
    ASSUME Types, NEW p \in Procs, NEW i \in 1 .. Len(req[p].todo), NEW x,
           Parent(req[p].todo[i], req[p], x)
    PROVE  BeingDeleted(x)
<1>1. PICK r \in Request : r = req[p] /\ Placed(r)
  BY RequestSteps
<1>2. r.todo \in Seq(SUBSET Tables) /\ i \in DOMAIN r.todo /\ r.todo # <<>>
  BY <1>1 DEF Request
<1>3. Scoped(r)
  BY <1>1, <1>2 DEF Placed
<1>4. ASSUME NEW T, Only(r.todo, T) PROVE r.todo[i] \subseteq T
  BY <1>2, <1>4 DEF Only
<1>5. CASE x[1] = "channel" /\ "channels" \in r.todo[i]
  <2>1. "channels" \in UNION {r.todo[j] : j \in DOMAIN r.todo}
    BY <1>2, <1>5
  <2> QED BY <1>1, <1>2, <1>5, <2>1 DEF BeingDeleted
<1>6. CASE x[1] = "user" /\ "user" \in r.todo[i] /\ x[2] = r.u
  <2>1. r.op = "delete user"
    <3>1. "user" \notin ChannelsOwn /\ "user" \notin MessagesOwn
      BY DEF ChannelsOwn, MessagesOwn, ChannelTables
    <3> QED BY <1>3, <1>4, <1>6, <3>1 DEF Scoped
  <2> QED BY <1>1, <1>2, <1>6, <2>1 DEF BeingDeleted
<1>7. CASE x[1] = "message" /\ "message" \in r.todo[i] /\ x[2] = r.arg
  <2>1. r.op = "delete message"
    <3>1. "message" \notin ChannelsOwn /\ "message" \notin UsersOwn
      BY DEF ChannelsOwn, UsersOwn, ChannelTables
    <3> QED BY <1>3, <1>4, <1>7, <3>1 DEF Scoped
  <2> QED BY <1>1, <1>2, <1>7, <2>1 DEF BeingDeleted
<1> QED BY <1>1, <1>5, <1>6, <1>7 DEF Parent

\* The parents of a comment are those it was written with.
LEMMA SameParents ==
    ASSUME NEW d, NEW e, NEW row, row \in Rows(e),
           row[1] = "comment" => e.comments[row[2]] = d.comments[row[2]]
    PROVE  /\ Parents(e, row) = Parents(d, row)
           /\ \A tables, r : Takes(e, tables, r, row) <=> Takes(d, tables, r, row)
<1>1. Parents(e, row) = Parents(d, row)
  <2>1. row[1] \in {"member", "sub", "key", "message", "delivery", "comment"}
    BY RowsAre
  <2> QED BY <2>1 DEF Parents
<1>2. ASSUME NEW tables, NEW r PROVE Takes(e, tables, r, row) <=> Takes(d, tables, r, row)
  BY DEF Takes, Covers
<1> QED BY <1>1, <1>2

\* The requests under way have no more to take away than they had.
NoMore == \A q \in Procs : req'[q] = req[q] \/ req'[q].todo = <<>>

LEMMA Todos ==
    ASSUME Types, Next
    PROVE  \/ SameLists /\ NoMore
           \/ db' \in Database /\ Kept(db, db') /\ NoMore
           \/ \E p \in Procs : \E r : Starts(p, r) /\ r.pc = "delete"
           \/ \E p \in Procs : DeleteStep(p) /\ Clears(p)
<1>1. ASSUME NEW p \in Procs, NEW r, Becomes(p, r), r.pc # "delete" PROVE NoMore
  BY <1>1 DEF Becomes, Placed, NoMore, Types, RequestTypes
<1>2. ASSUME NEW p \in Procs, Ends(p) PROVE NoMore
  BY <1>2, IdleIs DEF Ends, NoMore, Types, RequestTypes
<1>3. req' = req => NoMore
  BY DEF NoMore
<1>4. ASSUME NEW e, NEW t, t \in {"members", "subs"}, Except(db, e, t) PROVE Kept(db, e)
  BY <1>4 DEF Except, Kept
<1>5. CASE Aside \/ \E u \in Users : Drops(u)
  BY <1>3, <1>4, <1>5 DEF Aside, Drops, Rewrites
<1>6. ASSUME NEW p \in Procs, NEW r, Starts(p, r), r.pc # "delete" PROVE SameLists /\ NoMore
  BY <1>1, <1>6 DEF Starts
<1>7. ASSUME NEW p \in Procs, Stops(p) \/ Fails(p) \/ Finds(p) PROVE SameLists /\ NoMore
  BY <1>1, <1>2, <1>7 DEF Stops, Fails, Finds
<1>8. ASSUME NEW p \in Procs, Upserts(p) PROVE db' \in Database /\ Kept(db, db') /\ NoMore
  BY <1>1, <1>2, <1>4, <1>8 DEF Upserts
<1>9. ASSUME NEW p \in Procs, Subscribes(p) \/ Notifies(p) PROVE db' \in Database /\ Kept(db, db') /\ NoMore
  BY <1>2, <1>4, <1>9 DEF Subscribes, Notifies, Rewrites
<1>10. ASSUME NEW p \in Procs, SetsRole(p) \/ SetsStatus(p) \/ Removes(p)
       PROVE  db' \in Database /\ Kept(db, db') /\ NoMore
  <2>1. PICK r : /\ Becomes(p, r) /\ db' \in Database /\ Except(db, db', "members")
                 /\ r = Idle \/ r.pc \in {"status", "notify"}
    BY <1>10 DEF SetsRole, SetsStatus, Removes, SetsRow
  <2>2. r.pc # "delete"
    BY <2>1, IdleIs
  <2> QED BY <1>1, <1>4, <2>1, <2>2
<1> QED BY StepsAre, <1>5, <1>6, <1>7, <1>8, <1>9, <1>10 DEF Step

LEMMA WrittenNotTaken ==
    ASSUME Types, Next, NEW row, row \in Rows(db'), row \notin late'
    PROVE  \/ Old(row) \/ (row \notin Rows(db) /\ Sound(db', row))
           \/ \E p \in Procs : DeleteStep(p)
<1>1. ASSUME NEW d, Write(d) PROVE Old(row) \/ (row \notin Rows(db) /\ Sound(db', row))
  BY <1>1, NewRows DEF Write
<1>2. UNCHANGED rows => Old(row)
  BY DEF rows, Old
<1>3. ASSUME NEW c \in Channel, updateChannel(c) PROVE Old(row)
  <2>1. db' = [db EXCEPT !.channel = c] /\ late' = late
    BY <1>3 DEF updateChannel
  <2>2. PICK e : e = [db EXCEPT !.channel = c]
    OBVIOUS
  <2>3. e \in Database /\ Except(db, e, "channel")
    BY <2>2, FieldWrites DEF Types
  <2>4. Rows(e) = Rows(db)
    BY <2>3 DEF Except, Rows
  <2> QED BY <2>1, <2>2, <2>4 DEF Old
<1> QED BY Written, <1>1, <1>2, <1>3

\* A row from before keeps its parents through a step that deletes nothing.
LEMMA OldStays ==
    ASSUME NEW row, Old(row), row \in Rows(db'), Kept(db, db')
    PROVE  /\ Parents(db', row) = Parents(db, row)
           /\ \A tables, r : Takes(db', tables, r, row) <=> Takes(db, tables, r, row)
<1>1. row[1] = "comment" => row[2] \in Comments /\ db.comments[row[2]] # None /\ db'.comments[row[2]] # None
  <2>1. row[1] = "comment" /\ row \in Rows(db) => row[2] \in Comments /\ db.comments[row[2]] # None
    BY DEF Rows
  <2>2. row[1] = "comment" => db'.comments[row[2]] # None
    BY DEF Rows
  <2> QED BY <2>1, <2>2 DEF Old
<1>2. row[1] = "comment" => db'.comments[row[2]] = db.comments[row[2]]
  BY <1>1 DEF Kept
<1> QED BY <1>2, SameParents

LEMMA RowKinds ==
    ASSUME NEW d, NEW row, row \in Rows(d), NEW x \in Parents(d, row)
    PROVE  x[1] \in {"channel", "user", "message"}
<1>1. row[1] \in {"member", "sub", "key", "message", "delivery", "comment"}
  BY RowsAre
<1> QED BY <1>1 DEF Parents

\* A step that deletes nothing.
LEMMA KeepsOld ==
    ASSUME Types, Next, DeleteInv, Kept(db, db'), NoMore, \A p \in Procs : ~DeleteStep(p)
    PROVE  DeleteInv'
<1>1. removed' = removed
  <2>1. ASSUME NEW d, Write(d) PROVE removed' = removed
    BY <2>1 DEF Write, WriteTaking
  <2> QED BY <2>1, Written DEF rows, updateChannel
<1>2. ASSUME NEW row, Old(row)'
      PROVE  /\ row \in Rows(db')
             /\ \/ /\ Old(row) /\ Parents(db', row) = Parents(db, row)
                   /\ \A tables, r : Takes(db', tables, r, row) <=> Takes(db, tables, r, row)
                \/ Sound(db', row)
  <2>1. row \in Rows(db') /\ row \notin late'
    BY <1>2 DEF Old
  <2>2. Old(row) \/ Sound(db', row)
    BY <2>1, WrittenNotTaken
  <2> QED BY <2>1, <2>2, OldStays
<1>3. ASSUME NEW q \in Procs, NEW i \in 1 .. Len(req'[q].todo) PROVE req'[q] = req[q]
  BY <1>3 DEF NoMore
<1>4. ParentLast'
  <2>1. SUFFICES ASSUME NEW q \in Procs, NEW i \in 1 .. Len(req'[q].todo), NEW row, Old(row)',
                        NEW x \in Parents(db', row), Parent(req'[q].todo[i], req'[q], x)
                 PROVE  \E j \in 1 .. i : Takes(db', req'[q].todo[j], req'[q], row)
    BY DEF ParentLast
  <2>2. req'[q] = req[q]
    BY <1>3
  <2>3. BeingDeleted(x)
    BY <2>1, <2>2, Underway
  <2>4. Old(row) /\ Parents(db', row) = Parents(db, row)
        /\ \A tables, r : Takes(db', tables, r, row) <=> Takes(db, tables, r, row)
    BY <1>2, <2>1, <2>3 DEF Sound
  <2>5. PICK j \in 1 .. i : Takes(db, req[q].todo[j], req[q], row)
    BY <2>1, <2>2, <2>4 DEF DeleteInv, ParentLast
  <2> QED BY <2>2, <2>4, <2>5
<1>5. Stored'
  <2>1. SUFFICES ASSUME NEW m, Old(<<"delivery", m>>)' PROVE m \in db'.messages
    BY DEF Stored
  <2>2. CASE Old(<<"delivery", m>>)
    BY <2>2 DEF DeleteInv, Stored, Kept
  <2>3. CASE Sound(db', <<"delivery", m>>)
    <3>1. <<"message", m>> \in Parents(db', <<"delivery", m>>)
      BY ParentsAre
    <3> QED BY <2>3, <3>1 DEF Sound
  <2> QED BY <1>2, <2>1, <2>2, <2>3
<1>6. DeliveriesFirst'
  <2>1. SUFFICES ASSUME NEW q \in Procs, NEW i \in 1 .. Len(req'[q].todo), "messages" \in req'[q].todo[i],
                        NEW m, Old(<<"delivery", m>>)'
                 PROVE  \E j \in 1 .. i : Takes(db', req'[q].todo[j], req'[q], <<"delivery", m>>)
    BY DEF DeliveriesFirst
  <2>2. req'[q] = req[q]
    BY <1>3
  <2>3. PICK row : row = <<"delivery", m>>
    OBVIOUS
  <2>4. ~Sound(db', row)
    <3>1. PICK k \in i .. Len(req[q].todo) : "channels" \in req[q].todo[k]
      BY <2>1, <2>2 DEF DeleteInv, ChannelLast, ChannelFollows
    <3>2. PICK x : x = <<"channel", None>>
      OBVIOUS
    <3>3. k \in 1 .. Len(req[q].todo) /\ Parent(req[q].todo[k], req[q], x)
      BY <2>1, <2>2, <3>1, <3>2 DEF Parent
    <3>4. BeingDeleted(x)
      BY <3>3, Underway
    <3>5. x \in Parents(db', row)
      BY <2>3, <3>2, ParentsAre
    <3> QED BY <3>4, <3>5 DEF Sound
  <2>5. Old(row) /\ \A tables, r : Takes(db', tables, r, row) <=> Takes(db, tables, r, row)
    BY <1>2, <2>1, <2>3, <2>4
  <2>6. PICK j \in 1 .. i : Takes(db, req[q].todo[j], req[q], row)
    BY <2>1, <2>2, <2>3, <2>5 DEF DeleteInv, DeliveriesFirst
  <2> QED BY <2>2, <2>3, <2>5, <2>6
<1>7. ChannelLast'
  <2>1. ASSUME NEW q \in Procs PROVE ChannelFollows(req'[q].todo)
    <3>1. CASE req'[q] = req[q]
      BY <3>1 DEF DeleteInv, ChannelLast
    <3>2. CASE req'[q].todo = <<>>
      <4>1. 1 .. Len(req'[q].todo) = {}
        BY <3>2
      <4> QED BY <4>1 DEF ChannelFollows
    <3> QED BY <3>1, <3>2 DEF NoMore
  <2> QED BY <2>1 DEF ChannelLast
<1>8. NothingOldSurvivesDelete'
  <2>1. SUFFICES ASSUME NEW row, Old(row)', NEW x \in Parents(db', row) PROVE ~Gone(db, x)'
    BY DEF NothingOldSurvivesDelete, Old
  <2>2. x[1] \in {"channel", "user", "message"}
    BY <1>2, <2>1, RowKinds
  <2>3. CASE Sound(db', row)
    BY <1>1, <2>2, <2>3 DEF Sound, Gone
  <2>4. CASE Old(row) /\ Parents(db', row) = Parents(db, row)
    <3>1. ~Gone(db, x)
      BY <2>1, <2>4 DEF DeleteInv, NothingOldSurvivesDelete, Old
    <3> QED BY <1>1, <2>2, <3>1 DEF Gone, Kept
  <2> QED BY <1>2, <2>1, <2>3, <2>4
<1> QED BY <1>4, <1>5, <1>6, <1>7, <1>8 DEF DeleteInv

LEMMA RowIs ==
    ASSUME NEW d, NEW row, row \in Rows(d)
    PROVE  /\ row[1] \in {"member", "sub", "key", "message", "delivery", "comment"}
           /\ row[1] = "delivery" => row = <<"delivery", row[2]>>
<1>1. row[1] \in {"member", "sub", "key", "message", "delivery", "comment"}
  BY RowsAre
<1>2. row[1] = "delivery" => row = <<"delivery", row[2]>>
  BY RowsAre
<1> QED BY <1>1, <1>2

LEMMA ParentIs ==
    ASSUME NEW d, NEW row, row \in Rows(d), NEW x \in Parents(d, row)
    PROVE  x = <<"channel", None>> \/ (\E k : x = <<"user", k>>) \/ (\E k : x = <<"message", k>>)
<1>1. row[1] \in {"member", "sub", "key", "message", "delivery", "comment"}
  BY RowIs
<1>2. CASE row[1] \in {"member", "sub", "key", "message", "delivery"}
  BY <1>2 DEF Parents
<1>3. CASE row[1] = "comment"
  BY <1>3 DEF Parents
<1> QED BY <1>1, <1>2, <1>3

LEMMA Within ==
    ASSUME NEW r \in Request, NEW i \in 1 .. Len(r.todo), NEW T, Only(r.todo, T)
    PROVE  r.todo[i] \subseteq T
<1>1. PICK s : s = r.todo
  OBVIOUS
<1>2. s \in Seq(SUBSET T) /\ i \in 1 .. Len(s)
  BY <1>1 DEF Only
<1>3. s[i] \in SUBSET T
  BY <1>2
<1> QED BY <1>1, <1>3

\* A delete begins: what it will take of the rows there are, it takes in order.
LEMMA BeginsOrdered ==
    ASSUME Types, Stored, NEW r \in Request, Scoped(r), Ordered(r.todo),
           r.op # "delete message" => r.ids = db.messages,
           NEW i \in 1 .. Len(r.todo), NEW row, Old(row)
    PROVE  /\ \A x \in Parents(db, row) : Parent(r.todo[i], r, x) =>
                \E j \in 1 .. i : Takes(db, r.todo[j], r, row)
           /\ "messages" \in r.todo[i] /\ row[1] = "delivery" =>
                \E j \in 1 .. i : Takes(db, r.todo[j], r, row)
<1>0. row \in Rows(db)
  BY DEF Old
<1>1. ASSUME NEW T, Only(r.todo, T) PROVE r.todo[i] \subseteq T
  BY <1>1, Within
<1>2. "messages" \notin MessagesOwn /\ "channels" \notin MessagesOwn
  BY DEF MessagesOwn
<1>3. "messages" \in r.todo[i] \/ "channels" \in r.todo[i] => r.ids = db.messages
  BY <1>1, <1>2 DEF Scoped
<1>4. row[1] = "delivery" => row[2] \in db.messages
  <2>1. row[1] = "delivery" => row = <<"delivery", row[2]>>
    BY <1>0, RowIs
  <2> QED BY <2>1 DEF Stored
<1>5. row[1] \in {"member", "sub", "key", "message", "delivery", "comment"}
  BY <1>0, RowIs
<1>6. ASSUME NEW t, NEW b, Before(r.todo, t, b), b \in r.todo[i]
      PROVE  \E j \in 1 .. i : t \in r.todo[j]
  BY <1>6 DEF Before
<1>7. ASSUME row[1] = "delivery", r.ids = db.messages, \E j \in 1 .. i : "deliveries" \in r.todo[j]
      PROVE  \E j \in 1 .. i : Takes(db, r.todo[j], r, row)
  BY <1>4, <1>7 DEF Takes, Covers
<1>8. "messages" \in r.todo[i] /\ row[1] = "delivery" => \E j \in 1 .. i : Takes(db, r.todo[j], r, row)
  BY <1>3, <1>6, <1>7 DEF Ordered
<1>9. ASSUME "channels" \in r.todo[i] PROVE \E j \in 1 .. i : Takes(db, r.todo[j], r, row)
  <2>1. \A t \in ChannelTables \cup {"deliveries"} : \E j \in 1 .. i : t \in r.todo[j]
    BY <1>6, <1>9 DEF Ordered
  <2>2. CASE row[1] = "delivery"
    BY <1>3, <1>7, <1>9, <2>1, <2>2
  <2>3. CASE row[1] = "member"
    <3>1. PICK j \in 1 .. i : "channelMembers" \in r.todo[j]
      BY <2>1 DEF ChannelTables
    <3> QED BY <2>3, <3>1 DEF Takes, Covers, MemberGone
  <2>4. CASE row[1] = "sub"
    <3>1. PICK j \in 1 .. i : "subscriptions" \in r.todo[j]
      BY <2>1 DEF ChannelTables
    <3> QED BY <2>4, <3>1 DEF Takes, Covers, SubGone
  <2>5. CASE row[1] \in {"key", "message", "comment"}
    <3>1. PICK a \in 1 .. i, b \in 1 .. i, c \in 1 .. i :
              "apiKeys" \in r.todo[a] /\ "messages" \in r.todo[b] /\ "comments" \in r.todo[c]
      BY <2>1 DEF ChannelTables
    <3> QED BY <2>5, <3>1 DEF Takes, Covers
  <2> QED BY <1>5, <2>2, <2>3, <2>4, <2>5
<1>10. ASSUME "user" \in r.todo[i], <<"user", r.u>> \in Parents(db, row)
       PROVE  \E j \in 1 .. i : Takes(db, r.todo[j], r, row)
  <2>1. PICK a \in 1 .. i, b \in 1 .. i, c \in 1 .. i :
            /\ "user's subscriptions" \in r.todo[a] /\ "user's memberships" \in r.todo[b]
            /\ "user's comments" \in r.todo[c]
    BY <1>6, <1>10 DEF Ordered
  <2>2. \/ row[1] \in {"member", "sub"} /\ row[2] = r.u
        \/ row[1] = "comment" /\ db.comments[row[2]].by = r.u
    BY <1>5, <1>10 DEF Parents
  <2> QED BY <2>1, <2>2 DEF Takes, Covers, MemberGone, SubGone
<1>11. ASSUME "message" \in r.todo[i], <<"message", r.arg>> \in Parents(db, row)
       PROVE  \E j \in 1 .. i : Takes(db, r.todo[j], r, row)
  <2>1. PICK a \in 1 .. i, b \in 1 .. i : "its comments" \in r.todo[a] /\ "its deliveries" \in r.todo[b]
    BY <1>6, <1>11 DEF Ordered
  <2>2. \/ row[1] = "delivery" /\ row[2] = r.arg
        \/ row[1] = "comment" /\ db.comments[row[2]].on = r.arg
    BY <1>5, <1>11 DEF Parents
  <2> QED BY <2>1, <2>2 DEF Takes, Covers
<1>12. ASSUME NEW x \in Parents(db, row), Parent(r.todo[i], r, x)
       PROVE  \E j \in 1 .. i : Takes(db, r.todo[j], r, row)
  <2>1. CASE x = <<"channel", None>>
    BY <1>9, <1>12, <2>1 DEF Parent
  <2>2. ASSUME NEW k, x = <<"user", k>> PROVE \E j \in 1 .. i : Takes(db, r.todo[j], r, row)
    BY <1>10, <1>12, <2>2 DEF Parent
  <2>3. ASSUME NEW k, x = <<"message", k>> PROVE \E j \in 1 .. i : Takes(db, r.todo[j], r, row)
    BY <1>11, <1>12, <2>3 DEF Parent
  <2> QED BY <1>0, <2>1, <2>2, <2>3, ParentIs
<1> QED BY <1>8, <1>12

LEMMA BeginsDelete ==
    ASSUME Types, DeleteInv, NEW p \in Procs, NEW r, Starts(p, r), r.pc = "delete"
    PROVE  DeleteInv'
<1>1. /\ UNCHANGED rows /\ Ordered(r.todo) /\ r \in Request /\ Scoped(r)
      /\ req' = [req EXCEPT ![p] = r]
      /\ r.op # "delete message" => r.ids = db.messages
  BY DEF Starts, Deletes, Becomes, Placed
<1>2. db' = db /\ late' = late /\ removed' = removed
  BY <1>1 DEF rows
<1>3. req'[p] = r /\ \A q \in Procs : q # p => req'[q] = req[q]
  BY <1>1 DEF Types, RequestTypes
<1>4. ParentLast'
  <2>1. SUFFICES ASSUME NEW q \in Procs, NEW i \in 1 .. Len(req'[q].todo), NEW row, Old(row),
                        NEW x \in Parents(db, row), Parent(req'[q].todo[i], req'[q], x)
                 PROVE  \E j \in 1 .. i : Takes(db, req'[q].todo[j], req'[q], row)
    BY <1>2 DEF ParentLast, Old
  <2>2. CASE q = p
    BY <1>1, <1>3, <2>1, <2>2, BeginsOrdered DEF DeleteInv
  <2>3. CASE q # p
    BY <1>3, <2>1, <2>3 DEF DeleteInv, ParentLast
  <2> QED BY <2>2, <2>3
<1>5. DeliveriesFirst'
  <2>1. SUFFICES ASSUME NEW q \in Procs, NEW i \in 1 .. Len(req'[q].todo), "messages" \in req'[q].todo[i],
                        NEW m, Old(<<"delivery", m>>)
                 PROVE  \E j \in 1 .. i : Takes(db, req'[q].todo[j], req'[q], <<"delivery", m>>)
    BY <1>2 DEF DeliveriesFirst, Old
  <2>2. CASE q = p
    <3>1. PICK row : row = <<"delivery", m>>
      OBVIOUS
    <3>2. row[1] = "delivery" /\ Old(row)
      BY <2>1, <3>1
    <3>3. i \in 1 .. Len(r.todo) /\ "messages" \in r.todo[i]
      BY <1>3, <2>1, <2>2
    <3>4. \E j \in 1 .. i : Takes(db, r.todo[j], r, row)
      BY <1>1, <3>2, <3>3, BeginsOrdered DEF DeleteInv
    <3> QED BY <1>3, <2>2, <3>1, <3>4
  <2>3. CASE q # p
    BY <1>3, <2>1, <2>3 DEF DeleteInv, DeliveriesFirst
  <2> QED BY <2>2, <2>3
<1>6. ChannelLast'
  BY <1>1, <1>3 DEF DeleteInv, ChannelLast, Ordered
<1>7. Stored'
  BY <1>2 DEF DeleteInv, Stored, Old
<1>8. NothingOldSurvivesDelete'
  BY <1>2 DEF DeleteInv, NothingOldSurvivesDelete, Gone
<1> QED BY <1>4, <1>5, <1>6, <1>7, <1>8 DEF DeleteInv

\* The tables a delete takes away next.
LEMMA NextTables ==
    ASSUME Types, NEW p \in Procs, req[p].pc = "delete"
    PROVE  \E r \in Request :
              /\ r = req[p] /\ r.todo \in Seq(SUBSET Tables) /\ 1 \in 1 .. Len(r.todo)
              /\ Head(r.todo) = r.todo[1]
              /\ "deliveries" \in r.todo[1] => "its deliveries" \notin r.todo[1]
<1>1. PICK r \in Request : r = req[p] /\ Scoped(r)
  BY RequestSteps DEF Placed
<1>2. PICK s : s = r.todo
  OBVIOUS
<1>3. s \in Seq(SUBSET Tables) /\ s # <<>>
  BY <1>1, <1>2 DEF Scoped, Only, Request
<1>4. 1 \in 1 .. Len(s) /\ Head(s) = s[1]
  BY <1>3
<1>5. ASSUME NEW T, Only(r.todo, T) PROVE s[1] \subseteq T
  BY <1>2, <1>4, <1>5, Within
<1>6. "deliveries" \in s[1] => "its deliveries" \notin s[1]
  <2>1. "deliveries" \notin MessagesOwn /\ "its deliveries" \notin ChannelsOwn \cup UsersOwn
    BY DEF MessagesOwn, ChannelsOwn, UsersOwn, ChannelTables
  <2> QED BY <1>1, <1>5, <2>1 DEF Scoped
<1> QED BY <1>1, <1>2, <1>3, <1>4, <1>6

\* Requests that are about the same take the same.
LEMMA SameTakes ==
    ASSUME NEW q, NEW r, q.u = r.u, q.arg = r.arg, q.ids = r.ids
    PROVE  /\ \A d, tables, row : Takes(d, tables, q, row) <=> Takes(d, tables, r, row)
           /\ \A tables, x : Parent(tables, q, x) <=> Parent(tables, r, x)
BY DEF Takes, Parent

\* What the other deletes have left to do is what they had, and this one has one step less.
LEMMA Shift ==
    ASSUME Types, NEW p \in Procs, Clears(p), NEW q \in Procs, NEW i \in 1 .. Len(req'[q].todo)
    PROVE  \/ q # p /\ req'[q] = req[q]
           \/ /\ q = p /\ i + 1 \in 2 .. Len(req[p].todo)
              /\ Len(req'[p].todo) = Len(req[p].todo) - 1
              /\ \A j \in 2 .. Len(req[p].todo) : req'[p].todo[j - 1] = req[p].todo[j]
              /\ req'[p].u = req[p].u /\ req'[p].arg = req[p].arg /\ req'[p].ids = req[p].ids
<1>1. PICK r \in Request : r = req[p] /\ r.todo \in Seq(SUBSET Tables)
  BY NextTables DEF Clears
<1>2. CASE Ends(p)
  <2>1. req'[p] = Idle /\ (q # p => req'[q] = req[q])
    BY <1>2 DEF Ends, Types, RequestTypes
  <2>2. q # p
    BY <2>1, IdleIs
  <2> QED BY <2>1, <2>2
<1>3. CASE \E n : Becomes(p, n) /\ n.todo = Tail(r.todo) /\ n.u = r.u /\ n.arg = r.arg /\ n.ids = r.ids
                  /\ Len(r.todo) > 1
  <2>1. PICK n : Becomes(p, n) /\ n.todo = Tail(r.todo) /\ n.u = r.u /\ n.arg = r.arg /\ n.ids = r.ids
                 /\ Len(r.todo) > 1
    BY <1>3
  <2>2. req'[p] = n /\ (q # p => req'[q] = req[q])
    BY <2>1 DEF Becomes, Types, RequestTypes
  <2>3. PICK s : s = r.todo
    OBVIOUS
  <2>4. s \in Seq(SUBSET Tables) /\ Len(s) > 1 /\ Len(s) \in Nat
    BY <1>1, <2>1, <2>3
  <2>5. Len(Tail(s)) = Len(s) - 1 /\ \A j \in 1 .. Len(s) - 1 : Tail(s)[j] = s[j + 1]
    BY <2>4
  <2>6. \A j \in 2 .. Len(s) : j - 1 \in 1 .. Len(s) - 1 /\ j - 1 + 1 = j
    BY <2>4
  <2>7. \A j \in 2 .. Len(s) : Tail(s)[j - 1] = s[j]
    BY <2>5, <2>6
  <2>8. ASSUME q = p PROVE i + 1 \in 2 .. Len(s)
    <3>1. i \in 1 .. Len(Tail(s))
      BY <2>1, <2>2, <2>3, <2>8
    <3> QED BY <2>4, <2>5, <3>1
  <2> QED BY <1>1, <2>1, <2>2, <2>3, <2>5, <2>7, <2>8
<1> QED BY <1>1, <1>2, <1>3 DEF Clears

\* A row from before that a delete leaves is none of those it takes.
LEMMA Spared ==
    ASSUME Types, DeleteInv, NEW p \in Procs, DeleteStep(p), Clears(p), NEW row, Old(row)'
    PROVE  /\ Old(row) /\ row \in Rows(db') /\ Parents(db', row) = Parents(db, row)
           /\ \A tables, r : Takes(db', tables, r, row) <=> Takes(db, tables, r, row)
           /\ ~Takes(db, req[p].todo[1], req[p], row)
<1>1. PICK r \in Request : r = req[p] /\ Head(r.todo) = r.todo[1]
                           /\ ("deliveries" \in r.todo[1] => "its deliveries" \notin r.todo[1])
  BY NextTables DEF Clears
<1>2. db' = Without(db, r.todo[1], r.u, r.arg, r.ids)
  BY <1>1 DEF Clears
<1>3. row \in Rows(db') /\ row \notin late'
  BY DEF Old
<1>4. db \in Database
  BY DEF Types
<1>5. /\ row \in Rows(db)
      /\ row[1] = "comment" => db'.comments[row[2]] = db.comments[row[2]]
      /\ Covers(db, r.todo[1], r.u, r.arg, r.ids, row) => row[1] = "delivery" /\ row[2] \notin db.messages
  <2>1. PICK e : e = Without(db, r.todo[1], r.u, r.arg, r.ids)
    OBVIOUS
  <2>2. e = db' /\ row \in Rows(e)
    BY <1>2, <1>3, <2>1
  <2>3. /\ row \in Rows(db)
        /\ row[1] = "comment" => e.comments[row[2]] = db.comments[row[2]]
        /\ Covers(db, r.todo[1], r.u, r.arg, r.ids, row) => row[1] = "delivery" /\ row[2] \notin db.messages
    BY <1>1, <1>4, <2>1, <2>2, CoveredGoes
  <2> QED BY <2>2, <2>3
<1>6. \E d, taken : WriteTaking(d, taken)
  BY DEF DeleteStep
<1>7. Old(row)
  BY <1>3, <1>5, <1>6, NewRows
<1>8. row[1] = "delivery" => row[2] \in db.messages
  <2>1. row[1] = "delivery" => row = <<"delivery", row[2]>>
    BY <1>5, RowIs
  <2> QED BY <1>7, <2>1 DEF DeleteInv, Stored
<1>9. ~Takes(db, r.todo[1], r, row)
  BY <1>5, <1>8 DEF Takes
<1> QED BY <1>1, <1>3, <1>5, <1>7, <1>9, SameParents

\* What a step of a delete takes away, it takes from no row from before that it leaves.
LEMMA DeleteCase ==
    ASSUME Types, DeleteInv, NEW p \in Procs, DeleteStep(p), Clears(p)
    PROVE  DeleteInv'
<1>1. PICK r \in Request : r = req[p] /\ r.todo \in Seq(SUBSET Tables) /\ 1 \in 1 .. Len(r.todo)
                           /\ Head(r.todo) = r.todo[1]
  BY NextTables DEF Clears
<1>2. PICK s : s = r.todo /\ Len(s) \in Nat
  BY <1>1
<1>3. ASSUME NEW row, Old(row)', NEW x \in Parents(db, row) PROVE ~Parent(s[1], r, x)
  <2>1. Old(row) /\ ~Takes(db, s[1], r, row)
    BY <1>1, <1>2, <1>3, Spared
  <2>2. SUFFICES ASSUME Parent(s[1], r, x) PROVE FALSE
    OBVIOUS
  <2>3. \E j \in 1 .. 1 : Takes(db, s[j], r, row)
    BY <1>1, <1>2, <1>3, <2>1, <2>2 DEF DeleteInv, ParentLast
  <2> QED BY <2>1, <2>3
<1>4. ParentLast'
  <2>1. SUFFICES ASSUME NEW q \in Procs, NEW i \in 1 .. Len(req'[q].todo), NEW row, Old(row)',
                        NEW x \in Parents(db', row), Parent(req'[q].todo[i], req'[q], x)
                 PROVE  \E j \in 1 .. i : Takes(db', req'[q].todo[j], req'[q], row)
    BY DEF ParentLast
  <2>2. /\ Old(row) /\ Parents(db', row) = Parents(db, row)
        /\ \A tables, n : Takes(db', tables, n, row) <=> Takes(db, tables, n, row)
        /\ ~Takes(db, s[1], r, row)
    BY <1>1, <1>2, <2>1, Spared
  <2>3. CASE q # p /\ req'[q] = req[q]
    BY <2>1, <2>2, <2>3 DEF DeleteInv, ParentLast
  <2>4. CASE /\ q = p /\ i + 1 \in 2 .. Len(s)
             /\ \A j \in 2 .. Len(s) : req'[p].todo[j - 1] = s[j]
             /\ req'[p].u = r.u /\ req'[p].arg = r.arg /\ req'[p].ids = r.ids
    <3>1. req'[p].todo[i] = s[i + 1] /\ i + 1 \in 1 .. Len(s)
      BY <1>2, <2>1, <2>4
    <3>2. Parent(s[i + 1], r, x)
      BY <2>1, <2>4, <3>1, SameTakes
    <3>3. PICK j \in 1 .. i + 1 : Takes(db, s[j], r, row)
      BY <1>1, <1>2, <2>1, <2>2, <3>1, <3>2 DEF DeleteInv, ParentLast
    <3>4. j # 1
      BY <2>2, <3>3
    <3>5. j \in 2 .. Len(s) /\ j - 1 \in 1 .. i
      BY <1>2, <2>1, <3>1, <3>3, <3>4
    <3>6. req'[p].todo[j - 1] = s[j]
      BY <2>4, <3>5
    <3>7. Takes(db', s[j], req'[p], row)
      BY <2>2, <2>4, <3>3, SameTakes
    <3> QED BY <2>4, <3>5, <3>6, <3>7
  <2> QED BY <1>1, <1>2, <2>3, <2>4, Shift
<1>5. DeliveriesFirst'
  <2>1. SUFFICES ASSUME NEW q \in Procs, NEW i \in 1 .. Len(req'[q].todo), "messages" \in req'[q].todo[i],
                        NEW m, NEW row, row = <<"delivery", m>>, Old(row)'
                 PROVE  \E j \in 1 .. i : Takes(db', req'[q].todo[j], req'[q], row)
    BY DEF DeliveriesFirst
  <2>2. /\ Old(row) /\ ~Takes(db, s[1], r, row)
        /\ \A tables, n : Takes(db', tables, n, row) <=> Takes(db, tables, n, row)
    BY <1>1, <1>2, <2>1, Spared
  <2>3. CASE q # p /\ req'[q] = req[q]
    BY <2>1, <2>2, <2>3 DEF DeleteInv, DeliveriesFirst
  <2>4. CASE /\ q = p /\ i + 1 \in 2 .. Len(s)
             /\ \A j \in 2 .. Len(s) : req'[p].todo[j - 1] = s[j]
             /\ req'[p].u = r.u /\ req'[p].arg = r.arg /\ req'[p].ids = r.ids
    <3>1. "messages" \in s[i + 1] /\ i + 1 \in 1 .. Len(s)
      BY <1>2, <2>1, <2>4
    <3>2. PICK j \in 1 .. i + 1 : Takes(db, s[j], r, row)
      BY <1>1, <1>2, <2>1, <2>2, <3>1 DEF DeleteInv, DeliveriesFirst
    <3>3. j # 1
      BY <2>2, <3>2
    <3>4. j \in 2 .. Len(s) /\ j - 1 \in 1 .. i
      BY <1>2, <2>1, <3>1, <3>2, <3>3
    <3>5. req'[p].todo[j - 1] = s[j]
      BY <2>4, <3>4
    <3>6. Takes(db', s[j], req'[p], row)
      BY <2>2, <2>4, <3>2, SameTakes
    <3> QED BY <2>4, <3>4, <3>5, <3>6
  <2> QED BY <1>1, <1>2, <2>3, <2>4, Shift
<1>6. ChannelLast'
  <2>1. SUFFICES ASSUME NEW q \in Procs, NEW i \in 1 .. Len(req'[q].todo), "messages" \in req'[q].todo[i]
                 PROVE  \E k \in i .. Len(req'[q].todo) : "channels" \in req'[q].todo[k]
    BY DEF ChannelLast, ChannelFollows
  <2>2. CASE q # p /\ req'[q] = req[q]
    BY <2>1, <2>2 DEF DeleteInv, ChannelLast, ChannelFollows
  <2>3. CASE /\ q = p /\ i + 1 \in 2 .. Len(s) /\ Len(req'[p].todo) = Len(s) - 1
             /\ \A j \in 2 .. Len(s) : req'[p].todo[j - 1] = s[j]
    <3>1. "messages" \in s[i + 1] /\ i + 1 \in 1 .. Len(s)
      BY <1>2, <2>1, <2>3
    <3>2. PICK k \in i + 1 .. Len(s) : "channels" \in s[k]
      BY <1>1, <1>2, <3>1 DEF DeleteInv, ChannelLast, ChannelFollows
    <3>3. k \in 2 .. Len(s) /\ k - 1 \in i .. Len(s) - 1
      BY <1>2, <2>1, <3>2
    <3> QED BY <2>3, <3>2, <3>3
  <2> QED BY <1>1, <1>2, <2>2, <2>3, Shift
<1>7. /\ db'.users = IF "user" \in s[1] THEN db.users \ {r.u} ELSE db.users
      /\ db'.channel = IF "channels" \in s[1] THEN None ELSE db.channel
      /\ db'.messages = IF "messages" \in s[1] THEN {}
                        ELSE IF "message" \in s[1] THEN db.messages \ {r.arg} ELSE db.messages
      /\ removed' = removed \cup {m \in db.messages : "message" \in s[1] /\ m = r.arg}
  <2>1. db' = Without(db, s[1], r.u, r.arg, r.ids)
    BY <1>1, <1>2 DEF Clears
  <2>2. removed' = removed \cup {m \in db.messages : "message" \in s[1] /\ m = r.arg}
    BY <1>1, <1>2 DEF DeleteStep, WriteTaking
  <2> QED BY <2>1, <2>2 DEF Without
<1>8. Stored'
  <2>1. SUFFICES ASSUME NEW m, NEW row, row = <<"delivery", m>>, Old(row)' PROVE m \in db'.messages
    BY DEF Stored
  <2>2. Old(row) /\ ~Takes(db, s[1], r, row)
    BY <1>1, <1>2, <2>1, Spared
  <2>3. m \in db.messages
    BY <2>1, <2>2 DEF DeleteInv, Stored
  <2>4. "messages" \notin s[1]
    <3>1. SUFFICES ASSUME "messages" \in s[1] PROVE FALSE
      OBVIOUS
    <3>2. \E j \in 1 .. 1 : Takes(db, s[j], r, row)
      BY <1>1, <1>2, <2>1, <2>2, <3>1 DEF DeleteInv, DeliveriesFirst
    <3> QED BY <2>2, <3>2
  <2>5. ~("message" \in s[1] /\ m = r.arg)
    <3>1. PICK x : x = <<"message", m>>
      OBVIOUS
    <3>2. x \in Parents(db, row)
      BY <2>1, <3>1, ParentsAre
    <3> QED BY <1>3, <2>1, <3>1, <3>2 DEF Parent
  <2> QED BY <1>7, <2>3, <2>4, <2>5
<1>9. NothingOldSurvivesDelete'
  <2>1. SUFFICES ASSUME NEW row, Old(row)', NEW x \in Parents(db', row) PROVE ~Gone(db, x)'
    BY DEF NothingOldSurvivesDelete, Old
  <2>2. Old(row) /\ row \in Rows(db) /\ x \in Parents(db, row)
    BY <2>1, Spared DEF Old
  <2>3. ~Gone(db, x) /\ ~Parent(s[1], r, x)
    BY <1>3, <2>1, <2>2 DEF DeleteInv, NothingOldSurvivesDelete, Old
  <2>4. CASE x = <<"channel", None>>
    BY <1>7, <2>3, <2>4 DEF Gone, Parent
  <2>5. ASSUME NEW k, x = <<"user", k>> PROVE ~Gone(db, x)'
    BY <1>7, <2>3, <2>5 DEF Gone, Parent
  <2>6. ASSUME NEW k, x = <<"message", k>> PROVE ~Gone(db, x)'
    BY <1>7, <2>3, <2>6 DEF Gone, Parent
  <2> QED BY <2>2, <2>4, <2>5, <2>6, ParentIs
<1> QED BY <1>4, <1>5, <1>6, <1>8, <1>9 DEF DeleteInv

LEMMA InitDelete == Init => DeleteInv
<1>1. SUFFICES ASSUME Init PROVE DeleteInv
  OBVIOUS
<1>2. Rows(db) = {}
  BY <1>1 DEF Init, Rows
<1>3. \A p \in Procs : 1 .. Len(req[p].todo) = {}
  BY <1>1, IdleIs DEF Init
<1> QED BY <1>2, <1>3 DEF DeleteInv, ParentLast, Stored, DeliveriesFirst, ChannelLast, ChannelFollows,
                          NothingOldSurvivesDelete, Old

\* Once a channel, a message or an account is gone, nothing of it is left but what was
\* written while it was being deleted, on either store, through any interleaving of deletes
\* with each other and with everything else, and however often one failed half way and was
\* begun again (DeleteChannel, DeleteMessage, DeleteUser).
THEOREM NothingLeftBehind == Spec => []NothingOldSurvivesDelete
<1>1. ASSUME Types, DeleteInv, [Next]_vars PROVE DeleteInv'
  <2>1. CASE Next /\ \E p \in Procs : DeleteStep(p)
    BY <1>1, <2>1, DeleteSteps, DeleteCase
  <2>2. CASE Next /\ \A p \in Procs : ~DeleteStep(p)
    BY <1>1, <2>2, Todos, KeepsOld, BeginsDelete DEF SameLists
  <2>3. CASE UNCHANGED vars
    <3>1. db' = db /\ req' = req /\ late' = late /\ removed' = removed
      BY <2>3 DEF vars, rows
    <3>2. ParentLast' /\ Stored' /\ DeliveriesFirst' /\ ChannelLast'
      BY <1>1, <3>1 DEF DeleteInv, ParentLast, Stored, DeliveriesFirst, ChannelLast, Old
    <3>3. NothingOldSurvivesDelete'
      BY <1>1, <3>1 DEF DeleteInv, NothingOldSurvivesDelete, Gone
    <3> QED BY <3>2, <3>3 DEF DeleteInv
  <2> QED BY <1>1, <2>1, <2>2, <2>3
<1>2. DeleteInv => NothingOldSurvivesDelete
  BY DEF DeleteInv
<1> QED BY TypesHold, InitDelete, <1>1, <1>2, PTL DEF Spec
=============================================================================
