---------------------------- MODULE AccountsProofs ----------------------------
(***************************************************************************)
(* Proofs about accounts.  Sign-up: the two stores decide an invitation    *)
(* alike, an invitation and its account balance, and wrong codes are       *)
(* bounded.  Sessions: a session that was ended stays ended.               *)
(***************************************************************************)
EXTENDS SignUp, Sessions, FiniteSetTheorems, TLAPS

(***************************************************************************)
(* Tables and requests                                                     *)
(***************************************************************************)
InviteTable == [Invites -> Invite \cup {None}]
Pcs == {"idle", "adminCreate", "put", "recheck", "exists", "incr", "del", "consume", "create", "release"}
Request == [pc : Pcs, email : Emails \cup {None}, invite : Invites \cup {None}, uid : UserIDs \cup {None}]

Types ==
    /\ users \in [UserIDs -> User \cup {None}]
    /\ invites \in InviteTable
    /\ signups \in [Emails -> Signup \cup {None}]
    /\ req \in [Procs -> Request]
    /\ \A p \in Procs : req[p].pc # "idle" => req[p].email \in Emails
    /\ now \in 0 .. MaxTime /\ faults \in Nat
    /\ tries \in [Emails -> Nat]

\* The row an update leaves behind.
LEMMA RowOf ==
    ASSUME NEW t \in InviteTable, NEW id \in Rows(t)
    PROVE  id \in Invites /\ t[id] \in Invite /\ DOMAIN t = Invites
BY DEF InviteTable, Rows

LEMMA RowReplaced ==
    ASSUME NEW t \in InviteTable, NEW id \in Rows(t), NEW r \in Invite, NEW n, n = [t EXCEPT ![id] = r]
    PROVE  /\ n \in InviteTable /\ Rows(n) = Rows(t) /\ n[id] = r
           /\ \A i \in Invites : i # id => n[i] = t[i]
<1>1. id \in Invites /\ DOMAIN t = Invites /\ r # None
  BY RowOf, SignUpAssumption
<1>2. n \in InviteTable /\ n[id] = r /\ (\A i \in Invites : i # id => n[i] = t[i]) /\ DOMAIN n = Invites
  BY <1>1 DEF InviteTable
<1>3. Rows(n) = Rows(t)
  BY <1>1, <1>2 DEF Rows
<1> QED BY <1>2, <1>3

\* The two updates of an invitation that name two fields of its row.
Spent(t, id, u) == [t EXCEPT ![id].used = TRUE, ![id].by = u]
HandedBack(t, id) == [t EXCEPT ![id].used = FALSE, ![id].by = None]

LEMMA Used ==
    ASSUME NEW t \in InviteTable, NEW id \in Rows(t), NEW u \in UserIDs
    PROVE  /\ Spent(t, id, u) \in InviteTable /\ Rows(Spent(t, id, u)) = Rows(t)
           /\ Spent(t, id, u)[id].used = TRUE /\ Spent(t, id, u)[id].by = u
           /\ \A i \in Invites : i # id => Spent(t, id, u)[i] = t[i]
<1> DEFINE n == Spent(t, id, u)
           r1 == [t[id] EXCEPT !.used = TRUE]
           r2 == [r1 EXCEPT !.by = u]
<1>1. id \in Invites /\ t[id] \in Invite /\ DOMAIN t = Invites
  BY RowOf
<1>2. r1 \in Invite /\ r1.used = TRUE
  BY <1>1 DEF Invite
<1>3. r2 \in Invite /\ r2.used = TRUE /\ r2.by = u /\ r2 # None
  <2> HIDE DEF r1
  <2>1. r2 \in Invite /\ r2.used = TRUE /\ r2.by = u
    BY <1>2 DEF Invite
  <2> QED BY <2>1, SignUpAssumption
<1>4. n = [t EXCEPT ![id] = r2]
  <2>1. n = [[t EXCEPT ![id] = r1] EXCEPT ![id] = [[t EXCEPT ![id] = r1][id] EXCEPT !.by = u]]
    BY DEF Spent
  <2> HIDE DEF n, r1
  <2> QED BY <1>1, <2>1 DEF InviteTable
<1> HIDE DEF n, r2
<1>5. n \in InviteTable /\ n[id] = r2 /\ (\A i \in Invites : i # id => n[i] = t[i]) /\ DOMAIN n = Invites
  BY <1>1, <1>3, <1>4 DEF InviteTable
<1>6. Rows(n) = Rows(t)
  BY <1>1, <1>3, <1>5 DEF Rows
<1>7. n[id].used = TRUE /\ n[id].by = u
  BY <1>3, <1>5
<1> QED BY <1>5, <1>6, <1>7 DEF n

\* The same update with the row written as one value, as the in-process store has it.
LEMMA UsedAsOne ==
    ASSUME NEW t \in InviteTable, NEW id \in Rows(t), NEW u \in UserIDs
    PROVE  [t EXCEPT ![id].used = TRUE, ![id].by = u]
              = [t EXCEPT ![id] = [@ EXCEPT !.used = TRUE, !.by = u]]
<1> DEFINE n == [t EXCEPT ![id].used = TRUE, ![id].by = u]
           r1 == [t[id] EXCEPT !.used = TRUE]
           r2 == [r1 EXCEPT !.by = u]
<1>1. id \in Invites /\ DOMAIN t = Invites
  BY RowOf
<1>2. n = [t EXCEPT ![id] = r2]
  <2>1. n = [[t EXCEPT ![id] = r1] EXCEPT ![id] = [[t EXCEPT ![id] = r1][id] EXCEPT !.by = u]]
    OBVIOUS
  <2> HIDE DEF n, r1
  <2> QED BY <1>1, <2>1 DEF InviteTable
<1>3. [t EXCEPT ![id] = [@ EXCEPT !.used = TRUE, !.by = u]] = [t EXCEPT ![id] = r2]
  OBVIOUS
<1> QED BY <1>2, <1>3

LEMMA Released ==
    ASSUME NEW t \in InviteTable, NEW id \in Rows(t)
    PROVE  /\ HandedBack(t, id) \in InviteTable /\ Rows(HandedBack(t, id)) = Rows(t)
           /\ HandedBack(t, id)[id].used = FALSE /\ HandedBack(t, id)[id].by = None
           /\ \A i \in Invites : i # id => HandedBack(t, id)[i] = t[i]
<1> DEFINE n == HandedBack(t, id)
           r1 == [t[id] EXCEPT !.used = FALSE]
           r2 == [r1 EXCEPT !.by = None]
<1>1. id \in Invites /\ t[id] \in Invite /\ DOMAIN t = Invites
  BY RowOf
<1>2. r1 \in Invite /\ r1.used = FALSE
  BY <1>1 DEF Invite
<1>3. r2 \in Invite /\ r2.used = FALSE /\ r2.by = None /\ r2 # None
  <2> HIDE DEF r1
  <2>1. r2 \in Invite /\ r2.used = FALSE /\ r2.by = None
    BY <1>2 DEF Invite
  <2> QED BY <2>1, SignUpAssumption
<1>4. n = [t EXCEPT ![id] = r2]
  <2>1. n = [[t EXCEPT ![id] = r1] EXCEPT ![id] = [[t EXCEPT ![id] = r1][id] EXCEPT !.by = None]]
    BY DEF HandedBack
  <2> HIDE DEF n, r1
  <2> QED BY <1>1, <2>1 DEF InviteTable
<1> HIDE DEF n, r2
<1>5. n \in InviteTable /\ n[id] = r2 /\ (\A i \in Invites : i # id => n[i] = t[i]) /\ DOMAIN n = Invites
  BY <1>1, <1>3, <1>4 DEF InviteTable
<1>6. Rows(n) = Rows(t)
  BY <1>1, <1>3, <1>5 DEF Rows
<1>7. n[id].used = FALSE /\ n[id].by = None
  BY <1>3, <1>5
<1> QED BY <1>5, <1>6, <1>7 DEF n

\* The same update with the row written as one value, as the in-process store has it.
LEMMA ReleasedAsOne ==
    ASSUME NEW t \in InviteTable, NEW id \in Rows(t)
    PROVE  [t EXCEPT ![id].used = FALSE, ![id].by = None]
              = [t EXCEPT ![id] = [@ EXCEPT !.used = FALSE, !.by = None]]
<1> DEFINE n == [t EXCEPT ![id].used = FALSE, ![id].by = None]
           r1 == [t[id] EXCEPT !.used = FALSE]
           r2 == [r1 EXCEPT !.by = None]
<1>1. id \in Invites /\ DOMAIN t = Invites
  BY RowOf
<1>2. n = [t EXCEPT ![id] = r2]
  <2>1. n = [[t EXCEPT ![id] = r1] EXCEPT ![id] = [[t EXCEPT ![id] = r1][id] EXCEPT !.by = None]]
    OBVIOUS
  <2> HIDE DEF n, r1
  <2> QED BY <1>1, <2>1 DEF InviteTable
<1>3. [t EXCEPT ![id] = [@ EXCEPT !.used = FALSE, !.by = None]] = [t EXCEPT ![id] = r2]
  OBVIOUS
<1> QED BY <1>2, <1>3

LEMMA Withdrawn ==
    ASSUME NEW t \in InviteTable, NEW id \in Rows(t),
           NEW n, n = [t EXCEPT ![id].revoked = TRUE]
    PROVE  /\ n \in InviteTable /\ Rows(n) = Rows(t)
           /\ \A i \in Rows(t) : n[i].used = t[i].used /\ n[i].by = t[i].by
<1> DEFINE r == [t[id] EXCEPT !.revoked = TRUE]
<1>1. id \in Invites /\ t[id] \in Invite /\ DOMAIN t = Invites
  BY RowOf
<1>2. r \in Invite /\ r.used = t[id].used /\ r.by = t[id].by
  BY <1>1 DEF Invite
<1>3. n = [t EXCEPT ![id] = r]
  OBVIOUS
<1>4. r # None
  BY <1>2, SignUpAssumption
<1> HIDE DEF r
<1>5. n \in InviteTable /\ n[id] = r /\ (\A i \in Invites : i # id => n[i] = t[i]) /\ DOMAIN n = Invites
  BY <1>1, <1>2, <1>3 DEF InviteTable
<1>6. Rows(n) = Rows(t)
  BY <1>1, <1>4, <1>5 DEF Rows
<1>7. \A i \in Rows(t) : n[i].used = t[i].used /\ n[i].by = t[i].by
  BY <1>2, <1>5, RowOf
<1> QED BY <1>5, <1>6, <1>7

(***************************************************************************)
(* The two stores                                                          *)
(***************************************************************************)
\* The database's filter and the in-process store's check pick the same invitations.
LEMMA SameFilter ==
    ASSUME NEW r \in Invite, NEW at \in 0 .. MaxTime
    PROVE  Redeemable(r, at) <=> (~r.used /\ ~r.revoked /\ (r.expires = Never \/ r.expires > at))
<1>1. /\ r.expires \in (0 .. MaxTime) \cup {Never} /\ at \in Nat
      /\ r.expires # Never => r.expires \in Nat
  BY SignUpAssumption DEF Invite
<1>2. CASE r.used
  BY <1>2 DEF Redeemable, Status
<1>3. CASE ~r.used /\ r.revoked
  BY <1>3 DEF Redeemable, Status
<1>4. CASE ~r.used /\ ~r.revoked /\ r.expires # Never /\ at >= r.expires
  <2>1. Status(r, at) = "expired"
    BY <1>4 DEF Status
  <2> QED BY <1>1, <1>4, <2>1 DEF Redeemable
<1>5. CASE ~r.used /\ ~r.revoked /\ (r.expires = Never \/ ~(at >= r.expires))
  <2>1. Status(r, at) = "pending"
    BY <1>5 DEF Status
  <2> QED BY <1>1, <1>5, <2>1 DEF Redeemable
<1> QED BY <1>2, <1>3, <1>4, <1>5

LEMMA TypesAgree == Types => StoresAgree
<1> SUFFICES ASSUME Types, NEW i \in Invites, NEW u \in UserIDs
             PROVE  /\ MongoConsumeInvite(invites, i, u, now) = MemoryConsumeInvite(invites, i, u, now)
                    /\ MongoReleaseInvite(invites, i) = MemoryReleaseInvite(invites, i)
                    /\ MongoRevokeInvite(invites, i) = MemoryRevokeInvite(invites, i)
  BY DEF StoresAgree
<1>1. invites \in InviteTable /\ now \in 0 .. MaxTime
  BY DEF Types
<1>2. CASE i \notin Rows(invites)
  <2>1. MongoConsumeInvite(invites, i, u, now) = MemoryConsumeInvite(invites, i, u, now)
    BY <1>2 DEF MongoConsumeInvite, MemoryConsumeInvite
  <2> QED BY <1>2, <2>1 DEF MongoReleaseInvite, MemoryReleaseInvite, MongoRevokeInvite, MemoryRevokeInvite
<1>3. CASE i \in Rows(invites)
  <2>1. invites[i] \in Invite
    BY <1>1, <1>3, RowOf
  <2>2. MongoReleaseInvite(invites, i) = MemoryReleaseInvite(invites, i)
    <3>1. [invites EXCEPT ![i].used = FALSE, ![i].by = None]
             = [invites EXCEPT ![i] = [@ EXCEPT !.used = FALSE, !.by = None]]
      BY <1>1, <1>3, ReleasedAsOne, Zenon
    <3> QED BY <1>3, <3>1 DEF MongoReleaseInvite, MemoryReleaseInvite
  <2>3. MongoRevokeInvite(invites, i) = MemoryRevokeInvite(invites, i)
    BY <1>3 DEF MongoRevokeInvite, MemoryRevokeInvite
  <2>4. Redeemable(invites[i], now) <=>
           {k \in Rows(invites) : /\ k = i
                                  /\ ~invites[k].used
                                  /\ ~invites[k].revoked
                                  /\ invites[k].expires = Never \/ invites[k].expires > now} # {}
    BY <1>1, <1>3, <2>1, SameFilter
  <2>5. [invites EXCEPT ![i].used = TRUE, ![i].by = u]
           = [invites EXCEPT ![i] = [@ EXCEPT !.used = TRUE, !.by = u]]
    BY <1>1, <1>3, UsedAsOne, Zenon
  <2>6. MongoConsumeInvite(invites, i, u, now) = MemoryConsumeInvite(invites, i, u, now)
    BY <1>3, <2>4, <2>5 DEF MongoConsumeInvite, MemoryConsumeInvite
  <2> QED BY <2>2, <2>3, <2>6
<1> QED BY <1>2, <1>3

(***************************************************************************)
(* What a step does to the request that takes it                           *)
(***************************************************************************)
LEMMA Becomes ==
    ASSUME Types, NEW p \in Procs, NEW q \in Request, req' = [req EXCEPT ![p] = q],
           q.pc # "idle" => q.email \in Emails
    PROVE  /\ req' \in [Procs -> Request] /\ req'[p] = q
           /\ \A r \in Procs : r # p => req'[r] = req[r]
           /\ \A r \in Procs : req'[r].pc # "idle" => req'[r].email \in Emails
BY DEF Types

LEMMA GotoMoves ==
    ASSUME Types, NEW p \in Procs, NEW pc \in Pcs, Goto(p, pc), req[p].pc # "idle"
    PROVE  /\ req' \in [Procs -> Request]
           /\ req'[p].pc = pc /\ req'[p].email = req[p].email
           /\ req'[p].invite = req[p].invite /\ req'[p].uid = req[p].uid
           /\ \A r \in Procs : r # p => req'[r] = req[r]
           /\ \A r \in Procs : req'[r].pc # "idle" => req'[r].email \in Emails
<1> DEFINE q == [req[p] EXCEPT !.pc = pc]
<1>1. req[p] \in Request /\ req[p].email \in Emails
  BY DEF Types
<1>2. q \in Request /\ q.pc = pc /\ q.email = req[p].email /\ q.invite = req[p].invite /\ q.uid = req[p].uid
  BY <1>1 DEF Request
<1>3. req' = [req EXCEPT ![p] = q]
  BY DEF Goto
<1> HIDE DEF q
<1> QED BY <1>1, <1>2, <1>3, Becomes

LEMMA FinishMoves ==
    ASSUME Types, NEW p \in Procs, Finish(p)
    PROVE  /\ req' \in [Procs -> Request] /\ req'[p] = Idle /\ Idle.pc = "idle"
           /\ Idle.invite = None /\ Idle.uid = None
           /\ \A r \in Procs : r # p => req'[r] = req[r]
           /\ \A r \in Procs : req'[r].pc # "idle" => req'[r].email \in Emails
<1>1. Idle \in Request /\ Idle.pc = "idle" /\ Idle.invite = None /\ Idle.uid = None
  BY DEF Idle, Request, Pcs
<1> QED BY <1>1, Becomes DEF Finish

LEMMA MintMoves ==
    ASSUME Types, NEW p \in Procs, req[p].pc = "consume", NEW u \in UserIDs,
           req' = [req EXCEPT ![p].pc = "create", ![p].uid = u]
    PROVE  /\ req' \in [Procs -> Request]
           /\ req'[p].pc = "create" /\ req'[p].email = req[p].email
           /\ req'[p].invite = req[p].invite /\ req'[p].uid = u
           /\ \A r \in Procs : r # p => req'[r] = req[r]
           /\ \A r \in Procs : req'[r].pc # "idle" => req'[r].email \in Emails
<1> DEFINE q1 == [req[p] EXCEPT !.pc = "create"]
           q == [q1 EXCEPT !.uid = u]
<1>1. req[p] \in Request /\ req[p].email \in Emails /\ DOMAIN req = Procs
  BY DEF Types
<1>2. q1 \in Request /\ q1.pc = "create" /\ q1.email = req[p].email /\ q1.invite = req[p].invite
  BY <1>1 DEF Request, Pcs
<1>3. q \in Request /\ q.pc = "create" /\ q.email = req[p].email /\ q.invite = req[p].invite /\ q.uid = u
  <2> HIDE DEF q1
  <2> QED BY <1>2 DEF Request
<1>4. req' = [req EXCEPT ![p] = q]
  <2>1. req' = [[req EXCEPT ![p] = q1] EXCEPT ![p] = [[req EXCEPT ![p] = q1][p] EXCEPT !.uid = u]]
    OBVIOUS
  <2> HIDE DEF q1
  <2> QED BY <1>1, <2>1
<1> HIDE DEF q
<1> QED BY <1>1, <1>3, <1>4, Becomes

\* A store's answer to an insert: the account is there, or nothing changed.
LEMMA Inserted ==
    ASSUME NEW u, NEW row, NEW r, r = MongoCreateUser(users, u, row)
    PROVE  \/ r.err # "none" /\ r.table = users
           \/ /\ r.err = "none" /\ r.table = [users EXCEPT ![u] = row]
              /\ u \notin Rows(users)
<1>1. CASE u \in Rows(users) \/ UserByEmail(users, row.email) # {}
  BY <1>1 DEF MongoCreateUser, Fails
<1>2. CASE ~(u \in Rows(users) \/ UserByEmail(users, row.email) # {})
  BY <1>2 DEF MongoCreateUser, Done
<1> QED BY <1>1, <1>2

LEMMA InsertedIsTyped ==
    ASSUME Types, NEW u, NEW e \in Emails, NEW i \in Invites \cup {None},
           users' = MongoCreateUser(users, u, NewUser(e, i)).table
    PROVE  users' \in [UserIDs -> User \cup {None}]
<1>1. NewUser(e, i) \in User
  BY DEF NewUser, User
<1> DEFINE row == NewUser(e, i)
<1> HIDE DEF row
<1>2. users' = users \/ users' = [users EXCEPT ![u] = row]
  BY Inserted DEF row
<1> QED BY <1>1, <1>2 DEF Types, row

\* What the invitation operations leave of the table.
LEMMA ConsumedIsTyped ==
    ASSUME Types, NEW i \in Invites, NEW u \in UserIDs,
           NEW r, r = MongoConsumeInvite(invites, i, u, now), invites' = r.table
    PROVE  /\ invites' \in InviteTable
           /\ \/ r.err # "none" /\ invites' = invites
              \/ /\ r.err = "none" /\ i \in Rows(invites) /\ Rows(invites') = Rows(invites)
                 /\ invites[i].used # TRUE
                 /\ invites'[i].used = TRUE /\ invites'[i].by = u
                 /\ \A k \in Invites : k # i => invites'[k] = invites[k]
<1> DEFINE hit == {k \in Rows(invites) : /\ k = i
                                         /\ ~invites[k].used
                                         /\ ~invites[k].revoked
                                         /\ invites[k].expires = Never \/ invites[k].expires > now}
<1>1. invites \in InviteTable
  BY DEF Types
<1>2. CASE hit = {}
  <2>1. r.err # "none" /\ r.table = invites
    BY <1>2 DEF MongoConsumeInvite, Fails
  <2> QED BY <1>1, <2>1
<1>3. CASE hit # {}
  <2>1. r.err = "none" /\ invites' = Spent(invites, i, u)
    BY <1>3 DEF MongoConsumeInvite, Done, Spent
  <2>2. i \in Rows(invites) /\ invites[i].used # TRUE
    BY <1>3
  <2>3. /\ invites' \in InviteTable /\ Rows(invites') = Rows(invites)
        /\ invites'[i].used = TRUE /\ invites'[i].by = u
        /\ \A k \in Invites : k # i => invites'[k] = invites[k]
    <3>1. /\ Spent(invites, i, u) \in InviteTable /\ Rows(Spent(invites, i, u)) = Rows(invites)
          /\ Spent(invites, i, u)[i].used = TRUE /\ Spent(invites, i, u)[i].by = u
          /\ \A k \in Invites : k # i => Spent(invites, i, u)[k] = invites[k]
      BY <1>1, <2>2, Used, Zenon
    <3> QED BY <2>1, <3>1
  <2> QED BY <2>1, <2>2, <2>3
<1> QED BY <1>2, <1>3

LEMMA ReleasedIsTyped ==
    ASSUME Types, NEW i \in Invites \cup {None}, invites' = MongoReleaseInvite(invites, i).table
    PROVE  /\ invites' \in InviteTable
           /\ \/ i \notin Rows(invites) /\ invites' = invites
              \/ /\ i \in Rows(invites) /\ Rows(invites') = Rows(invites)
                 /\ invites'[i].used = FALSE
                 /\ \A k \in Invites : k # i => invites'[k] = invites[k]
<1>1. invites \in InviteTable
  BY DEF Types
<1>2. CASE i \notin Rows(invites)
  BY <1>1, <1>2 DEF MongoReleaseInvite, Fails
<1>3. CASE i \in Rows(invites)
  <2>1. invites' = HandedBack(invites, i)
    BY <1>3 DEF MongoReleaseInvite, Done, HandedBack
  <2>2. /\ invites' \in InviteTable /\ Rows(invites') = Rows(invites)
        /\ invites'[i].used = FALSE
        /\ \A k \in Invites : k # i => invites'[k] = invites[k]
    BY <1>1, <1>3, <2>1, Released
  <2> QED BY <1>3, <2>2
<1> QED BY <1>2, <1>3

LEMMA RevokedIsTyped ==
    ASSUME Types, NEW i \in Invites, RevokeInvite(i)
    PROVE  /\ invites' \in InviteTable /\ Rows(invites') = Rows(invites)
           /\ \A k \in Rows(invites) : invites'[k].used = invites[k].used /\ invites'[k].by = invites[k].by
<1>1. invites \in InviteTable
  BY DEF Types
<1>2. i \in Rows(invites)
  BY <1>1 DEF RevokeInvite, Rows, InviteTable
<1>3. invites' = invites \/ invites' = [invites EXCEPT ![i].revoked = TRUE]
  BY <1>2 DEF RevokeInvite, MongoRevokeInvite, Done
<1> QED BY <1>1, <1>2, <1>3, Withdrawn

LEMMA CreatedIsTyped ==
    ASSUME Types, NEW i \in Invites, CreateInvite(i)
    PROVE  /\ invites' \in InviteTable /\ invites[i] = None /\ invites'[i] # None
           /\ invites'[i].used = FALSE
           /\ \A k \in Invites : k # i => invites'[k] = invites[k]
<1>1. PICK x \in {Never} \cup (now + 1) .. MaxTime :
         invites' = [invites EXCEPT ![i] = [expires |-> x, used |-> FALSE, by |-> None, revoked |-> FALSE]]
  BY DEF CreateInvite
<1> DEFINE r == [expires |-> x, used |-> FALSE, by |-> None, revoked |-> FALSE]
<1>2. x \in (0 .. MaxTime) \cup {Never}
  BY SignUpAssumption DEF Types
<1>3. r \in Invite /\ r.used = FALSE
  BY <1>2 DEF Invite
<1>4. r # None
  BY <1>3, SignUpAssumption
<1>5. invites' = [invites EXCEPT ![i] = r] /\ invites[i] = None
  BY <1>1 DEF CreateInvite
<1> HIDE DEF r
<1> QED BY <1>3, <1>4, <1>5 DEF Types, InviteTable

(***************************************************************************)
(* Type correctness                                                        *)
(***************************************************************************)
LEMMA TypesInit == Init => Types
<1> SUFFICES ASSUME Init PROVE Types
  OBVIOUS
<1>1. Idle \in Request /\ Idle.pc = "idle"
  BY DEF Idle, Request, Pcs
<1>2. req \in [Procs -> Request] /\ \A p \in Procs : req[p].pc # "idle" => req[p].email \in Emails
  BY <1>1 DEF Init
<1> QED BY <1>2, SignUpAssumption DEF Init, Types, InviteTable

\* A pending sign-up as register and HINCRBY write it.
LEMMA SignupRows ==
    /\ \A i \in Invites \cup {None} : [live |-> TRUE, attempts |-> 0, invite |-> i] \in Signup
    /\ \A s \in Signup \cup {None} :
          /\ IncrBy(s) \in Signup
          /\ IncrBy(s).attempts = (IF s = None THEN 0 ELSE s.attempts) + 1
          /\ IncrBy(s).invite = (IF s = None THEN None ELSE s.invite)
<1>1. ASSUME NEW s \in Signup
      PROVE  /\ IncrBy(s) \in Signup
             /\ IncrBy(s).attempts = (IF s = None THEN 0 ELSE s.attempts) + 1
             /\ IncrBy(s).invite = (IF s = None THEN None ELSE s.invite)
  <2>1. s # None
    BY SignUpAssumption
  <2> QED BY <2>1 DEF IncrBy, Signup
<1>2. /\ IncrBy(None) \in Signup /\ IncrBy(None).attempts = 1 /\ IncrBy(None).invite = None
  BY DEF IncrBy, Signup
<1>3. \A i \in Invites \cup {None} : [live |-> TRUE, attempts |-> 0, invite |-> i] \in Signup
  BY DEF Signup
<1> QED BY <1>1, <1>2, <1>3

LEMMA TypesNext ==
    ASSUME Types, [Next]_vars
    PROVE  Types'
<1> USE DEF At
<1>1. CASE UNCHANGED vars
  BY <1>1 DEF Types, vars
<1>2. CASE Tick
  BY <1>2, SignUpAssumption DEF Tick, Types
<1>3. ASSUME NEW i \in Invites, CreateInvite(i) PROVE Types'
  BY <1>3, CreatedIsTyped DEF CreateInvite, Types
<1>4. ASSUME NEW i \in Invites, RevokeInvite(i) PROVE Types'
  <2>1. invites' \in InviteTable
    BY <1>4, RevokedIsTyped
  <2> QED BY <1>4, <2>1 DEF RevokeInvite, Types
<1>5. ASSUME NEW e \in Emails, CodeExpires(e) PROVE Types'
  BY <1>5 DEF CodeExpires, Types
<1>6. ASSUME NEW e \in Emails, CooldownEnds(e) PROVE Types'
  BY <1>6 DEF CooldownEnds, Types
<1>7. ASSUME NEW p \in Procs, NEW e \in Emails, AdminCheck(p, e) PROVE Types'
  <2> DEFINE q == [Idle EXCEPT !.pc = "adminCreate", !.email = e]
  <2>1. q \in Request /\ q.email \in Emails
    BY DEF Idle, Request, Pcs
  <2>2. req' = [req EXCEPT ![p] = q]
    BY <1>7 DEF AdminCheck
  <2> HIDE DEF q
  <2>3. /\ req' \in [Procs -> Request]
        /\ \A r \in Procs : req'[r].pc # "idle" => req'[r].email \in Emails
    BY <2>1, <2>2, Becomes
  <2> QED BY <1>7, <2>3 DEF AdminCheck, Types
<1>8. ASSUME NEW p \in Procs, NEW e \in Emails, NEW i \in Invites \cup {None}, RegisterCheck(p, e, i)
      PROVE  Types'
  <2> DEFINE q == [Idle EXCEPT !.pc = "put", !.email = e, !.invite = i]
  <2>1. q \in Request /\ q.email \in Emails
    BY DEF Idle, Request, Pcs
  <2>2. req' = [req EXCEPT ![p] = q]
    BY <1>8 DEF RegisterCheck
  <2> HIDE DEF q
  <2>3. /\ req' \in [Procs -> Request]
        /\ \A r \in Procs : req'[r].pc # "idle" => req'[r].email \in Emails
    BY <2>1, <2>2, Becomes
  <2> QED BY <1>8, <2>3 DEF RegisterCheck, Types
<1>9. ASSUME NEW p \in Procs, NEW e \in Emails, NEW right \in BOOLEAN, VerifyCompare(p, e, right)
      PROVE  Types'
  <2> DEFINE q == [pc |-> IF right THEN "recheck" ELSE "exists", email |-> e,
                   invite |-> signups[e].invite, uid |-> None]
  <2>1. signups[e].invite \in Invites \cup {None}
    BY <1>9 DEF VerifyCompare, Types, Signup
  <2>2. q \in Request /\ q.email \in Emails
    BY <2>1 DEF Request, Pcs
  <2>3. req' = [req EXCEPT ![p] = q]
    BY <1>9 DEF VerifyCompare
  <2> HIDE DEF q
  <2>4. /\ req' \in [Procs -> Request]
        /\ \A r \in Procs : req'[r].pc # "idle" => req'[r].email \in Emails
    BY <2>2, <2>3, Becomes
  <2> QED BY <1>9, <2>4 DEF VerifyCompare, Types
<1>10. ASSUME NEW p \in Procs, AdminCreate(p) PROVE Types'
  <2>1. req[p].email \in Emails
    BY <1>10 DEF AdminCreate, Types
  <2>2. users' \in [UserIDs -> User \cup {None}]
    BY <1>10, <2>1, InsertedIsTyped DEF AdminCreate
  <2>3. Finish(p)
    BY <1>10 DEF AdminCreate
  <2> QED BY <1>10, <2>2, <2>3, FinishMoves DEF AdminCreate, Types
<1>11. ASSUME NEW p \in Procs, PutSignup(p) PROVE Types'
  <2>1. req[p].email \in Emails /\ req[p].invite \in Invites \cup {None}
    BY <1>11 DEF PutSignup, Types, Request
  <2>2. signups' \in [Emails -> Signup \cup {None}]
    BY <1>11, <2>1, SignupRows DEF PutSignup, Types
  <2>3. Finish(p) /\ tries' \in [Emails -> Nat]
    BY <1>11 DEF PutSignup, Types
  <2> QED BY <1>11, <2>2, <2>3, FinishMoves DEF PutSignup, Types
<1>12. ASSUME NEW p \in Procs, IncrExists(p) PROVE Types'
  <2>1. /\ req' \in [Procs -> Request]
        /\ \A r \in Procs : req'[r].pc # "idle" => req'[r].email \in Emails
    BY <1>12, FinishMoves, GotoMoves DEF IncrExists, Pcs
  <2> QED BY <1>12, <2>1 DEF IncrExists, Types
<1>13. ASSUME NEW p \in Procs, IncrSignupAttempts(p) PROVE Types'
  <2>1. /\ req' \in [Procs -> Request]
        /\ \A r \in Procs : req'[r].pc # "idle" => req'[r].email \in Emails
    BY <1>13, FinishMoves, GotoMoves DEF IncrSignupAttempts, Pcs
  <2>2. signups' \in [Emails -> Signup \cup {None}]
    BY <1>13, SignupRows DEF IncrSignupAttempts, Types
  <2> QED BY <1>13, <2>1, <2>2 DEF IncrSignupAttempts, Types
<1>14. ASSUME NEW p \in Procs, DelSignup(p) PROVE Types'
  <2>1. Finish(p)
    BY <1>14 DEF DelSignup
  <2> QED BY <1>14, <2>1, FinishMoves DEF DelSignup, Types
<1>15. ASSUME NEW p \in Procs, VerifyRecheck(p) PROVE Types'
  <2>1. /\ req' \in [Procs -> Request]
        /\ \A r \in Procs : req'[r].pc # "idle" => req'[r].email \in Emails
    BY <1>15, GotoMoves DEF VerifyRecheck, Pcs
  <2> QED BY <1>15, <2>1 DEF VerifyRecheck, Types
<1>16. ASSUME NEW p \in Procs, ConsumeInvite(p) PROVE Types'
  <2>1. PICK u \in FreshIDs :
          IF InviteOnly /\ req[p].invite # None
          THEN LET r == MongoConsumeInvite(invites, req[p].invite, u, now) IN
               /\ invites' = r.table
               /\ IF r.err = "none"
                  THEN req' = [req EXCEPT ![p].pc = "create", ![p].uid = u]
                  ELSE Goto(p, "del")
          ELSE req' = [req EXCEPT ![p].pc = "create", ![p].uid = u] /\ UNCHANGED invites
    BY <1>16 DEF ConsumeInvite
  <2>2. u \in UserIDs /\ req[p].pc = "consume" /\ req[p].invite \in Invites \cup {None}
    BY <1>16 DEF ConsumeInvite, FreshIDs, Types, Request
  <2>3. Goto(p, "del") \/ req' = [req EXCEPT ![p].pc = "create", ![p].uid = u]
    BY <2>1
  <2>4. /\ req' \in [Procs -> Request]
        /\ \A r \in Procs : req'[r].pc # "idle" => req'[r].email \in Emails
    <3>1. CASE Goto(p, "del")
      BY <2>2, <3>1, GotoMoves DEF Pcs
    <3>2. CASE req' = [req EXCEPT ![p].pc = "create", ![p].uid = u]
      BY <2>2, <3>2, MintMoves
    <3> QED BY <2>3, <3>1, <3>2
  <2>5. invites' \in InviteTable
    <3>1. CASE InviteOnly /\ req[p].invite # None
      <4>1. PICK r : r = MongoConsumeInvite(invites, req[p].invite, u, now)
        OBVIOUS
      <4>2. invites' = r.table
        BY <2>1, <3>1, <4>1
      <4> QED BY <2>2, <3>1, <4>1, <4>2, ConsumedIsTyped
    <3>2. CASE ~(InviteOnly /\ req[p].invite # None)
      BY <2>1, <3>2 DEF Types
    <3> QED BY <3>1, <3>2
  <2> QED BY <1>16, <2>4, <2>5 DEF ConsumeInvite, Types
<1>17. ASSUME NEW p \in Procs, CreateUser(p) PROVE Types'
  <2>1. PICK held : held = IF InviteOnly THEN req[p].invite ELSE None
    OBVIOUS
  <2>2. users' = MongoCreateUser(users, req[p].uid, NewUser(req[p].email, held)).table
    BY <1>17, <2>1 DEF CreateUser
  <2>3. req[p].email \in Emails /\ held \in Invites \cup {None} /\ req[p].pc = "create"
    BY <1>17, <2>1 DEF CreateUser, Types, Request
  <2>4. users' \in [UserIDs -> User \cup {None}]
    BY <2>2, <2>3, InsertedIsTyped
  <2>5. Goto(p, "del") \/ Goto(p, "release") \/ Goto(p, "idle")
    BY <1>17 DEF CreateUser
  <2>6. /\ req' \in [Procs -> Request]
        /\ \A r \in Procs : req'[r].pc # "idle" => req'[r].email \in Emails
    BY <2>3, <2>5, GotoMoves DEF Pcs
  <2> QED BY <1>17, <2>4, <2>6 DEF CreateUser, Types
<1>18. ASSUME NEW p \in Procs, ReleaseInvite(p) PROVE Types'
  <2>1. req[p].invite \in Invites \cup {None} /\ Finish(p)
    BY <1>18 DEF ReleaseInvite, Types, Request
  <2>2. invites' \in InviteTable
    BY <1>18, <2>1, ReleasedIsTyped DEF ReleaseInvite
  <2> QED BY <1>18, <2>1, <2>2, FinishMoves DEF ReleaseInvite, Types
<1>19. ASSUME NEW p \in Procs, CallFails(p) PROVE Types'
  <2>1. req[p].email \in Emails /\ req[p].invite \in Invites \cup {None}
    BY <1>19 DEF CallFails, Types, Request
  <2>2. Finish(p) \/ Goto(p, "release")
    BY <1>19 DEF CallFails
  <2>3. /\ req' \in [Procs -> Request]
        /\ \A r \in Procs : req'[r].pc # "idle" => req'[r].email \in Emails
    BY <1>19, <2>2, FinishMoves, GotoMoves DEF CallFails, Pcs
  <2>4. \/ users' = users
        \/ users' = MongoCreateUser(users, req[p].uid, NewUser(req[p].email, req[p].invite)).table
    BY <1>19 DEF CallFails
  <2>5. users' \in [UserIDs -> User \cup {None}]
    BY <2>1, <2>4, InsertedIsTyped DEF Types
  <2> QED BY <1>19, <2>3, <2>5 DEF CallFails, Types
<1>20. ASSUME NEW p \in Procs, Dies(p) PROVE Types'
  <2>1. Finish(p)
    BY <1>20 DEF Dies
  <2> QED BY <1>20, <2>1, FinishMoves DEF Dies, Types
<1> QED BY <1>1, <1>2, <1>3, <1>4, <1>5, <1>6, <1>7, <1>8, <1>9, <1>10, <1>11, <1>12, <1>13, <1>14,
           <1>15, <1>16, <1>17, <1>18, <1>19, <1>20 DEF Next

LEMMA TypeCorrect == Spec => []Types
BY TypesInit, TypesNext, PTL DEF Spec

\* Whatever requests and the administrator do, the database's one conditional update and
\* the in-process store's check under a lock (ConsumeInvite, ReleaseInvite and RevokeInvite
\* of the two stores) give the same answer and leave the same table.
THEOREM StoresDecideAlike == Spec => []StoresAgree
BY TypeCorrect, TypesAgree, PTL

(***************************************************************************)
(* Wrong codes are bounded                                                 *)
(***************************************************************************)
\* The requests that have compared a wrong code and not counted it yet, and those together
\* with the ones about to delete the pending sign-up.
Comparing(e) == {p \in Procs : req[p].email = e /\ req[p].pc \in {"exists", "incr"}}
Counting(e) == {p \in Procs : req[p].email = e /\ req[p].pc \in {"exists", "incr", "del"}}
Attempts(e) == IF signups[e] = None THEN 0 ELSE signups[e].attempts

\* Every wrong code is counted in the hash, or still to be counted by its request, or its
\* request died; and none is compared beyond the limit but by a request that is under way.
CountedAt(e) ==
    /\ signups[e] = None => tries[e] = 0
    /\ tries[e] <= Attempts(e) + Cardinality(Comparing(e)) + faults
    /\ tries[e] <= MaxAttempts - 1 + Cardinality(Counting(e)) + faults
Counted == \A e \in Emails : CountedAt(e)

LEMMA SomeOfProcs ==
    ASSUME NEW S \in SUBSET Procs, NEW T \in SUBSET Procs, NEW p \in Procs
    PROVE  /\ Cardinality(S) \in Nat /\ Cardinality(T) \in Nat
           /\ S \subseteq T => Cardinality(S) <= Cardinality(T)
           /\ S \subseteq T \cup {p} => Cardinality(S) <= Cardinality(T) + 1
           /\ S \subseteq T /\ p \in T \ S => Cardinality(S) + 1 <= Cardinality(T)
<1>1. IsFiniteSet(Procs)
  BY SignUpAssumption
<1>2. IsFiniteSet(S) /\ IsFiniteSet(T)
  BY <1>1, FS_Subset
<1>3. Cardinality(S) \in Nat /\ Cardinality(T) \in Nat
  BY <1>2, FS_CardinalityType
<1>4. S \subseteq T => Cardinality(S) <= Cardinality(T)
  BY <1>2, FS_Subset
<1>5. S \subseteq T \cup {p} => Cardinality(S) <= Cardinality(T) + 1
  <2> SUFFICES ASSUME S \subseteq T \cup {p} PROVE Cardinality(S) <= Cardinality(T) + 1
    OBVIOUS
  <2>1. IsFiniteSet(T \cup {p}) /\ (Cardinality(T \cup {p}) = Cardinality(T) \/ Cardinality(T \cup {p}) = Cardinality(T) + 1)
    BY <1>2, FS_AddElement
  <2>2. Cardinality(S) <= Cardinality(T \cup {p})
    BY <2>1, FS_Subset
  <2> QED BY <1>3, <2>1, <2>2
<1>6. S \subseteq T /\ p \in T \ S => Cardinality(S) + 1 <= Cardinality(T)
  <2> SUFFICES ASSUME S \subseteq T, p \in T \ S PROVE Cardinality(S) + 1 <= Cardinality(T)
    OBVIOUS
  <2>1. IsFiniteSet(S \cup {p}) /\ Cardinality(S \cup {p}) = Cardinality(S) + 1
    BY <1>2, FS_AddElement
  <2>2. Cardinality(S \cup {p}) <= Cardinality(T)
    BY <1>2, FS_Subset
  <2> QED BY <2>1, <2>2
<1> QED BY <1>3, <1>4, <1>5, <1>6

LEMMA CountsAreNumbers ==
    ASSUME Types, NEW e \in Emails
    PROVE  /\ Comparing(e) \in SUBSET Procs /\ Counting(e) \in SUBSET Procs
           /\ Cardinality(Comparing(e)) \in Nat /\ Cardinality(Counting(e)) \in Nat
           /\ Attempts(e) \in Nat /\ tries[e] \in Nat /\ faults \in Nat
           /\ MaxAttempts - 1 \in Nat
<1>1. Comparing(e) \in SUBSET Procs /\ Counting(e) \in SUBSET Procs
  BY DEF Comparing, Counting
<1>2. IsFiniteSet(Comparing(e)) /\ IsFiniteSet(Counting(e))
  BY <1>1, FS_Subset, SignUpAssumption
<1>3. Cardinality(Comparing(e)) \in Nat /\ Cardinality(Counting(e)) \in Nat
  BY <1>2, FS_CardinalityType
<1>4. Attempts(e) \in Nat
  BY DEF Attempts, Types, Signup
<1> QED BY <1>1, <1>3, <1>4, SignUpAssumption DEF Types

\* A step that starts the count of an address afresh.
LEMMA Cleared ==
    ASSUME Types', NEW e \in Emails, tries'[e] = 0
    PROVE  CountedAt(e)'
<1>1. /\ Cardinality(Comparing(e)') \in Nat /\ Cardinality(Counting(e)') \in Nat
      /\ Attempts(e)' \in Nat /\ faults' \in Nat /\ MaxAttempts - 1 \in Nat
  <2>1. Comparing(e)' \in SUBSET Procs /\ Counting(e)' \in SUBSET Procs
    BY DEF Comparing, Counting
  <2>2. IsFiniteSet(Comparing(e)') /\ IsFiniteSet(Counting(e)')
    BY <2>1, FS_Subset, SignUpAssumption
  <2>3. Cardinality(Comparing(e)') \in Nat /\ Cardinality(Counting(e)') \in Nat
    BY <2>2, FS_CardinalityType
  <2>4. Attempts(e)' \in Nat /\ faults' \in Nat /\ MaxAttempts - 1 \in Nat
    BY SignUpAssumption DEF Attempts, Types, Signup
  <2> QED BY <2>3, <2>4
<1> QED BY <1>1 DEF CountedAt

\* A step that leaves the count of an address as it is, and no request out of it but one
\* that a fault accounts for.
LEMMA Kept ==
    ASSUME Types, Types', NEW e \in Emails, CountedAt(e),
           tries'[e] = tries[e], signups'[e] = signups[e],
           NEW p \in Procs,
           \/ /\ Comparing(e) \subseteq Comparing(e)' /\ Counting(e) \subseteq Counting(e)'
              /\ faults' = faults
           \/ /\ Comparing(e) \subseteq Comparing(e)' \cup {p} /\ Counting(e) \subseteq Counting(e)' \cup {p}
              /\ faults' = faults + 1
    PROVE  CountedAt(e)'
<1>1. /\ Comparing(e)' \in SUBSET Procs /\ Counting(e)' \in SUBSET Procs
      /\ Cardinality(Comparing(e)') \in Nat /\ Cardinality(Counting(e)') \in Nat
  <2>1. Comparing(e)' \in SUBSET Procs /\ Counting(e)' \in SUBSET Procs
    BY DEF Comparing, Counting
  <2> QED BY <2>1, SomeOfProcs
<1>2. /\ Comparing(e) \in SUBSET Procs /\ Counting(e) \in SUBSET Procs
      /\ Cardinality(Comparing(e)) \in Nat /\ Cardinality(Counting(e)) \in Nat
      /\ Attempts(e) \in Nat /\ tries[e] \in Nat /\ faults \in Nat /\ MaxAttempts - 1 \in Nat
  BY CountsAreNumbers
<1>3. Attempts(e)' = Attempts(e)
  BY DEF Attempts
<1>4. /\ Cardinality(Comparing(e)) + faults <= Cardinality(Comparing(e)') + faults'
      /\ Cardinality(Counting(e)) + faults <= Cardinality(Counting(e)') + faults'
  <2>1. CASE /\ Comparing(e) \subseteq Comparing(e)' /\ Counting(e) \subseteq Counting(e)'
             /\ faults' = faults
    <3>1. /\ Cardinality(Comparing(e)) <= Cardinality(Comparing(e)')
          /\ Cardinality(Counting(e)) <= Cardinality(Counting(e)')
      BY <1>1, <1>2, <2>1, SomeOfProcs
    <3> QED BY <1>1, <1>2, <2>1, <3>1
  <2>2. CASE /\ Comparing(e) \subseteq Comparing(e)' \cup {p} /\ Counting(e) \subseteq Counting(e)' \cup {p}
             /\ faults' = faults + 1
    <3>1. /\ Cardinality(Comparing(e)) <= Cardinality(Comparing(e)') + 1
          /\ Cardinality(Counting(e)) <= Cardinality(Counting(e)') + 1
      BY <1>1, <1>2, <2>2, SomeOfProcs
    <3> QED BY <1>1, <1>2, <2>2, <3>1
  <2> QED BY <2>1, <2>2
<1>5. faults' \in Nat
  BY DEF Types
<1> QED BY <1>1, <1>2, <1>3, <1>4, <1>5 DEF CountedAt

\* Only the request that takes a step can leave the count.
LEMMA OthersStay ==
    ASSUME NEW p \in Procs, \A r \in Procs : r # p => req'[r] = req[r], NEW e \in Emails
    PROVE  /\ Comparing(e) \subseteq Comparing(e)' \cup {p} /\ Counting(e) \subseteq Counting(e)' \cup {p}
           /\ (p \in Counting(e) => p \in Counting(e)') => Counting(e) \subseteq Counting(e)'
           /\ (p \in Comparing(e) => p \in Comparing(e)') => Comparing(e) \subseteq Comparing(e)'
BY DEF Comparing, Counting

LEMMA CountedNext ==
    ASSUME Types, Types', Counted, [Next]_vars
    PROVE  Counted'
<1> USE DEF At
<1> SUFFICES ASSUME NEW e \in Emails PROVE CountedAt(e)'
  BY DEF Counted
<1>0. CountedAt(e) /\ e \in DOMAIN tries /\ e \in DOMAIN signups
  BY DEF Counted, Types
\* The cases in which nobody leaves the count of this address.
<1>q. ASSUME req' = req, faults' = faults, signups' = signups, tries' = tries PROVE CountedAt(e)'
  BY <1>0, <1>q DEF CountedAt, Attempts, Comparing, Counting
<1>k. ASSUME NEW p \in Procs, \A r \in Procs : r # p => req'[r] = req[r],
             tries'[e] = tries[e], signups'[e] = signups[e],
             \/ /\ req[p].pc \in {"exists", "incr"} => req'[p].pc \in {"exists", "incr"}
                /\ req[p].pc \in {"exists", "incr", "del"} => req'[p].pc \in {"exists", "incr", "del"}
                /\ req'[p].email = req[p].email /\ faults' = faults
             \/ req[p].pc \notin {"exists", "incr", "del"} /\ faults' = faults
             \/ req[p].email # e /\ faults' = faults
             \/ faults' = faults + 1
      PROVE  CountedAt(e)'
  <2>1. /\ Comparing(e) \subseteq Comparing(e)' \cup {p} /\ Counting(e) \subseteq Counting(e)' \cup {p}
        /\ (p \in Counting(e) => p \in Counting(e)') => Counting(e) \subseteq Counting(e)'
        /\ (p \in Comparing(e) => p \in Comparing(e)') => Comparing(e) \subseteq Comparing(e)'
    BY <1>k, OthersStay
  <2>2. CASE faults' = faults + 1
    BY <1>0, <1>k, <2>1, <2>2, Kept
  <2>3. CASE faults' = faults /\ faults' # faults + 1
    <3>1. (p \in Counting(e) => p \in Counting(e)') /\ (p \in Comparing(e) => p \in Comparing(e)')
      BY <1>k, <2>3 DEF Counting, Comparing
    <3> QED BY <1>0, <1>k, <2>1, <2>3, <3>1, Kept
  <2> QED BY <1>k, <2>2, <2>3
<1>1. CASE UNCHANGED vars
  BY <1>1, <1>q DEF vars
<1>2. CASE Tick
  BY <1>2, <1>q DEF Tick
<1>3. ASSUME NEW i \in Invites, CreateInvite(i) \/ RevokeInvite(i) PROVE CountedAt(e)'
  BY <1>3, <1>q DEF CreateInvite, RevokeInvite
<1>4. ASSUME NEW e2 \in Emails, CodeExpires(e2) PROVE CountedAt(e)'
  <2>1. CASE e2 = e
    BY <1>0, <1>4, <2>1, Cleared DEF CodeExpires
  <2>2. CASE e2 # e
    <3>1. tries'[e] = tries[e] /\ signups'[e] = signups[e] /\ req' = req /\ faults' = faults
      BY <1>0, <1>4, <2>2 DEF CodeExpires
    <3> QED BY <1>0, <3>1 DEF CountedAt, Attempts, Comparing, Counting
  <2> QED BY <2>1, <2>2
<1>5. ASSUME NEW e2 \in Emails, CooldownEnds(e2) PROVE CountedAt(e)'
  BY <1>5, <1>q DEF CooldownEnds
<1>6. ASSUME NEW p \in Procs, NEW e2 \in Emails, AdminCheck(p, e2) PROVE CountedAt(e)'
  <2>1. (\A r \in Procs : r # p => req'[r] = req[r]) /\ req[p].pc = "idle"
    BY <1>6 DEF AdminCheck, Types
  <2> QED BY <1>6, <1>k, <2>1 DEF AdminCheck
<1>7. ASSUME NEW p \in Procs, NEW e2 \in Emails, NEW i \in Invites \cup {None}, RegisterCheck(p, e2, i)
      PROVE  CountedAt(e)'
  <2>1. (\A r \in Procs : r # p => req'[r] = req[r]) /\ req[p].pc = "idle"
    BY <1>7 DEF RegisterCheck, Types
  <2> QED BY <1>7, <1>k, <2>1 DEF RegisterCheck
<1>8. ASSUME NEW p \in Procs, NEW e2 \in Emails, NEW right \in BOOLEAN, VerifyCompare(p, e2, right)
      PROVE  CountedAt(e)'
  <2>1. (\A r \in Procs : r # p => req'[r] = req[r]) /\ req[p].pc = "idle"
    BY <1>8 DEF VerifyCompare, Types
  <2>2. CASE right \/ e2 # e
    <3>1. tries'[e] = tries[e] /\ signups' = signups /\ faults' = faults
      BY <1>0, <1>8, <2>2 DEF VerifyCompare
    <3> QED BY <1>k, <2>1, <3>1
  <2>3. CASE ~right /\ e2 = e
    <3>1. /\ req'[p].pc = "exists" /\ req'[p].email = e /\ tries'[e] = tries[e] + 1
          /\ signups' = signups /\ faults' = faults /\ signups[e] # None
      BY <1>8, <2>3 DEF VerifyCompare, Types
    <3>2. /\ Comparing(e) \subseteq Comparing(e)' /\ p \in Comparing(e)' \ Comparing(e)
          /\ Counting(e) \subseteq Counting(e)' /\ p \in Counting(e)' \ Counting(e)
      BY <2>1, <3>1 DEF Comparing, Counting
    <3>3. Comparing(e)' \in SUBSET Procs /\ Counting(e)' \in SUBSET Procs
      BY DEF Comparing, Counting
    <3>4. /\ Comparing(e) \in SUBSET Procs /\ Counting(e) \in SUBSET Procs
          /\ Cardinality(Comparing(e)) \in Nat /\ Cardinality(Counting(e)) \in Nat
          /\ Attempts(e) \in Nat /\ tries[e] \in Nat /\ faults \in Nat /\ MaxAttempts - 1 \in Nat
      BY CountsAreNumbers
    <3>5. /\ Cardinality(Comparing(e)) + 1 <= Cardinality(Comparing(e)')
          /\ Cardinality(Counting(e)) + 1 <= Cardinality(Counting(e)')
          /\ Cardinality(Comparing(e)') \in Nat /\ Cardinality(Counting(e)') \in Nat
      BY <3>2, <3>3, <3>4, SomeOfProcs
    <3>6. Attempts(e)' = Attempts(e)
      BY <3>1 DEF Attempts
    <3> QED BY <1>0, <3>1, <3>4, <3>5, <3>6 DEF CountedAt
  <2> QED BY <2>2, <2>3
<1>9. ASSUME NEW p \in Procs, AdminCreate(p) PROVE CountedAt(e)'
  <2>1. Finish(p) /\ req[p].pc = "adminCreate" /\ signups' = signups /\ tries' = tries /\ faults' = faults
    BY <1>9 DEF AdminCreate
  <2>2. \A r \in Procs : r # p => req'[r] = req[r]
    BY <2>1, FinishMoves
  <2> QED BY <1>k, <2>1, <2>2
<1>10. ASSUME NEW p \in Procs, PutSignup(p) \/ DelSignup(p) PROVE CountedAt(e)'
  <2>1. /\ Finish(p) /\ faults' = faults
        /\ tries' = [tries EXCEPT ![req[p].email] = 0]
        /\ \E s : signups' = [signups EXCEPT ![req[p].email] = s]
    BY <1>10 DEF PutSignup, DelSignup
  <2>2. CASE req[p].email = e
    BY <1>0, <2>1, <2>2, Cleared
  <2>3. CASE req[p].email # e
    <3>1. \A r \in Procs : r # p => req'[r] = req[r]
      BY <2>1, FinishMoves
    <3>2. tries'[e] = tries[e] /\ signups'[e] = signups[e]
      BY <1>0, <2>1, <2>3
    <3> QED BY <1>k, <2>1, <2>3, <3>1, <3>2
  <2> QED BY <2>2, <2>3
<1>11. ASSUME NEW p \in Procs, IncrExists(p) PROVE CountedAt(e)'
  <2>1. /\ req[p].pc = "exists" /\ req[p].email \in Emails
        /\ signups' = signups /\ tries' = tries /\ faults' = faults
    BY <1>11 DEF IncrExists, Types
  <2>2. CASE signups[req[p].email] # None
    <3>1. Goto(p, "incr")
      BY <1>11, <2>2 DEF IncrExists
    <3>2. /\ \A r \in Procs : r # p => req'[r] = req[r]
          /\ req'[p].pc = "incr" /\ req'[p].email = req[p].email
      BY <2>1, <3>1, GotoMoves DEF Pcs
    <3> QED BY <1>k, <2>1, <3>2
  <2>3. CASE signups[req[p].email] = None
    <3>1. Finish(p)
      BY <1>11, <2>3 DEF IncrExists
    <3>2. \A r \in Procs : r # p => req'[r] = req[r]
      BY <3>1, FinishMoves
    <3>3. CASE req[p].email # e
      BY <1>k, <2>1, <3>2, <3>3
    <3>4. CASE req[p].email = e
      <4>1. tries'[e] = 0
        BY <1>0, <2>1, <2>3, <3>4 DEF CountedAt
      <4> QED BY <4>1, Cleared
    <3> QED BY <3>3, <3>4
  <2> QED BY <2>2, <2>3
<1>12. ASSUME NEW p \in Procs, IncrSignupAttempts(p) PROVE CountedAt(e)'
  <2>1. PICK s : s = IncrBy(signups[req[p].email])
    OBVIOUS
  <2>2. /\ req[p].pc = "incr" /\ signups' = [signups EXCEPT ![req[p].email] = s]
        /\ IF s.attempts >= MaxAttempts THEN Goto(p, "del") ELSE Finish(p)
        /\ tries' = tries /\ faults' = faults
    BY <1>12, <2>1 DEF IncrSignupAttempts
  <2>3. /\ \A r \in Procs : r # p => req'[r] = req[r]
        /\ s.attempts >= MaxAttempts => req'[p].pc = "del" /\ req'[p].email = req[p].email
    BY <2>2, GotoMoves, FinishMoves DEF Pcs
  <2>4. CASE req[p].email # e
    <3>1. signups'[e] = signups[e]
      BY <1>0, <2>2, <2>4
    <3> QED BY <1>k, <2>2, <2>3, <2>4, <3>1
  <2>5. CASE req[p].email = e
    <3>1. signups'[e] = s /\ s \in Signup /\ s.attempts = Attempts(e) + 1 /\ s # None
      <4>1. signups[e] \in Signup \cup {None}
        BY DEF Types
      <4>2. s \in Signup /\ s.attempts = (IF signups[e] = None THEN 0 ELSE signups[e].attempts) + 1
        BY <2>1, <2>5, <4>1, SignupRows
      <4> QED BY <1>0, <2>2, <2>5, <4>2, SignUpAssumption DEF Attempts
    <3>2. Attempts(e)' = Attempts(e) + 1
      BY <3>1 DEF Attempts
    <3>3. /\ Comparing(e)' \in SUBSET Procs /\ Counting(e)' \in SUBSET Procs
          /\ Comparing(e) \subseteq Comparing(e)' \cup {p}
          /\ Comparing(e)' \subseteq Counting(e)'
          /\ s.attempts >= MaxAttempts => Counting(e) \subseteq Counting(e)'
      BY <2>3, <2>5 DEF Comparing, Counting
    <3>4. /\ Comparing(e) \in SUBSET Procs /\ Counting(e) \in SUBSET Procs
          /\ Cardinality(Comparing(e)) \in Nat /\ Cardinality(Counting(e)) \in Nat
          /\ Attempts(e) \in Nat /\ tries[e] \in Nat /\ faults \in Nat /\ MaxAttempts - 1 \in Nat
      BY CountsAreNumbers
    <3>5. /\ Cardinality(Comparing(e)) <= Cardinality(Comparing(e)') + 1
          /\ Cardinality(Comparing(e)') <= Cardinality(Counting(e)')
          /\ s.attempts >= MaxAttempts => Cardinality(Counting(e)) <= Cardinality(Counting(e)')
          /\ Cardinality(Comparing(e)') \in Nat /\ Cardinality(Counting(e)') \in Nat
      BY <3>3, <3>4, SomeOfProcs
    <3>6. tries[e] <= Attempts(e) + 1 + Cardinality(Comparing(e)') + faults
      BY <1>0, <3>4, <3>5 DEF CountedAt
    <3>7. tries[e] <= MaxAttempts - 1 + Cardinality(Counting(e)') + faults
      <4>1. CASE s.attempts >= MaxAttempts
        BY <1>0, <3>4, <3>5, <4>1 DEF CountedAt
      <4>2. CASE ~(s.attempts >= MaxAttempts)
        <5>1. Attempts(e) + 1 <= MaxAttempts - 1
          BY <3>1, <3>4, <4>2, SignUpAssumption
        <5> QED BY <3>4, <3>5, <3>6, <5>1
      <4> QED BY <4>1, <4>2
    <3> QED BY <2>2, <3>1, <3>2, <3>6, <3>7 DEF CountedAt
  <2> QED BY <2>4, <2>5
<1>13. ASSUME NEW p \in Procs, VerifyRecheck(p) \/ ConsumeInvite(p) \/ CreateUser(p) \/ ReleaseInvite(p)
       PROVE  CountedAt(e)'
  <2>1. /\ req[p].pc \in {"recheck", "consume", "create", "release"}
        /\ signups' = signups /\ tries' = tries /\ faults' = faults
    BY <1>13 DEF VerifyRecheck, ConsumeInvite, CreateUser, ReleaseInvite
  <2>2. \A r \in Procs : r # p => req'[r] = req[r]
    BY <1>13 DEF VerifyRecheck, ConsumeInvite, CreateUser, ReleaseInvite, Goto, Finish, Types
  <2> QED BY <1>k, <2>1, <2>2
<1>14. ASSUME NEW p \in Procs, CallFails(p) \/ Dies(p) PROVE CountedAt(e)'
  <2>1. signups' = signups /\ tries' = tries /\ faults' = faults + 1
    BY <1>14 DEF CallFails, Dies
  <2>2. \A r \in Procs : r # p => req'[r] = req[r]
    BY <1>14 DEF CallFails, Dies, Goto, Finish, Types
  <2> QED BY <1>k, <2>1, <2>2
<1> QED BY <1>1, <1>2, <1>3, <1>4, <1>5, <1>6, <1>7, <1>8, <1>9, <1>10, <1>11, <1>12, <1>13, <1>14 DEF Next

LEMMA CountedInit == Init => Counted
<1> SUFFICES ASSUME Init, NEW e \in Emails PROVE CountedAt(e)
  BY DEF Counted
<1>1. Types
  BY TypesInit
<1>2. tries[e] = 0
  BY DEF Init
<1>3. /\ Cardinality(Comparing(e)) \in Nat /\ Cardinality(Counting(e)) \in Nat
      /\ Attempts(e) \in Nat /\ faults \in Nat /\ MaxAttempts - 1 \in Nat
  BY <1>1, CountsAreNumbers
<1> QED BY <1>2, <1>3 DEF CountedAt

LEMMA CountedBounds == Types /\ Counted => AttemptsAreBounded
<1> SUFFICES ASSUME Types, Counted, NEW e \in Emails
             PROVE  tries[e] <= MaxAttempts - 1 + Cardinality(Procs) + faults
  BY DEF AttemptsAreBounded
<1>1. /\ Counting(e) \in SUBSET Procs /\ Cardinality(Counting(e)) \in Nat
      /\ tries[e] \in Nat /\ faults \in Nat /\ MaxAttempts - 1 \in Nat
  BY CountsAreNumbers
<1>2. Cardinality(Counting(e)) <= Cardinality(Procs) /\ Cardinality(Procs) \in Nat
  BY <1>1, FS_Subset, FS_CardinalityType, SignUpAssumption
<1>3. tries[e] <= MaxAttempts - 1 + Cardinality(Counting(e)) + faults
  BY DEF Counted, CountedAt
<1> QED BY <1>1, <1>2, <1>3

\* However many requests compare codes with one pending sign-up at once, and whichever of
\* them die before IncrSignupAttempts counts theirs, no more wrong codes are compared than
\* the limit and one for each request under way and each one that died.
THEOREM GuessesAreBounded == Spec => []AttemptsAreBounded
<1>1. Init => Counted
  BY CountedInit
<1>2. Types /\ Types' /\ Counted /\ [Next]_vars => Counted'
  BY CountedNext
<1> QED BY <1>1, <1>2, TypeCorrect, CountedBounds, PTL DEF Spec

(***************************************************************************)
(* Invitations and accounts balance                                        *)
(***************************************************************************)
\* A request between spending its invitation and creating the account or handing it back.
Holding(p) == req[p].pc \in {"create", "release"}

\* Requests mint different ids, and one that is holding has an id no account has.
OwnIDs ==
    /\ \A p, q \in Procs : p # q /\ req[p].uid = req[q].uid => req[p].uid = None
    /\ \A p \in Procs : Holding(p) => req[p].uid \in UserIDs \ Rows(users)

\* Only invite-only registration carries invitations.
Invited ==
    /\ \A p \in Procs : req[p].invite # None => InviteOnly
    /\ \A e \in Emails : signups[e] # None /\ signups[e].invite # None => InviteOnly

\* What a request is holding is spent in its name, and only what is spent is handed back.
HeldIsSpent ==
    \A p \in Procs : Holding(p) =>
        /\ req[p].invite # None => /\ req[p].invite \in Rows(invites)
                                   /\ invites[req[p].invite].used = TRUE
                                   /\ invites[req[p].invite].by = req[p].uid
        /\ req[p].pc = "release" => req[p].invite # None

\* An account's invitation is spent in its name.
Vouched ==
    \A u \in Rows(users) : users[u].via # None =>
        /\ users[u].via \in Rows(invites)
        /\ invites[users[u].via].used = TRUE
        /\ invites[users[u].via].by = u

\* What is spent is an account's, or a request's, or stranded.
Owned ==
    \A i \in Rows(invites) : invites[i].used = TRUE =>
        \/ invites[i].by \in Rows(users)
        \/ \E p \in Procs : req[p].invite = i /\ Holding(p)
        \/ i \in stranded

Balance == OwnIDs /\ Invited /\ HeldIsSpent /\ Vouched /\ Owned

LEMMA BalanceIsBalance == Types /\ Balance => InvitesBalance
BY DEF Types, Balance, Vouched, Owned, Holding, InvitesBalance

LEMMA BalanceInit == Init => Balance
<1> SUFFICES ASSUME Init PROVE Balance
  OBVIOUS
<1>1. Idle.pc = "idle" /\ Idle.invite = None /\ Idle.uid = None
  BY DEF Idle
<1>2. \A p \in Procs : req[p].pc = "idle" /\ req[p].invite = None /\ req[p].uid = None
  BY <1>1 DEF Init
<1>3. Rows(users) = {} /\ Rows(invites) = {} /\ \A e \in Emails : signups[e] = None
  BY DEF Init, Rows
<1> QED BY <1>2, <1>3 DEF Balance, OwnIDs, Invited, HeldIsSpent, Vouched, Owned, Holding

\* A step of a request that holds nothing before and after.
LEMMA NothingHeld ==
    ASSUME Types, Types', Balance, NEW p \in Procs, \A r \in Procs : r # p => req'[r] = req[r],
           ~Holding(p), req'[p].pc \notin {"create", "release"},
           req'[p].uid \in {None, req[p].uid},
           users' = users, invites' = invites, stranded' = stranded, Invited'
    PROVE  Balance'
<1>1. OwnIDs'
  BY DEF Balance, OwnIDs, Holding
<1>2. HeldIsSpent'
  BY DEF Balance, HeldIsSpent, Holding
<1>3. Vouched'
  BY DEF Balance, Vouched
<1>4. Owned'
  BY DEF Balance, Owned, Holding
<1> QED BY <1>1, <1>2, <1>3, <1>4 DEF Balance

\* Steps of nobody's request.
LEMMA NoRequest ==
    ASSUME Types, Balance, req' = req, users' = users, invites' = invites, stranded' = stranded,
           \A e \in Emails : signups'[e] = signups[e] \/ signups'[e] = None
    PROVE  Balance'
<1>1. Invited'
  BY DEF Balance, Invited
<1>2. OwnIDs'
  BY DEF Balance, OwnIDs, Holding
<1>3. HeldIsSpent'
  BY DEF Balance, HeldIsSpent, Holding
<1>4. Vouched'
  BY DEF Balance, Vouched
<1>5. Owned'
  BY DEF Balance, Owned, Holding
<1> QED BY <1>1, <1>2, <1>3, <1>4, <1>5 DEF Balance

\* The administrator's steps.
LEMMA BalanceAdmin ==
    ASSUME Types, Types', Balance, NEW i \in Invites, CreateInvite(i) \/ RevokeInvite(i)
    PROVE  Balance'
<1>1. /\ req' = req /\ users' = users /\ stranded' = stranded /\ signups' = signups
  BY DEF CreateInvite, RevokeInvite
<1>2. /\ Rows(invites) \subseteq Rows(invites')
      /\ \A k \in Rows(invites) : invites'[k].used = invites[k].used /\ invites'[k].by = invites[k].by
      /\ \A k \in Rows(invites') \ Rows(invites) : invites'[k].used = FALSE
  <2>1. CASE CreateInvite(i)
    <3>1. /\ invites' \in InviteTable /\ invites[i] = None /\ invites'[i] # None
          /\ invites'[i].used = FALSE
          /\ \A k \in Invites : k # i => invites'[k] = invites[k]
      BY <2>1, CreatedIsTyped
    <3> QED BY <3>1 DEF Types, InviteTable, Rows
  <2>2. CASE RevokeInvite(i)
    BY <2>2, RevokedIsTyped
  <2> QED BY <2>1, <2>2
<1>3. Invited' /\ OwnIDs'
  BY <1>1 DEF Balance, Invited, OwnIDs, Holding
<1>4. HeldIsSpent'
  BY <1>1, <1>2 DEF Balance, HeldIsSpent, Holding
<1>5. Vouched'
  BY <1>1, <1>2 DEF Balance, Vouched
<1>6. Owned'
  BY <1>1, <1>2 DEF Balance, Owned, Holding
<1> QED BY <1>3, <1>4, <1>5, <1>6 DEF Balance

\* An account comes to be: its id is new, and if it has an invitation then that is spent in
\* its name.  The request p that creates it then holds nothing.
LEMMA AccountAdded ==
    ASSUME Types, Types', Balance, NEW p \in Procs, \A r \in Procs : r # p => req'[r] = req[r],
           NEW u \in UserIDs \ Rows(users), NEW row \in User, users' = [users EXCEPT ![u] = row],
           \A r \in Procs : r # p => req[r].uid # u,
           row.via # None => /\ row.via \in Rows(invites)
                             /\ invites[row.via].used = TRUE /\ invites[row.via].by = u,
           Holding(p) => req[p].uid = u,
           req'[p].pc \notin {"create", "release"}, req'[p].uid \in {None, req[p].uid},
           req'[p].invite \in {None, req[p].invite},
           invites' = invites, stranded' = stranded, signups' = signups
    PROVE  Balance'
<1>1. row # None /\ DOMAIN users = UserIDs
  BY SignUpAssumption DEF Types
<1>2. users'[u] = row /\ (\A v \in UserIDs : v # u => users'[v] = users[v]) /\ DOMAIN users' = UserIDs
  BY <1>1
<1>3. Rows(users') = Rows(users) \cup {u}
  BY <1>1, <1>2 DEF Rows
<1>4. Invited'
  BY DEF Balance, Invited
<1>5. OwnIDs'
  <2>1. \A q, r \in Procs : q # r /\ req'[q].uid = req'[r].uid => req'[q].uid = None
    BY DEF Balance, OwnIDs
  <2>2. \A q \in Procs : req'[q].pc \in {"create", "release"} => req'[q].uid \in UserIDs \ Rows(users')
    BY <1>3 DEF Balance, OwnIDs, Holding
  <2> QED BY <2>1, <2>2 DEF OwnIDs, Holding
<1>6. HeldIsSpent'
  BY DEF Balance, HeldIsSpent, Holding
<1>7. Vouched'
  BY <1>2, <1>3 DEF Balance, Vouched, Rows
<1>8. Owned'
  <2> SUFFICES ASSUME NEW i \in Rows(invites), invites[i].used = TRUE,
                      invites[i].by \notin Rows(users'), i \notin stranded
               PROVE  \E q \in Procs : req'[q].invite = i /\ req'[q].pc \in {"create", "release"}
    BY DEF Owned, Holding
  <2>1. PICK q \in Procs : req[q].invite = i /\ Holding(q)
    BY <1>3 DEF Balance, Owned
  <2>2. i # None
    BY SignUpAssumption, RowOf DEF Types
  <2>3. invites[i].by = req[q].uid
    BY <2>1, <2>2 DEF Balance, HeldIsSpent
  <2>4. q # p
    BY <1>3, <2>1, <2>3
  <2> QED BY <2>1, <2>4 DEF Holding
<1> QED BY <1>4, <1>5, <1>6, <1>7, <1>8 DEF Balance

LEMMA BalanceAdminCreate ==
    ASSUME Types, Types', Balance, NEW p \in Procs, AdminCreate(p)
    PROVE  Balance'
<1>1. PICK u \in FreshIDs : users' = MongoCreateUser(users, u, NewUser(req[p].email, None)).table
  BY DEF AdminCreate
<1>2. /\ u \in UserIDs \ Rows(users) /\ (\A r \in Procs : req[r].uid # u)
      /\ req[p].pc = "adminCreate" /\ req[p].email \in Emails /\ Finish(p)
      /\ invites' = invites /\ stranded' = stranded /\ signups' = signups
  BY DEF AdminCreate, FreshIDs, At, Types
<1>3. /\ \A r \in Procs : r # p => req'[r] = req[r]
      /\ req'[p].pc = "idle" /\ req'[p].uid = None /\ req'[p].invite = None
  BY <1>2, FinishMoves
<1>4. PICK row : row = NewUser(req[p].email, None)
  OBVIOUS
<1>5. row \in User /\ row.via = None
  BY <1>2, <1>4 DEF NewUser, User
<1>6. users' = users \/ users' = [users EXCEPT ![u] = row]
  BY <1>1, <1>4, Inserted
<1>7. CASE users' = users
  <2>1. Invited'
    BY <1>2, <1>3 DEF Balance, Invited
  <2> QED BY <1>2, <1>3, <1>7, <2>1, NothingHeld DEF Holding
<1>8. CASE users' = [users EXCEPT ![u] = row]
  BY <1>2, <1>3, <1>5, <1>8, AccountAdded DEF Holding
<1> QED BY <1>6, <1>7, <1>8

LEMMA BalanceConsume ==
    ASSUME Types, Types', Balance, NEW p \in Procs, ConsumeInvite(p)
    PROVE  Balance'
<1>1. PICK u \in FreshIDs :
        IF InviteOnly /\ req[p].invite # None
        THEN LET r == MongoConsumeInvite(invites, req[p].invite, u, now) IN
             /\ invites' = r.table
             /\ IF r.err = "none"
                THEN req' = [req EXCEPT ![p].pc = "create", ![p].uid = u]
                ELSE Goto(p, "del")
        ELSE req' = [req EXCEPT ![p].pc = "create", ![p].uid = u] /\ UNCHANGED invites
  BY DEF ConsumeInvite
<1>2. /\ u \in UserIDs \ Rows(users) /\ (\A r \in Procs : req[r].uid # u) /\ u # None
      /\ req[p].pc = "consume" /\ req[p].invite \in Invites \cup {None}
      /\ users' = users /\ stranded' = stranded /\ signups' = signups
  BY SignUpAssumption DEF ConsumeInvite, FreshIDs, At, Types, Request
<1>3. ~Holding(p)
  BY <1>2 DEF Holding
<1>4. CASE Goto(p, "del") /\ invites' = invites
  <2>1. /\ \A r \in Procs : r # p => req'[r] = req[r]
        /\ req'[p].pc = "del" /\ req'[p].uid = req[p].uid /\ req'[p].invite = req[p].invite
    BY <1>2, <1>4, GotoMoves DEF Pcs
  <2>2. Invited'
    BY <1>2, <2>1 DEF Balance, Invited
  <2> QED BY <1>2, <1>3, <1>4, <2>1, <2>2, NothingHeld
<1>5. CASE /\ req' = [req EXCEPT ![p].pc = "create", ![p].uid = u]
           /\ \/ req[p].invite = None /\ invites' = invites
              \/ /\ req[p].invite \in Rows(invites) /\ Rows(invites') = Rows(invites)
                 /\ invites[req[p].invite].used # TRUE
                 /\ invites'[req[p].invite].used = TRUE /\ invites'[req[p].invite].by = u
                 /\ \A k \in Invites : k # req[p].invite => invites'[k] = invites[k]
  <2>1. /\ \A r \in Procs : r # p => req'[r] = req[r]
        /\ req'[p].pc = "create" /\ req'[p].uid = u /\ req'[p].invite = req[p].invite
    BY <1>2, <1>5, MintMoves
  <2>2. /\ Rows(invites') = Rows(invites) /\ Rows(invites) \subseteq Invites
        /\ \A k \in Rows(invites) : k # req[p].invite => invites'[k] = invites[k]
        /\ req[p].invite # None => /\ req[p].invite \in Rows(invites)
                                   /\ invites[req[p].invite].used # TRUE
                                   /\ invites'[req[p].invite].used = TRUE
                                   /\ invites'[req[p].invite].by = u
    BY <1>5, SignUpAssumption, RowOf DEF Types
  <2>3. Invited'
    BY <1>2, <2>1 DEF Balance, Invited
  <2>4. OwnIDs'
    <3>1. \A q, r \in Procs : q # r /\ req'[q].uid = req'[r].uid => req'[q].uid = None
      BY <1>2, <2>1 DEF Balance, OwnIDs
    <3>2. \A q \in Procs : req'[q].pc \in {"create", "release"} => req'[q].uid \in UserIDs \ Rows(users')
      BY <1>2, <2>1 DEF Balance, OwnIDs, Holding
    <3> QED BY <3>1, <3>2 DEF OwnIDs, Holding
  <2>5. HeldIsSpent'
    <3> SUFFICES ASSUME NEW q \in Procs, req'[q].pc \in {"create", "release"}
                 PROVE  /\ req'[q].invite # None => /\ req'[q].invite \in Rows(invites')
                                                    /\ invites'[req'[q].invite].used = TRUE
                                                    /\ invites'[req'[q].invite].by = req'[q].uid
                        /\ req'[q].pc = "release" => req'[q].invite # None
      BY DEF HeldIsSpent, Holding
    <3>1. CASE q = p
      BY <2>1, <2>2, <3>1
    <3>2. CASE q # p
      <4>1. req'[q] = req[q] /\ Holding(q)
        BY <2>1, <3>2 DEF Holding
      <4>2. /\ req[q].invite # None => /\ req[q].invite \in Rows(invites)
                                       /\ invites[req[q].invite].used = TRUE
                                       /\ invites[req[q].invite].by = req[q].uid
            /\ req[q].pc = "release" => req[q].invite # None
        BY <4>1 DEF Balance, HeldIsSpent
      <4>3. req[q].invite # None => req[q].invite # req[p].invite
        BY <2>2, <4>2
      <4> QED BY <2>2, <4>1, <4>2, <4>3
    <3> QED BY <3>1, <3>2
  <2>6. Vouched'
    <3> SUFFICES ASSUME NEW v \in Rows(users), users[v].via # None
                 PROVE  /\ users[v].via \in Rows(invites')
                        /\ invites'[users[v].via].used = TRUE
                        /\ invites'[users[v].via].by = v
      BY <1>2 DEF Vouched
    <3>1. /\ users[v].via \in Rows(invites) /\ invites[users[v].via].used = TRUE
          /\ invites[users[v].via].by = v
      BY DEF Balance, Vouched
    <3>2. users[v].via # req[p].invite
      BY <2>2, <3>1
    <3> QED BY <2>2, <3>1, <3>2
  <2>7. Owned'
    <3> SUFFICES ASSUME NEW k \in Rows(invites), invites'[k].used = TRUE,
                        invites'[k].by \notin Rows(users), k \notin stranded
                 PROVE  \E q \in Procs : req'[q].invite = k /\ req'[q].pc \in {"create", "release"}
      BY <1>2, <2>2 DEF Owned, Holding
    <3>1. CASE k = req[p].invite
      BY <2>1, <3>1
    <3>2. CASE k # req[p].invite
      <4>1. PICK q \in Procs : req[q].invite = k /\ Holding(q)
        BY <2>2, <3>2 DEF Balance, Owned
      <4>2. q # p
        BY <1>3, <4>1
      <4> QED BY <2>1, <4>1, <4>2 DEF Holding
    <3> QED BY <3>1, <3>2
  <2> QED BY <2>3, <2>4, <2>5, <2>6, <2>7 DEF Balance
<1>6. CASE InviteOnly /\ req[p].invite # None
  <2>1. PICK r : r = MongoConsumeInvite(invites, req[p].invite, u, now)
    OBVIOUS
  <2>2. /\ invites' = r.table
        /\ IF r.err = "none" THEN req' = [req EXCEPT ![p].pc = "create", ![p].uid = u]
                             ELSE Goto(p, "del")
    BY <1>1, <1>6, <2>1
  <2>3. \/ r.err # "none" /\ invites' = invites
        \/ /\ r.err = "none" /\ req[p].invite \in Rows(invites) /\ Rows(invites') = Rows(invites)
           /\ invites[req[p].invite].used # TRUE
           /\ invites'[req[p].invite].used = TRUE /\ invites'[req[p].invite].by = u
           /\ \A k \in Invites : k # req[p].invite => invites'[k] = invites[k]
    BY <1>2, <1>6, <2>1, <2>2, ConsumedIsTyped
  <2> QED BY <1>4, <1>5, <2>2, <2>3
<1>7. CASE ~(InviteOnly /\ req[p].invite # None)
  <2>1. req[p].invite = None
    BY <1>7 DEF Balance, Invited
  <2> QED BY <1>1, <1>5, <1>7, <2>1
<1> QED BY <1>6, <1>7

\* A request goes away: what it was holding, if anything, is stranded.
LEMMA BalanceLetsGo ==
    ASSUME Types, Types', Balance, NEW p \in Procs, \A r \in Procs : r # p => req'[r] = req[r],
           req'[p].pc \notin {"create", "release"}, req'[p].uid \in {None, req[p].uid},
           req'[p].invite \in {None, req[p].invite},
           users' = users, invites' = invites, signups' = signups, stranded \subseteq stranded',
           Holding(p) /\ req[p].invite # None => req[p].invite \in stranded'
    PROVE  Balance'
<1>1. Invited'
  BY DEF Balance, Invited
<1>2. OwnIDs'
  BY DEF Balance, OwnIDs, Holding
<1>3. HeldIsSpent'
  BY DEF Balance, HeldIsSpent, Holding
<1>4. Vouched'
  BY DEF Balance, Vouched
<1>5. Owned'
  <2> SUFFICES ASSUME NEW k \in Rows(invites), invites[k].used = TRUE,
                      invites[k].by \notin Rows(users), k \notin stranded'
               PROVE  \E q \in Procs : req'[q].invite = k /\ req'[q].pc \in {"create", "release"}
    BY DEF Owned, Holding
  <2>1. PICK q \in Procs : req[q].invite = k /\ Holding(q)
    BY DEF Balance, Owned
  <2>2. k # None
    BY SignUpAssumption, RowOf DEF Types
  <2>3. q # p
    BY <2>1, <2>2
  <2> QED BY <2>1, <2>3 DEF Holding
<1> QED BY <1>1, <1>2, <1>3, <1>4, <1>5 DEF Balance

\* A request whose insert failed goes on to hand its invitation back.
LEMMA BalanceToRelease ==
    ASSUME Types, Types', Balance, NEW p \in Procs, req[p].pc = "create", req[p].invite # None,
           Goto(p, "release"),
           users' = users, invites' = invites, signups' = signups, stranded' = stranded
    PROVE  Balance'
<1>1. /\ \A r \in Procs : r # p => req'[r] = req[r]
      /\ req'[p].pc = "release" /\ req'[p].uid = req[p].uid /\ req'[p].invite = req[p].invite
  BY GotoMoves DEF Pcs
<1>2. Invited'
  BY <1>1 DEF Balance, Invited
<1>3. OwnIDs'
  BY <1>1 DEF Balance, OwnIDs, Holding
<1>4. HeldIsSpent'
  BY <1>1 DEF Balance, HeldIsSpent, Holding
<1>5. Vouched'
  BY DEF Balance, Vouched
<1>6. Owned'
  BY <1>1 DEF Balance, Owned, Holding
<1> QED BY <1>2, <1>3, <1>4, <1>5, <1>6 DEF Balance

LEMMA BalanceCreateUser ==
    ASSUME Types, Types', Balance, NEW p \in Procs, CreateUser(p)
    PROVE  Balance'
<1>1. PICK held : held = IF InviteOnly THEN req[p].invite ELSE None
  OBVIOUS
<1>2. PICK row : row = NewUser(req[p].email, held)
  OBVIOUS
<1>3. PICK r : r = MongoCreateUser(users, req[p].uid, row)
  OBVIOUS
<1>4. /\ req[p].pc = "create" /\ users' = r.table
      /\ Goto(p, IF r.err = "none" THEN "del" ELSE IF held # None THEN "release" ELSE "idle")
      /\ invites' = invites /\ stranded' = stranded /\ signups' = signups
  BY <1>1, <1>2, <1>3 DEF CreateUser, At
<1>5. held = req[p].invite /\ Holding(p)
  BY <1>1, <1>4 DEF Balance, Invited, Holding
<1>6. CASE r.err # "none" /\ r.table = users /\ held # None
  <2>1. Goto(p, "release")
    BY <1>4, <1>6
  <2> QED BY <1>4, <1>5, <1>6, <2>1, BalanceToRelease
<1>7. CASE r.err # "none" /\ r.table = users /\ held = None
  <2>1. Goto(p, "idle")
    BY <1>4, <1>7
  <2>2. /\ \A q \in Procs : q # p => req'[q] = req[q]
        /\ req'[p].pc = "idle" /\ req'[p].uid = req[p].uid /\ req'[p].invite = req[p].invite
    BY <1>4, <2>1, GotoMoves DEF Pcs
  <2> QED BY <1>4, <1>5, <1>7, <2>2, BalanceLetsGo
<1>8. CASE /\ r.err = "none" /\ r.table = [users EXCEPT ![req[p].uid] = row]
           /\ req[p].uid \notin Rows(users)
  <2>1. Goto(p, "del")
    BY <1>4, <1>8
  <2>2. /\ \A q \in Procs : q # p => req'[q] = req[q]
        /\ req'[p].pc = "del" /\ req'[p].uid = req[p].uid /\ req'[p].invite = req[p].invite
    BY <1>4, <2>1, GotoMoves DEF Pcs
  <2>3. PICK u : u = req[p].uid
    OBVIOUS
  <2>4. u \in UserIDs \ Rows(users) /\ u # None
    BY <1>5, <2>3, SignUpAssumption DEF Balance, OwnIDs
  <2>5. \A q \in Procs : q # p => req[q].uid # u
    BY <2>3, <2>4 DEF Balance, OwnIDs
  <2>6. row \in User /\ row.via = held
    <3>1. req[p].email \in Emails /\ held \in Invites \cup {None}
      BY <1>4, <1>5 DEF Types, Request
    <3> QED BY <1>2, <3>1 DEF NewUser, User
  <2>7. row.via # None => /\ row.via \in Rows(invites)
                          /\ invites[row.via].used = TRUE /\ invites[row.via].by = u
    BY <1>5, <2>3, <2>6 DEF Balance, HeldIsSpent
  <2>8. users' = [users EXCEPT ![u] = row]
    BY <1>4, <1>8, <2>3
  <2>9. /\ Holding(p) => req[p].uid = u
        /\ req'[p].pc \notin {"create", "release"} /\ req'[p].uid \in {None, req[p].uid}
        /\ req'[p].invite \in {None, req[p].invite}
    BY <2>2, <2>3
  <2>10. /\ \A q \in Procs : q # p => req'[q] = req[q]
         /\ invites' = invites /\ stranded' = stranded /\ signups' = signups
    BY <1>4, <2>2
  <2> QED BY <2>4, <2>5, <2>6, <2>7, <2>8, <2>9, <2>10, AccountAdded
<1>9. \/ r.err # "none" /\ r.table = users
      \/ /\ r.err = "none" /\ r.table = [users EXCEPT ![req[p].uid] = row]
         /\ req[p].uid \notin Rows(users)
  BY <1>3, Inserted
<1> QED BY <1>6, <1>7, <1>8, <1>9

LEMMA BalanceRelease ==
    ASSUME Types, Types', Balance, NEW p \in Procs, ReleaseInvite(p)
    PROVE  Balance'
<1>1. PICK i : i = req[p].invite
  OBVIOUS
<1>2. /\ req[p].pc = "release" /\ Finish(p) /\ i \in Invites \cup {None}
      /\ invites' = MongoReleaseInvite(invites, i).table
      /\ users' = users /\ stranded' = stranded /\ signups' = signups
  BY <1>1 DEF ReleaseInvite, At, Types, Request
<1>3. /\ \A r \in Procs : r # p => req'[r] = req[r]
      /\ req'[p].pc = "idle" /\ req'[p].uid = None /\ req'[p].invite = None
  BY <1>2, FinishMoves
<1>4. /\ i \in Rows(invites) /\ invites[i].used = TRUE /\ invites[i].by = req[p].uid
      /\ req[p].uid \in UserIDs \ Rows(users)
  BY <1>1, <1>2 DEF Balance, HeldIsSpent, OwnIDs, Holding
<1>5. /\ Rows(invites') = Rows(invites) /\ invites'[i].used = FALSE
      /\ \A k \in Rows(invites) : k # i => invites'[k] = invites[k]
  <2>1. /\ Rows(invites') = Rows(invites) /\ invites'[i].used = FALSE
        /\ \A k \in Invites : k # i => invites'[k] = invites[k]
    BY <1>2, <1>4, ReleasedIsTyped
  <2> QED BY <2>1, RowOf DEF Types
<1>6. Invited'
  BY <1>2, <1>3 DEF Balance, Invited
<1>7. OwnIDs'
  BY <1>2, <1>3 DEF Balance, OwnIDs, Holding
<1>8. HeldIsSpent'
  <2> SUFFICES ASSUME NEW q \in Procs, req'[q].pc \in {"create", "release"}
               PROVE  /\ req'[q].invite # None => /\ req'[q].invite \in Rows(invites')
                                                  /\ invites'[req'[q].invite].used = TRUE
                                                  /\ invites'[req'[q].invite].by = req'[q].uid
                      /\ req'[q].pc = "release" => req'[q].invite # None
    BY DEF HeldIsSpent, Holding
  <2>1. q # p /\ req'[q] = req[q] /\ Holding(q)
    BY <1>3 DEF Holding
  <2>2. /\ req[q].invite # None => /\ req[q].invite \in Rows(invites)
                                   /\ invites[req[q].invite].used = TRUE
                                   /\ invites[req[q].invite].by = req[q].uid
        /\ req[q].pc = "release" => req[q].invite # None
        /\ req[q].uid \in UserIDs
    BY <2>1 DEF Balance, HeldIsSpent, OwnIDs
  <2>3. req[q].uid # req[p].uid
    BY <1>4, <2>1, SignUpAssumption DEF Balance, OwnIDs
  <2>4. req[q].invite # None => req[q].invite # i
    BY <1>4, <2>2, <2>3
  <2> QED BY <1>5, <2>1, <2>2, <2>4
<1>9. Vouched'
  <2> SUFFICES ASSUME NEW v \in Rows(users), users[v].via # None
               PROVE  /\ users[v].via \in Rows(invites')
                      /\ invites'[users[v].via].used = TRUE
                      /\ invites'[users[v].via].by = v
    BY <1>2 DEF Vouched
  <2>1. /\ users[v].via \in Rows(invites) /\ invites[users[v].via].used = TRUE
        /\ invites[users[v].via].by = v
    BY DEF Balance, Vouched
  <2>2. users[v].via # i
    BY <1>4, <2>1
  <2> QED BY <1>5, <2>1, <2>2
<1>10. Owned'
  <2> SUFFICES ASSUME NEW k \in Rows(invites), invites'[k].used = TRUE,
                      invites'[k].by \notin Rows(users), k \notin stranded
               PROVE  \E q \in Procs : req'[q].invite = k /\ req'[q].pc \in {"create", "release"}
    BY <1>2, <1>5 DEF Owned, Holding
  <2>1. k # i
    BY <1>5
  <2>2. PICK q \in Procs : req[q].invite = k /\ Holding(q)
    BY <1>5, <2>1 DEF Balance, Owned
  <2>3. q # p
    BY <1>1, <2>1, <2>2
  <2> QED BY <1>3, <2>2, <2>3 DEF Holding
<1> QED BY <1>6, <1>7, <1>8, <1>9, <1>10 DEF Balance

LEMMA BalanceFault ==
    ASSUME Types, Types', Balance, ~LostAnswers, NEW p \in Procs, CallFails(p) \/ Dies(p)
    PROVE  Balance'
<1>1. CASE CallFails(p) /\ req[p].pc = "create" /\ InviteOnly /\ req[p].invite # None
  <2>1. /\ Goto(p, "release") /\ users' = users /\ invites' = invites
        /\ signups' = signups /\ stranded' = stranded
    BY <1>1 DEF CallFails, At
  <2> QED BY <1>1, <2>1, BalanceToRelease
<1>2. CASE Dies(p) \/ (CallFails(p) /\ ~(req[p].pc = "create" /\ InviteOnly /\ req[p].invite # None))
  <2>1. /\ Finish(p) /\ users' = users /\ invites' = invites /\ signups' = signups
        /\ stranded \subseteq stranded'
    BY <1>2 DEF CallFails, Dies, At
  <2>2. Holding(p) /\ req[p].invite # None => req[p].invite \in stranded'
    <3>1. req[p].invite # None => InviteOnly
      BY DEF Balance, Invited
    <3> QED BY <1>2, <3>1 DEF CallFails, Dies, At, Holding
  <2>3. /\ \A r \in Procs : r # p => req'[r] = req[r]
        /\ req'[p].pc = "idle" /\ req'[p].uid = None /\ req'[p].invite = None
    BY <2>1, FinishMoves
  <2> QED BY <2>1, <2>2, <2>3, BalanceLetsGo
<1> QED BY <1>1, <1>2

\* The steps of a request before it spends an invitation and after it is done.
LEMMA BalanceCheck ==
    ASSUME Types, Types', Balance, NEW p \in Procs, NEW e \in Emails,
           \/ AdminCheck(p, e)
           \/ \E i \in Invites \cup {None} : RegisterCheck(p, e, i)
           \/ \E right \in BOOLEAN : VerifyCompare(p, e, right)
    PROVE  Balance'
<1>1. /\ req[p].pc = "idle" /\ users' = users /\ invites' = invites
      /\ stranded' = stranded /\ signups' = signups
  BY DEF AdminCheck, RegisterCheck, VerifyCompare, At
<1>2. PICK q : /\ req' = [req EXCEPT ![p] = q] /\ q.uid = None /\ q.pc \notin {"create", "release"}
               /\ q.invite # None => InviteOnly
  <2>1. CASE AdminCheck(p, e)
    <3> DEFINE w == [Idle EXCEPT !.pc = "adminCreate", !.email = e]
    <3>a. w.uid = None /\ w.pc \notin {"create", "release"} /\ (w.invite # None => InviteOnly)
      BY DEF Idle
    <3>b. req' = [req EXCEPT ![p] = w]
      BY <2>1 DEF AdminCheck
    <3> HIDE DEF w
    <3> QED BY <3>a, <3>b
  <2>2. ASSUME NEW i \in Invites \cup {None}, RegisterCheck(p, e, i)
        PROVE  \E q : /\ req' = [req EXCEPT ![p] = q] /\ q.uid = None /\ q.pc \notin {"create", "release"}
                      /\ q.invite # None => InviteOnly
    <3> DEFINE w == [Idle EXCEPT !.pc = "put", !.email = e, !.invite = i]
    <3>a. w.uid = None /\ w.pc \notin {"create", "release"} /\ (w.invite # None => InviteOnly)
      BY <2>2 DEF RegisterCheck, Idle
    <3>b. req' = [req EXCEPT ![p] = w]
      BY <2>2 DEF RegisterCheck
    <3> HIDE DEF w
    <3> QED BY <3>a, <3>b
  <2>3. ASSUME NEW right \in BOOLEAN, VerifyCompare(p, e, right)
        PROVE  \E q : /\ req' = [req EXCEPT ![p] = q] /\ q.uid = None /\ q.pc \notin {"create", "release"}
                      /\ q.invite # None => InviteOnly
    <3>1. signups[e].invite # None => InviteOnly
      BY <2>3 DEF VerifyCompare, Balance, Invited
    <3> DEFINE w == [pc |-> IF right THEN "recheck" ELSE "exists", email |-> e,
                     invite |-> signups[e].invite, uid |-> None]
    <3>a. w.uid = None /\ w.pc \notin {"create", "release"} /\ (w.invite # None => InviteOnly)
      BY <3>1
    <3>b. req' = [req EXCEPT ![p] = w]
      BY <2>3 DEF VerifyCompare
    <3> HIDE DEF w
    <3> QED BY <3>a, <3>b
  <2> QED BY <2>1, <2>2, <2>3
<1>3. (\A r \in Procs : r # p => req'[r] = req[r]) /\ req'[p] = q
  BY <1>2 DEF Types
<1>4. Invited'
  BY <1>1, <1>2, <1>3 DEF Balance, Invited
<1> QED BY <1>1, <1>2, <1>3, <1>4, NothingHeld DEF Holding

LEMMA BalanceOther ==
    ASSUME Types, Types', Balance, NEW p \in Procs,
           \/ PutSignup(p) \/ IncrExists(p) \/ IncrSignupAttempts(p) \/ DelSignup(p) \/ VerifyRecheck(p)
    PROVE  Balance'
<1>1. /\ req[p].pc \in {"put", "exists", "incr", "del", "recheck"}
      /\ users' = users /\ invites' = invites /\ stranded' = stranded
      /\ \/ Finish(p) \/ Goto(p, "incr") \/ Goto(p, "del") \/ Goto(p, "consume")
  BY DEF PutSignup, IncrExists, IncrSignupAttempts, DelSignup, VerifyRecheck, At
<1>2. /\ \A r \in Procs : r # p => req'[r] = req[r]
      /\ req'[p].pc \notin {"create", "release"} /\ req'[p].uid \in {None, req[p].uid}
      /\ req'[p].invite \in {None, req[p].invite}
  BY <1>1, GotoMoves, FinishMoves DEF Pcs
<1>3. \A e \in Emails : signups'[e] # None /\ signups'[e].invite # None => InviteOnly
  <2>1. CASE PutSignup(p)
    <3>1. signups' = [signups EXCEPT ![req[p].email] =
                        [live |-> TRUE, attempts |-> 0, invite |-> req[p].invite]]
      BY <2>1 DEF PutSignup
    <3> QED BY <3>1 DEF Balance, Invited, Types
  <2>2. CASE IncrSignupAttempts(p)
    <3>1. PICK s : s = IncrBy(signups[req[p].email])
      OBVIOUS
    <3>2. signups' = [signups EXCEPT ![req[p].email] = s] /\ req[p].email \in Emails
      BY <1>1, <2>2, <3>1 DEF IncrSignupAttempts, Types
    <3>3. s.invite # None => InviteOnly
      <4>1. signups[req[p].email] \in Signup \cup {None}
        BY <3>2 DEF Types
      <4>2. s.invite = (IF signups[req[p].email] = None THEN None ELSE signups[req[p].email].invite)
        BY <3>1, <4>1, SignupRows
      <4> QED BY <3>2, <4>2 DEF Balance, Invited
    <3> QED BY <3>2, <3>3 DEF Balance, Invited, Types
  <2>3. CASE DelSignup(p)
    BY <2>3 DEF DelSignup, Balance, Invited, Types
  <2>4. CASE IncrExists(p) \/ VerifyRecheck(p)
    BY <2>4 DEF IncrExists, VerifyRecheck, Balance, Invited
  <2> QED BY <2>1, <2>2, <2>3, <2>4
<1>4. Invited'
  BY <1>2, <1>3 DEF Balance, Invited
<1> QED BY <1>1, <1>2, <1>4, NothingHeld DEF Holding

LEMMA BalanceNext ==
    ASSUME Types, Types', Balance, ~LostAnswers, [Next]_vars
    PROVE  Balance'
<1>1. CASE UNCHANGED vars
  BY <1>1, NoRequest DEF vars
<1>2. CASE Tick
  BY <1>2, NoRequest DEF Tick
<1>3. ASSUME NEW e \in Emails, CodeExpires(e) \/ CooldownEnds(e) PROVE Balance'
  <2>1. /\ req' = req /\ users' = users /\ invites' = invites /\ stranded' = stranded
        /\ \A x \in Emails : signups'[x] = signups[x] \/ signups'[x] = None
    BY <1>3 DEF CodeExpires, CooldownEnds, Types
  <2> QED BY <2>1, NoRequest
<1> QED BY <1>1, <1>2, <1>3, BalanceAdmin, BalanceCheck, BalanceAdminCreate, BalanceOther, BalanceConsume,
           BalanceCreateUser, BalanceRelease, BalanceFault DEF Next

\* As long as a failed insert is one that did not happen, an invitation and the account it
\* let in name one another, and what verify spent is an account's, a request's that will
\* create the account or hand it back, or lost with the request that died (ConsumeInvite,
\* CreateUser, ReleaseInvite, each a call of its own).
THEOREM SpentOnce == ASSUME ~LostAnswers PROVE Spec => []InvitesBalance
<1>1. Init => Balance
  BY BalanceInit
<1>2. Types /\ Types' /\ Balance /\ [Next]_vars => Balance'
  BY BalanceNext
<1> QED BY <1>1, <1>2, TypeCorrect, BalanceIsBalance, PTL DEF Spec

(***************************************************************************)
(* A session that was ended stays ended, for any number of requests,       *)
(* sessions, tokens, changes and restarts, however changes overlap.        *)
(*                                                                         *)
(* A change writes one row: of a session, or (Absent) of the account.      *)
(* The row is overwritten, whatever it holds.  As long as no two changes   *)
(* were about to write it at once, it does not move back: whoever writes   *)
(* it chose its second after the last change was complete.  What a change  *)
(* has ended is thus refused by the row as well as by the running process, *)
(* until it expires; and a restart loads exactly such rows.  What the      *)
(* running process refuses itself does not depend on the rows.             *)
(***************************************************************************)
Revocations == [cutoff : Nat, until : Nat, sids : [Sids -> Nat]]
Endings == [change : Nat, here : Nat, all : Nat, sids : [Sids -> Nat]]
Token == [sid : Sids, iat : Nat \ {0}]
EndingRows == Sids \cup {Absent}
Ops == Changes \cup {"none", "login", "refresh", "reset", "terminate"}
Minting == {"refreshLoad", "promote", "mint"}
Ending == {"del", "persist1", "cache1", "write", "reload", "persist2", "cache2"}
Writing == {"persist1", "cache1", "persist2", "cache2"}
SessionRequest == [pc : {"idle"} \cup Minting \cup Ending, op : Ops, sid : EndingRows, at : Nat]

SessionTypes ==
    /\ stored \in Revocations /\ cached \in Revocations /\ ended \in Endings
    /\ tokens \subseteq Token /\ crossed \subseteq EndingRows
    /\ handler \in [Handlers -> SessionRequest]
    /\ second \in Nat \ {0} /\ second <= MaxSeconds

\* A request's row and whether it is about to write it, of its record.
Ends(r) == r.op \in Changes \cup {"reset", "terminate"} /\ r.pc # "mint"
EndsRow(r) == IF r.op = "terminate" THEN r.sid ELSE Absent

\* The last second a row's completed changes have ended, what the row and its copy hold, and
\* what they hold to end second n.
Latest(w) == IF w = Absent THEN ended.all ELSE ended.sids[w]
Entry(w) == IF w = Absent THEN stored.cutoff ELSE stored.sids[w]
Copy(w) == IF w = Absent THEN cached.cutoff ELSE cached.sids[w]
Mark(w, n) == IF w = Absent THEN n + 1 ELSE n + TTL

\* A request signs for a session; it revokes as of a second that is past and, if nobody writes
\* its row beside it, not before what was ended; what it has stored is there until cached.
InOrder(r) ==
    /\ r \in SessionRequest /\ r.at <= second
    /\ r.op \in {"login", "refresh", "reset"} => r.sid \in Sids
    /\ r.pc \in Minting => r.op \in {"login", "refresh", "reset"}
    /\ r.pc \in Ending => Ends(r)
    /\ r.pc \in {"del", "reload"} => r.op = "reset"
    /\ r.pc \in Writing /\ EndsRow(r) \notin crossed =>
          /\ Latest(EndsRow(r)) <= r.at
          /\ r.pc \in {"cache1", "cache2"} => Entry(EndsRow(r)) = Mark(EndsRow(r), r.at)

RequestsInv == \A p \in Handlers : InOrder(handler[p])
OneEach ==
    \A p, q \in Handlers :
        Ends(handler[p]) /\ Ends(handler[q]) /\ EndsRow(handler[p]) = EndsRow(handler[q])
        /\ EndsRow(handler[p]) \notin crossed => p = q

PastInv == \A w \in EndingRows : Latest(w) <= second
StoredInv == stored.cutoff # 0 => stored.until = stored.cutoff + TTL
HereInv == ended.here = 0 \/ ended.here < cached.cutoff

\* What was ended is refused by the row, and by the process unless it has expired.
Refused(w) ==
    \/ Latest(w) = 0
    \/ /\ Mark(w, Latest(w)) <= Entry(w)
       /\ Mark(w, Latest(w)) <= Copy(w) \/ Latest(w) + TTL <= second
EndedInv == \A w \in EndingRows : w \notin crossed => Refused(w)

\* A request may go on as r: its row was its own before, or is crossed, or is nobody else's.
MayEnd(p, r) ==
    Ends(r) => \/ Ends(handler[p]) /\ EndsRow(handler[p]) = EndsRow(r)
               \/ EndsRow(r) \in crossed'
               \/ \A q \in Handlers \ {p} : Ends(handler[q]) => EndsRow(handler[q]) # EndsRow(r)

IInv == SessionTypes /\ RequestsInv /\ OneEach /\ PastInv /\ StoredInv /\ HereInv /\ EndedInv

-----------------------------------------------------------------------------
\* The rows and their copies are numbers.
LEMMA RowTypes ==
    ASSUME SessionsAssumption, SessionTypes, NEW w \in EndingRows
    PROVE  Latest(w) \in Nat /\ Entry(w) \in Nat /\ Copy(w) \in Nat /\ TTL \in Nat
           /\ \A n \in Nat : Mark(w, n) \in Nat
BY DEF SessionsAssumption, SessionTypes, Revocations, Endings, EndingRows, Latest, Entry, Copy, Mark

LEMMA RowIsRow == ASSUME NEW r \in SessionRequest PROVE EndsRow(r) \in EndingRows
BY DEF SessionRequest, EndsRow, EndingRows

\* Requests move on, and nothing else that matters here.
LEMMA RequestMoves ==
    ASSUME IInv, UNCHANGED <<stored, cached, tokens, second, ended>>,
           crossed \subseteq crossed', crossed' \subseteq EndingRows,
           NEW p \in Handlers, NEW r, handler' = [handler EXCEPT ![p] = r], InOrder(r),
           Ends(r) => \/ Ends(handler[p]) /\ EndsRow(handler[p]) = EndsRow(r)
                      \/ EndsRow(r) \in crossed'
                      \/ \A q \in Handlers \ {p} : Ends(handler[q]) => EndsRow(handler[q]) # EndsRow(r)
    PROVE  IInv'
<1> USE DEF IInv
<1>1. handler \in [Handlers -> SessionRequest] /\ r \in SessionRequest
  BY DEF SessionTypes, InOrder
<1>2. handler' \in [Handlers -> SessionRequest] /\ handler'[p] = r /\ \A q \in Handlers : q # p => handler'[q] = handler[q]
  BY <1>1
<1>3. SessionTypes'
  BY <1>2 DEF SessionTypes
<1>4. \A w : Latest(w)' = Latest(w) /\ Entry(w)' = Entry(w) /\ Copy(w)' = Copy(w)
  BY DEF Latest, Entry, Copy
<1>5. \A x : InOrder(x) => InOrder(x)'
  BY <1>4 DEF InOrder, Ends, EndsRow, Mark
<1>6. RequestsInv'
  BY <1>2, <1>5 DEF RequestsInv
<1>7. OneEach'
  <2> SUFFICES ASSUME NEW a \in Handlers, NEW b \in Handlers, Ends(handler'[a]), Ends(handler'[b]),
                      EndsRow(handler'[a]) = EndsRow(handler'[b]), EndsRow(handler'[a]) \notin crossed', a # b
               PROVE  FALSE
    BY DEF OneEach, Ends, EndsRow
  <2>1. CASE a # p /\ b # p
    BY <1>2, <2>1 DEF OneEach
  <2>2. CASE a = p \/ b = p
    <3>1. PICK q \in Handlers \ {p} : Ends(handler[q]) /\ EndsRow(handler[q]) = EndsRow(r)
                                      /\ EndsRow(r) \notin crossed' /\ Ends(r)
      BY <1>2, <2>2
    <3>2. Ends(handler[p]) /\ EndsRow(handler[p]) = EndsRow(r)
      BY <3>1
    <3> QED BY <3>1, <3>2 DEF OneEach
  <2> QED BY <2>1, <2>2
<1>8. PastInv'
  BY <1>4 DEF PastInv
<1>9. StoredInv' /\ HereInv'
  BY DEF StoredInv, HereInv
<1>10. EndedInv'
  BY <1>4 DEF EndedInv, Refused, Mark
<1> QED BY <1>3, <1>6, <1>7, <1>8, <1>9, <1>10

\* The request's record, after one or two of its fields are set.
LEMMA PcSet ==
    ASSUME SessionTypes, NEW p \in Handlers, NEW pc, handler' = [handler EXCEPT ![p].pc = pc]
    PROVE  handler' = [handler EXCEPT ![p] = [pc |-> pc, op |-> handler[p].op, sid |-> handler[p].sid, at |-> handler[p].at]]
<1>1. handler \in [Handlers -> SessionRequest] /\ handler[p] \in SessionRequest
  BY DEF SessionTypes
<1>2. PICK a, b, c, d : handler[p] = [pc |-> a, op |-> b, sid |-> c, at |-> d]
  BY <1>1 DEF SessionRequest
<1>3. [handler[p] EXCEPT !.pc = pc] = [pc |-> pc, op |-> b, sid |-> c, at |-> d]
  BY <1>2
<1>4. handler[p].op = b /\ handler[p].sid = c /\ handler[p].at = d
  BY <1>2
<1>5. handler' = [handler EXCEPT ![p] = [handler[p] EXCEPT !.pc = pc]]
  BY <1>1
<1> QED BY <1>3, <1>4, <1>5

LEMMA PcAndNowSet ==
    ASSUME SessionTypes, NEW p \in Handlers, NEW pc, handler' = [handler EXCEPT ![p].pc = pc, ![p].at = second]
    PROVE  handler' = [handler EXCEPT ![p] = [pc |-> pc, op |-> handler[p].op, sid |-> handler[p].sid, at |-> second]]
<1>1. handler \in [Handlers -> SessionRequest] /\ handler[p] \in SessionRequest
  BY DEF SessionTypes
<1>2. PICK a, b, c, d : handler[p] = [pc |-> a, op |-> b, sid |-> c, at |-> d]
  BY <1>1 DEF SessionRequest
<1>3. PICK q : q = [pc |-> pc, op |-> b, sid |-> c, at |-> d]
  OBVIOUS
<1>4. q = [handler[p] EXCEPT !.pc = pc] /\ [q EXCEPT !.at = second] = [pc |-> pc, op |-> b, sid |-> c, at |-> second]
  BY <1>2, <1>3
<1>5. handler[p].op = b /\ handler[p].sid = c
  BY <1>2
<1>6. handler' = [handler EXCEPT ![p] = [q EXCEPT !.at = second]]
  <2>1. handler' = [[handler EXCEPT ![p] = q] EXCEPT ![p] = [[handler EXCEPT ![p] = q][p] EXCEPT !.at = second]]
    BY <1>1, <1>4
  <2> QED BY <1>1, <2>1
<1> QED BY <1>4, <1>5, <1>6

LEMMA IdleInOrder == ASSUME IInv PROVE InOrder(Resting) /\ ~Ends(Resting)
<1>1. Resting.pc = "idle" /\ Resting.op = "none" /\ Resting.at = 0 /\ Resting \in SessionRequest
  BY DEF Resting, SessionRequest, EndingRows, Ops
<1>2. second \in Nat
  BY DEF IInv, SessionTypes
<1> QED BY <1>1, <1>2 DEF InOrder, Ends, Changes, Minting, Ending, Writing

\* A request that ends.
LEMMA FinishKeeps ==
    ASSUME IInv, UNCHANGED <<stored, cached, tokens, second, ended, crossed>>, NEW p \in Handlers, Rest(p)
    PROVE  IInv'
<1>1. crossed \subseteq crossed' /\ crossed' \subseteq EndingRows
  BY DEF IInv, SessionTypes
<1> QED BY <1>1, IdleInOrder, RequestMoves DEF Rest

\* A request that goes on with what it has.
LEMMA GoesOn ==
    ASSUME IInv, UNCHANGED <<stored, cached, tokens, second, ended, crossed>>, NEW p \in Handlers,
           NEW pc \in Minting, MoveTo(p, pc), handler[p].op \in {"login", "refresh", "reset"}, ~IsAt(p, "mint")
    PROVE  IInv'
<1>1. InOrder(handler[p]) /\ handler[p] \in SessionRequest /\ crossed \subseteq EndingRows
  BY DEF IInv, RequestsInv, InOrder, SessionTypes
<1>2. PICK r : r = [pc |-> pc, op |-> handler[p].op, sid |-> handler[p].sid, at |-> handler[p].at]
  OBVIOUS
<1>3. r \in SessionRequest /\ r.pc = pc /\ r.op = handler[p].op /\ r.sid = handler[p].sid /\ r.at = handler[p].at
  BY <1>1, <1>2 DEF SessionRequest
<1>4. InOrder(r)
  BY <1>1, <1>3 DEF InOrder, Minting, Ending, Writing
<1>5. handler' = [handler EXCEPT ![p] = r]
  BY <1>2, PcSet DEF MoveTo, IInv
<1>6. Ends(r) => Ends(handler[p]) /\ EndsRow(handler[p]) = EndsRow(r)
  BY <1>3 DEF Ends, EndsRow, IsAt
<1> QED BY <1>1, <1>4, <1>5, <1>6, RequestMoves

\* A request that chooses this second.
LEMMA ChoosesNow ==
    ASSUME IInv, SessionsAssumption, UNCHANGED <<stored, cached, tokens, second, ended>>, NEW p \in Handlers,
           crossed \subseteq crossed', crossed' \subseteq EndingRows,
           NEW pc \in Minting \cup Ending, pc \notin {"cache1", "cache2"}, NEW op \in Ops, NEW s \in EndingRows,
           NEW r, r = [pc |-> pc, op |-> op, sid |-> s, at |-> second],
           handler' = [handler EXCEPT ![p] = r],
           op \in {"login", "refresh", "reset"} => s \in Sids,
           pc \in Minting => op \in {"login", "refresh", "reset"},
           pc \in Ending => op \in Changes \cup {"reset", "terminate"},
           pc \in {"del", "reload"} => op = "reset",
           MayEnd(p, r)
    PROVE  IInv'
<1>1. second \in Nat
  BY DEF IInv, SessionTypes
<1>3. r \in SessionRequest /\ r.pc = pc /\ r.op = op /\ r.sid = s /\ r.at = second
  BY <1>1 DEF SessionRequest
<1>4. InOrder(r)
  <2>1. EndsRow(r) \in EndingRows /\ Latest(EndsRow(r)) <= r.at
    BY <1>3, RowIsRow DEF IInv, PastInv
  <2>2. pc \in Ending => Ends(r)
    BY <1>3 DEF Ends, Ending
  <2> QED BY <1>1, <1>3, <2>1, <2>2 DEF InOrder
<1> QED BY <1>4, RequestMoves DEF MayEnd

LEMMA StartKeeps ==
    ASSUME IInv, UNCHANGED <<stored, cached, tokens, second, ended>>, NEW p \in Handlers,
           crossed \subseteq crossed', crossed' \subseteq EndingRows,
           NEW pc \in {"promote", "refreshLoad", "del"}, NEW op \in {"login", "refresh", "reset"},
           pc = "del" => op = "reset", NEW s \in Sids,
           NEW r, r = [pc |-> pc, op |-> op, sid |-> s, at |-> 0],
           op = "reset" => \/ Absent \in crossed'
                           \/ \A q \in Handlers \ {p} : Ends(handler[q]) => EndsRow(handler[q]) # Absent,
           handler' = [handler EXCEPT ![p] = r]
    PROVE  IInv'
<1>2. /\ r \in SessionRequest /\ r.pc = pc /\ r.op = op /\ r.sid = s /\ r.at = 0
  BY DEF SessionRequest, Ops, Minting, Ending, EndingRows
<1>3. 0 <= second
  BY DEF IInv, SessionTypes
<1>4. InOrder(r)
  BY <1>2, <1>3 DEF InOrder, Ends, Minting, Ending, Writing
<1>5. Ends(r) => op = "reset" /\ EndsRow(r) = Absent
  BY <1>2 DEF Ends, Changes, EndsRow
<1> QED BY <1>4, <1>5, RequestMoves

\* A change begins: either its row is crossed, or nobody else is about to write it.
LEMMA Begins ==
    ASSUME IInv, NEW p \in Handlers, NEW w \in EndingRows, Begin(p, w)
    PROVE  /\ crossed \subseteq crossed' /\ crossed' \subseteq EndingRows
           /\ \/ w \in crossed'
              \/ \A q \in Handlers \ {p} : Ends(handler[q]) => EndsRow(handler[q]) # w
<1>1. \A q : (Changing(q) <=> Ends(handler[q])) /\ Row(q) = EndsRow(handler[q])
  BY DEF Changing, Ends, Row, EndsRow, IsAt
<1>2. crossed \subseteq EndingRows
  BY DEF IInv, SessionTypes
<1> QED BY <1>1, <1>2 DEF Begin

-----------------------------------------------------------------------------
(***************************************************************************)
(* One lemma per kind of step.                                             *)
(***************************************************************************)
\* Sign-in, refresh, reset and the administrator's change, between their calls to the revoker.
LEMMA HandlerKeeps ==
    ASSUME SessionsAssumption, IInv, NEW p \in Handlers,
           \/ Login(p) \/ (\E t \in tokens : RefreshCheck(p, t)) \/ RefreshLoad(p) \/ CurrentRole(p)
           \/ ResetCompare(p) \/ ResetDel(p) \/ ResetReload(p) \/ (\E c \in Changes : AdminLoad(p, c))
           \/ HandlerFails(p) \/ Write(p) \/ (\E s \in Sids \cup {Absent} : Terminate(p, s))
    PROVE  IInv'
<1> USE DEF IsAt
<1>0. UNCHANGED <<stored, cached, tokens, second, ended>>
  BY DEF Login, RefreshCheck, RefreshLoad, CurrentRole, ResetCompare, ResetDel, ResetReload,
         AdminLoad, HandlerFails, Write, Terminate
<1>00. InOrder(handler[p]) /\ handler[p] \in SessionRequest /\ SessionTypes /\ crossed \subseteq EndingRows
  BY DEF IInv, RequestsInv, InOrder, SessionTypes
<1>1. CASE Login(p)
  <2>1. PICK s \in Sids : handler' = [handler EXCEPT ![p] = [pc |-> "promote", op |-> "login", sid |-> s, at |-> 0]]
    BY <1>1 DEF Login, FreshSids
  <2>2. crossed' = crossed
    BY <1>1 DEF Login
  <2> QED BY <1>0, <1>00, <2>1, <2>2, StartKeeps
<1>2. ASSUME NEW t \in tokens, RefreshCheck(p, t) PROVE IInv'
  <2>1. PICK s \in Sids : s = t.sid
    BY <1>00 DEF SessionTypes, Token
  <2>2. handler' = [handler EXCEPT ![p] = [pc |-> "refreshLoad", op |-> "refresh", sid |-> s, at |-> 0]]
    BY <1>2, <2>1 DEF RefreshCheck
  <2>3. crossed' = crossed
    BY <1>2 DEF RefreshCheck
  <2> QED BY <1>0, <1>00, <2>2, <2>3, StartKeeps
<1>3. CASE RefreshLoad(p) \/ ResetReload(p)
  <2>0. crossed' = crossed
    BY <1>3 DEF RefreshLoad, ResetReload
  <2>1. CASE Rest(p)
    BY <1>0, <2>0, <2>1, FinishKeeps
  <2>2. CASE MoveTo(p, "promote")
    <3>1. handler[p].op \in {"login", "refresh", "reset"} /\ ~IsAt(p, "mint")
      <4>1. CASE RefreshLoad(p)
        BY <1>00, <4>1 DEF RefreshLoad, InOrder, Minting
      <4>2. CASE ResetReload(p)
        BY <1>00, <4>2 DEF ResetReload, InOrder
      <4> QED BY <1>3, <4>1, <4>2
    <3>2. "promote" \in Minting
      BY DEF Minting
    <3> QED BY <1>0, <2>0, <2>2, <3>1, <3>2, GoesOn
  <2> QED BY <1>3, <2>1, <2>2 DEF RefreshLoad, ResetReload
<1>4. CASE CurrentRole(p)
  <2>0. crossed' = crossed /\ handler[p].pc = "promote"
    BY <1>4 DEF CurrentRole
  <2>1. handler[p].op \in {"login", "refresh", "reset"} /\ handler[p].sid \in Sids /\ handler[p].op \in Ops
    BY <1>00, <2>0 DEF InOrder, Minting, Ops
  <2>2. CASE Rest(p)
    BY <1>0, <2>0, <2>2, FinishKeeps
  <2>3. CASE ~Rest(p)
    <3>1. PICK pc, op, s : /\ pc = IF handler[p].op = "reset" THEN "persist2" ELSE "mint"
                           /\ op = handler[p].op /\ s = handler[p].sid
      OBVIOUS
    <3>11. PICK r : r = [pc |-> pc, op |-> op, sid |-> s, at |-> second]
      OBVIOUS
    <3>2. handler' = [handler EXCEPT ![p] = r]
      <4>1. handler' = [handler EXCEPT ![p].pc = pc, ![p].at = second]
        BY <1>4, <2>3, <3>1 DEF CurrentRole
      <4> QED BY <1>00, <3>1, <3>11, <4>1, PcAndNowSet
    <3>3. /\ pc \in Minting \cup Ending /\ pc \notin {"cache1", "cache2"} /\ op \in Ops /\ s \in EndingRows
          /\ op \in {"login", "refresh", "reset"} => s \in Sids
          /\ pc \in Minting => op \in {"login", "refresh", "reset"}
          /\ pc \in Ending => op \in Changes \cup {"reset", "terminate"}
          /\ pc \in {"del", "reload"} => op = "reset"
      BY <2>1, <3>1 DEF Minting, Ending, EndingRows
    <3>4. Ends(r) => Ends(handler[p]) /\ EndsRow(handler[p]) = EndsRow(r)
      BY <2>0, <3>1, <3>11 DEF Ends, EndsRow
    <3>5. MayEnd(p, r) /\ crossed \subseteq crossed' /\ crossed' \subseteq EndingRows
      BY <1>00, <2>0, <3>4 DEF MayEnd
    <3> QED BY <1>0, <3>11, <3>2, <3>3, <3>5, ChoosesNow
  <2> QED BY <2>2, <2>3
<1>5. CASE ResetCompare(p)
  <2>1. PICK s \in Sids : handler' = [handler EXCEPT ![p] = [pc |-> "del", op |-> "reset", sid |-> s, at |-> 0]]
    BY <1>5 DEF ResetCompare, FreshSids
  <2>2. Begin(p, Absent) /\ Absent \in EndingRows
    BY <1>5 DEF ResetCompare, EndingRows
  <2>3. /\ crossed \subseteq crossed' /\ crossed' \subseteq EndingRows
        /\ \/ Absent \in crossed'
           \/ \A q \in Handlers \ {p} : Ends(handler[q]) => EndsRow(handler[q]) # Absent
    BY <2>2, Begins
  <2> QED BY <1>0, <2>1, <2>3, StartKeeps
<1>6. CASE ResetDel(p)
  <2>1. handler[p].op = "reset" /\ handler[p].sid \in Sids /\ handler[p].pc = "del" /\ crossed' = crossed
    BY <1>00, <1>6 DEF ResetDel, InOrder
  <2>2. PICK s \in Sids : s = handler[p].sid
    BY <2>1
  <2>22. PICK r : r = [pc |-> "persist1", op |-> "reset", sid |-> s, at |-> second]
    OBVIOUS
  <2>3. handler' = [handler EXCEPT ![p] = r]
    <3>1. handler' = [handler EXCEPT ![p].pc = "persist1", ![p].at = second]
      BY <1>6 DEF ResetDel
    <3> QED BY <1>00, <2>1, <2>2, <2>22, <3>1, PcAndNowSet
  <2>4. "persist1" \in Ending /\ "persist1" \notin Minting /\ "reset" \in Ops /\ s \in EndingRows
    BY <2>1 DEF Ending, Minting, Ops, EndingRows
  <2>5. Ends(r) => Ends(handler[p]) /\ EndsRow(handler[p]) = EndsRow(r)
    BY <2>1, <2>22 DEF Ends, EndsRow
  <2>6. MayEnd(p, r) /\ crossed \subseteq crossed' /\ crossed' \subseteq EndingRows
    BY <1>00, <2>1, <2>5 DEF MayEnd
  <2> QED BY <1>0, <2>22, <2>3, <2>4, <2>6, ChoosesNow
<1>7. ASSUME NEW c \in Changes, AdminLoad(p, c) PROVE IInv'
  <2>1. PICK s \in EndingRows : s = Absent
    BY DEF EndingRows
  <2>2. PICK r : r = [pc |-> "persist1", op |-> c, sid |-> s, at |-> second]
    OBVIOUS
  <2>3. handler' = [handler EXCEPT ![p] = r] /\ Begin(p, s)
    BY <1>7, <2>1, <2>2 DEF AdminLoad
  <2>4. /\ "persist1" \in Ending /\ "persist1" \notin Minting /\ c \in Ops
        /\ c \notin {"login", "refresh", "reset"} /\ c # "terminate"
    BY DEF Ending, Minting, Ops, Changes
  <2>5. EndsRow(r) = s
    BY <2>1, <2>2, <2>4 DEF EndsRow
  <2>6. /\ crossed \subseteq crossed' /\ crossed' \subseteq EndingRows
        /\ \/ s \in crossed'
           \/ \A q \in Handlers \ {p} : Ends(handler[q]) => EndsRow(handler[q]) # s
    BY <2>3, Begins
  <2>7. MayEnd(p, r)
    BY <2>5, <2>6 DEF MayEnd
  <2>8. PICK pc \in Ending : pc = "persist1"
    BY <2>4
  <2>9. /\ pc \in Minting \cup Ending /\ pc \notin {"cache1", "cache2"} /\ pc \notin Minting
        /\ pc \notin {"del", "reload"} /\ r = [pc |-> pc, op |-> c, sid |-> s, at |-> second]
        /\ c \in Changes \cup {"reset", "terminate"}
    BY <2>2, <2>4, <2>8
  <2> QED BY <1>0, <2>3, <2>4, <2>6, <2>7, <2>9, ChoosesNow
<1>8. CASE HandlerFails(p)
  BY <1>0, <1>8, FinishKeeps DEF HandlerFails
<1>9. CASE Write(p)
  <2>0. crossed' = crossed /\ handler[p].pc = "write"
    BY <1>9 DEF Write
  <2>1. CASE Rest(p)
    BY <1>0, <2>0, <2>1, FinishKeeps
  <2>2. CASE ~Rest(p)
    <3>1. PICK pc, op, s : /\ pc = IF handler[p].op = "reset" THEN "reload" ELSE "persist2"
                           /\ op = handler[p].op /\ s = handler[p].sid
      OBVIOUS
    <3>11. PICK r : r = [pc |-> pc, op |-> op, sid |-> s, at |-> second]
      OBVIOUS
    <3>2. handler' = [handler EXCEPT ![p] = r]
      <4>1. handler' = [handler EXCEPT ![p].pc = pc, ![p].at = second]
        BY <1>9, <2>2, <3>1 DEF Write
      <4> QED BY <1>00, <3>1, <3>11, <4>1, PcAndNowSet
    <3>3. Ends(handler[p]) /\ op \in Ops /\ s \in EndingRows /\ (op \in {"login", "refresh", "reset"} => s \in Sids)
      BY <1>00, <2>0, <3>1 DEF InOrder, Ending, SessionRequest
    <3>4. /\ pc \in Ending /\ pc \notin Minting /\ pc \notin {"cache1", "cache2"}
          /\ op \in Changes \cup {"reset", "terminate"}
          /\ pc \in {"del", "reload"} => op = "reset"
      BY <3>1, <3>3 DEF Ending, Minting, Ends
    <3>5. EndsRow(handler[p]) = EndsRow(r)
      BY <3>1, <3>11 DEF EndsRow
    <3>6. MayEnd(p, r) /\ crossed \subseteq crossed' /\ crossed' \subseteq EndingRows
      BY <1>00, <2>0, <3>3, <3>5 DEF MayEnd
    <3> QED BY <1>0, <3>11, <3>2, <3>3, <3>4, <3>6, ChoosesNow
  <2> QED BY <2>1, <2>2
<1>10. ASSUME NEW s \in Sids \cup {Absent}, Terminate(p, s) PROVE IInv'
  <2>1. s \in EndingRows
    BY DEF EndingRows
  <2>2. PICK r : r = [pc |-> "persist2", op |-> "terminate", sid |-> s, at |-> second]
    OBVIOUS
  <2>3. handler' = [handler EXCEPT ![p] = r] /\ Begin(p, s)
    BY <1>10, <2>2 DEF Terminate
  <2>4. "persist2" \in Ending /\ "persist2" \notin Minting /\ "terminate" \in Ops
    BY DEF Ending, Minting, Ops
  <2>5. EndsRow(r) = s
    BY <2>2 DEF EndsRow
  <2>6. /\ crossed \subseteq crossed' /\ crossed' \subseteq EndingRows
        /\ \/ s \in crossed'
           \/ \A q \in Handlers \ {p} : Ends(handler[q]) => EndsRow(handler[q]) # s
    BY <2>1, <2>3, Begins
  <2>7. MayEnd(p, r)
    BY <2>5, <2>6 DEF MayEnd
  <2>8. PICK pc \in Ending, op \in Ops : pc = "persist2" /\ op = "terminate"
    BY <2>4
  <2>9. /\ pc \in Minting \cup Ending /\ pc \notin {"cache1", "cache2"} /\ pc \notin Minting
        /\ pc \notin {"del", "reload"} /\ r = [pc |-> pc, op |-> op, sid |-> s, at |-> second]
        /\ op \in Changes \cup {"reset", "terminate"} /\ op \notin {"login", "refresh", "reset"}
    BY <2>2, <2>4, <2>8
  <2> QED BY <1>0, <2>1, <2>3, <2>6, <2>7, <2>9, ChoosesNow
<1> QED BY <1>1, <1>2, <1>3, <1>4, <1>5, <1>6, <1>7, <1>8, <1>9, <1>10

\* Persist: nobody else is about to write an uncrossed row, and it does not move back.
LEMMA PersistKeeps ==
    ASSUME SessionsAssumption, IInv, NEW p \in Handlers, Persist(p)
    PROVE  IInv'
<1>1. /\ UNCHANGED <<cached, tokens, second, ended, crossed>> /\ handler[p].pc \in {"persist1", "persist2"}
      /\ handler' = [handler EXCEPT ![p].pc = IF handler[p].pc = "persist1" THEN "cache1" ELSE "cache2"]
  BY DEF Persist, MoveTo, IsAt
<1>2. /\ InOrder(handler[p]) /\ handler[p] \in SessionRequest /\ SessionTypes /\ handler \in [Handlers -> SessionRequest]
      /\ TTL \in Nat /\ second \in Nat
  BY DEF IInv, RequestsInv, InOrder, SessionTypes, SessionsAssumption
<1>3. PICK at \in Nat, w \in EndingRows, pc \in {"cache1", "cache2"} :
          /\ at = handler[p].at /\ w = EndsRow(handler[p])
          /\ pc = IF handler[p].pc = "persist1" THEN "cache1" ELSE "cache2"
  BY <1>2, RowIsRow DEF SessionRequest
<1>4. Ends(handler[p]) /\ (w \notin crossed => Latest(w) <= at)
  BY <1>1, <1>2, <1>3 DEF InOrder, Ending, Writing
<1>5. PICK r : r = [pc |-> pc, op |-> handler[p].op, sid |-> handler[p].sid, at |-> at]
  OBVIOUS
<1>6. /\ handler' = [handler EXCEPT ![p] = r] /\ r \in SessionRequest /\ r.pc = pc /\ r.op = handler[p].op
      /\ r.sid = handler[p].sid /\ r.at = at /\ EndsRow(r) = w /\ Ends(r)
  <2>1. handler' = [handler EXCEPT ![p] = r]
    BY <1>1, <1>2, <1>3, <1>5, PcSet
  <2>2. r \in SessionRequest /\ r.pc = pc /\ r.op = handler[p].op /\ r.sid = handler[p].sid /\ r.at = at
    BY <1>2, <1>3, <1>5 DEF SessionRequest, Ending
  <2> QED BY <1>3, <1>4, <2>1, <2>2 DEF EndsRow, Ends
<1>7. /\ handler' \in [Handlers -> SessionRequest] /\ handler'[p] = r
      /\ \A q \in Handlers : q # p => handler'[q] = handler[q]
  BY <1>2, <1>6
<1>8. /\ stored' \in Revocations /\ StoredInv' /\ Entry(w)' = Mark(w, at)
      /\ \A v \in EndingRows : v # w => Entry(v)' = Entry(v)
  <2>1. PICK c \in Nat, u \in Nat, f \in [Sids -> Nat] : stored = [cutoff |-> c, until |-> u, sids |-> f]
    BY <1>2 DEF SessionTypes, Revocations
  <2>2. CASE w # Absent
    <3>1. w \in Sids /\ stored' = [stored EXCEPT !.sids[w] = at + TTL]
      <4>1. Row(p) = w
        BY <1>3 DEF Row, EndsRow
      <4> QED BY <1>3, <2>2, <4>1 DEF Persist, RevokeSession, EndingRows
    <3>2. PICK g : g = [f EXCEPT ![w] = at + TTL]
      OBVIOUS
    <3>3. g \in [Sids -> Nat] /\ g[w] = at + TTL /\ \A v \in Sids : v # w => g[v] = f[v]
      BY <1>2, <3>1, <3>2
    <3>4. stored' = [cutoff |-> c, until |-> u, sids |-> g]
      BY <2>1, <3>1, <3>2
    <3>5. stored'.cutoff = c /\ stored'.until = u /\ stored'.sids = g /\ stored.cutoff = c /\ stored.until = u /\ stored.sids = f
      BY <2>1, <3>4
    <3>6. stored' \in Revocations
      BY <3>3, <3>4 DEF Revocations
    <3>7. StoredInv'
      BY <3>5 DEF StoredInv, IInv
    <3> QED BY <2>2, <3>3, <3>5, <3>6, <3>7 DEF Entry, Mark, EndingRows
  <2>3. CASE w = Absent
    <3>1. stored' = [stored EXCEPT !.cutoff = at + 1, !.until = (at + 1) + TTL]
      <4>1. Row(p) = w
        BY <1>3 DEF Row, EndsRow
      <4> QED BY <1>3, <2>3, <4>1 DEF Persist, RevokeUserTokensBefore, Cutoff
    <3>2. stored' = [cutoff |-> at + 1, until |-> (at + 1) + TTL, sids |-> f]
      BY <2>1, <3>1
    <3>3. stored'.cutoff = at + 1 /\ stored'.until = (at + 1) + TTL /\ stored'.sids = f /\ stored.sids = f
      BY <2>1, <3>2
    <3>4. stored' \in Revocations
      BY <1>2, <3>2 DEF Revocations
    <3> QED BY <2>3, <3>3, <3>4 DEF Entry, Mark, StoredInv
  <2> QED BY <2>2, <2>3
<1>9. \A v : Latest(v)' = Latest(v) /\ Copy(v)' = Copy(v)
  BY <1>1 DEF Latest, Copy
<1>10. ASSUME NEW q \in Handlers PROVE InOrder(handler[q])'
  <2>1. CASE q = p
    <3>1. /\ r.at <= second' /\ (r.op \in {"login", "refresh", "reset"} => r.sid \in Sids)
          /\ r.pc \notin Minting /\ r.pc \notin {"del", "reload"}
      BY <1>1, <1>2, <1>3, <1>6 DEF InOrder, Minting
    <3>2. w \notin crossed' => Latest(w)' <= at
      BY <1>1, <1>4, <1>9
    <3>3. Entry(w)' = Mark(w, at)
      BY <1>8
    <3>4. Latest(EndsRow(r))' = Latest(w)' /\ Entry(EndsRow(r))' = Entry(w)'
      BY <1>6 DEF Latest, Entry, EndsRow
    <3>5. r.pc \in Ending => Ends(r)
      BY <1>6
    <3>6. InOrder(r)'
      BY <1>6, <3>1, <3>2, <3>3, <3>4, <3>5 DEF InOrder, Ends, EndsRow, Mark
    <3> QED BY <1>7, <2>1, <3>6 DEF InOrder
  <2>2. CASE q # p
    <3>1. InOrder(handler[q]) /\ handler'[q] = handler[q]
      BY <1>7, <2>2 DEF IInv, RequestsInv
    <3>2. handler[q].pc \in Writing => Ends(handler[q])
      BY <3>1 DEF InOrder, Writing, Ending
    <3>3. handler[q].pc \in Writing /\ EndsRow(handler[q]) \notin crossed => EndsRow(handler[q]) # w
      BY <1>3, <1>4, <2>2, <3>2 DEF IInv, OneEach
    <3>4. handler[q].pc \in Writing /\ EndsRow(handler[q]) \notin crossed =>
              /\ Latest(EndsRow(handler[q]))' <= handler[q].at
              /\ handler[q].pc \in {"cache1", "cache2"} => Entry(EndsRow(handler[q]))' = Mark(EndsRow(handler[q]), handler[q].at)
      <4>1. EndsRow(handler[q]) \in EndingRows
        BY <3>1, RowIsRow DEF InOrder
      <4>2. PICK v \in EndingRows : v = EndsRow(handler[q])
        BY <4>1
      <4>3. Latest(v)' = Latest(v) /\ (v # w => Entry(v)' = Entry(v))
        BY <1>8, <1>9
      <4>4. Latest(EndsRow(handler[q]))' = Latest(v)' /\ Entry(EndsRow(handler[q]))' = Entry(v)'
        BY <1>7, <2>2, <4>2 DEF Latest, Entry, EndsRow
      <4> QED BY <3>1, <3>3, <4>2, <4>3, <4>4 DEF InOrder
    <3>5. PICK x : x = handler[q] /\ x = handler'[q] /\ InOrder(x)
      BY <3>1
    <3>6. InOrder(x)'
      BY <1>1, <3>4, <3>5 DEF InOrder
    <3> QED BY <3>5, <3>6 DEF InOrder
  <2> QED BY <2>1, <2>2
<1>11. RequestsInv'
  BY <1>10 DEF RequestsInv
<1>12. OneEach'
  <2> SUFFICES ASSUME NEW a \in Handlers, NEW b \in Handlers, Ends(handler'[a]), Ends(handler'[b]),
                      EndsRow(handler'[a]) = EndsRow(handler'[b]), EndsRow(handler'[a]) \notin crossed'
               PROVE  a = b
    BY DEF OneEach, Ends, EndsRow
  <2>1. \A x \in Handlers : EndsRow(handler'[x]) = EndsRow(handler[x]) /\ (Ends(handler'[x]) => Ends(handler[x]))
    BY <1>3, <1>4, <1>6, <1>7
  <2> QED BY <1>1, <2>1 DEF IInv, OneEach
<1>13. SessionTypes'
  BY <1>1, <1>2, <1>7, <1>8 DEF SessionTypes
<1>14. PastInv' /\ HereInv'
  BY <1>1, <1>9 DEF IInv, PastInv, HereInv
<1>15. EndedInv'
  <2> SUFFICES ASSUME NEW v \in EndingRows, v \notin crossed PROVE Refused(v)'
    BY <1>1 DEF EndedInv
  <2>1. Refused(v)
    BY DEF IInv, EndedInv
  <2>2. Latest(v) \in Nat /\ (Mark(v, Latest(v)) <= Mark(v, at) \/ v # w \/ at < Latest(v))
    BY <1>2, RowTypes DEF Mark
  <2>3. Latest(v) = 0 \/ Mark(v, Latest(v)) <= Entry(v)'
    BY <1>2, <1>4, <1>8, <2>1, <2>2, RowTypes DEF Refused
  <2>4. Refused(v)' <=> \/ Latest(v) = 0
                        \/ /\ Mark(v, Latest(v)) <= Entry(v)'
                           /\ Mark(v, Latest(v)) <= Copy(v) \/ Latest(v) + TTL <= second
    BY <1>1, <1>9 DEF Refused, Mark
  <2> QED BY <2>1, <2>3, <2>4 DEF Refused
<1> QED BY <1>8, <1>11, <1>12, <1>13, <1>14, <1>15 DEF IInv

\* RevokeUserBefore raises the copy's cutoff, and nothing else.
LEMMA CutoffRises ==
    ASSUME SessionTypes, NEW at \in Nat, RevokeUserBefore(Cutoff(at))
    PROVE  /\ cached' \in Revocations /\ cached.cutoff <= cached'.cutoff /\ at + 1 <= cached'.cutoff
           /\ cached'.sids = cached.sids
<1>1. PICK c \in Nat, u \in Nat, f \in [Sids -> Nat] : cached = [cutoff |-> c, until |-> u, sids |-> f]
  BY DEF SessionTypes, Revocations
<1>2. PICK d : d = IF at + 1 > c THEN at + 1 ELSE c
  OBVIOUS
<1>3. d \in Nat /\ c <= d /\ at + 1 <= d
  BY <1>2
<1>4. cached' = [cutoff |-> d, until |-> u, sids |-> f]
  BY <1>1, <1>2 DEF RevokeUserBefore, Cutoff
<1>5. cached' \in Revocations /\ cached'.cutoff = d /\ cached'.sids = f
  BY <1>3, <1>4 DEF Revocations
<1> QED BY <1>1, <1>3, <1>5

\* The copy takes up a row: what it refuses of the uncrossed rows it still refuses.
LEMMA CachedKeeps ==
    ASSUME SessionsAssumption, IInv, UNCHANGED <<stored, tokens, second, crossed>>,
           cached' \in Revocations, ended' \in Endings,
           NEW p \in Handlers, NEW r, handler' = [handler EXCEPT ![p] = r], InOrder(r)',
           Ends(r) => Ends(handler[p]) /\ EndsRow(r) = EndsRow(handler[p]),
           NEW w \in EndingRows, w = EndsRow(handler[p]), Ends(handler[p]),
           \A v \in EndingRows : v # w => Latest(v)' = Latest(v),
           Latest(w)' <= second, HereInv',
           \A v \in EndingRows : v \notin crossed => Refused(v)'
    PROVE  IInv'
<1>1. handler \in [Handlers -> SessionRequest] /\ r \in SessionRequest /\ second \in Nat
  BY DEF IInv, SessionTypes, InOrder
<1>2. /\ handler' \in [Handlers -> SessionRequest] /\ handler'[p] = r
      /\ \A q \in Handlers : q # p => handler'[q] = handler[q]
  BY <1>1
<1>3. SessionTypes'
  BY <1>2 DEF IInv, SessionTypes
<1>4. ASSUME NEW q \in Handlers PROVE InOrder(handler[q])'
  <2>1. CASE q = p
    BY <1>2, <2>1 DEF InOrder
  <2>2. CASE q # p
    <3>1. PICK x \in SessionRequest : x = handler[q] /\ x = handler'[q] /\ InOrder(x)
      BY <1>2, <2>2 DEF IInv, RequestsInv, InOrder
    <3>2. x.pc \in Writing => Ends(x)
      BY <3>1 DEF InOrder, Writing, Ending
    <3>3. x.pc \in Writing /\ EndsRow(x) \notin crossed => EndsRow(x) # w
      BY <2>2, <3>1, <3>2 DEF IInv, OneEach
    <3>4. PICK v \in EndingRows : v = EndsRow(x)
      BY RowIsRow
    <3>5. Latest(EndsRow(x))' = Latest(v)' /\ Entry(EndsRow(x))' = Entry(v)
      BY <3>4 DEF Latest, Entry, EndsRow
    <3>6. x.pc \in Writing /\ EndsRow(x) \notin crossed => Latest(EndsRow(x))' = Latest(EndsRow(x))
      BY <3>3, <3>4, <3>5
    <3>7. InOrder(x)'
      BY <3>1, <3>4, <3>5, <3>6 DEF InOrder
    <3> QED BY <3>1, <3>7 DEF InOrder
  <2> QED BY <2>1, <2>2
<1>5. RequestsInv'
  BY <1>4 DEF RequestsInv
<1>6. OneEach'
  <2> SUFFICES ASSUME NEW a \in Handlers, NEW b \in Handlers, Ends(handler'[a]), Ends(handler'[b]),
                      EndsRow(handler'[a]) = EndsRow(handler'[b]), EndsRow(handler'[a]) \notin crossed
               PROVE  a = b
    BY DEF OneEach, Ends, EndsRow
  <2>1. \A x \in Handlers : Ends(handler'[x]) => Ends(handler[x]) /\ EndsRow(handler'[x]) = EndsRow(handler[x])
    BY <1>2
  <2> QED BY <2>1 DEF IInv, OneEach
<1>7. PastInv'
  BY DEF IInv, PastInv
<1>8. StoredInv' /\ EndedInv'
  BY DEF IInv, StoredInv, EndedInv
<1> QED BY <1>3, <1>5, <1>6, <1>7, <1>8 DEF IInv

LEMMA CacheFirstKeeps ==
    ASSUME SessionsAssumption, IInv, NEW p \in Handlers, CacheFirst(p)
    PROVE  IInv'
<1>1. /\ UNCHANGED <<stored, tokens, second, ended, crossed>> /\ handler[p].pc = "cache1"
      /\ RevokeUserBefore(Cutoff(handler[p].at)) /\ handler' = [handler EXCEPT ![p].pc = "write"]
  BY DEF CacheFirst, IsAt, MoveTo
<1>2. /\ InOrder(handler[p]) /\ handler[p] \in SessionRequest /\ SessionTypes /\ second \in Nat
      /\ handler \in [Handlers -> SessionRequest]
  BY DEF IInv, RequestsInv, InOrder, SessionTypes
<1>3. PICK at \in Nat, w \in EndingRows : at = handler[p].at /\ w = EndsRow(handler[p])
  BY <1>2, RowIsRow DEF SessionRequest
<1>4. cached' \in Revocations /\ cached.cutoff <= cached'.cutoff /\ cached'.sids = cached.sids
  BY <1>1, <1>2, <1>3, CutoffRises
<1>5. PICK r : r = [pc |-> "write", op |-> handler[p].op, sid |-> handler[p].sid, at |-> handler[p].at]
  OBVIOUS
<1>6. handler' = [handler EXCEPT ![p] = r]
  BY <1>1, <1>2, <1>5, PcSet
<1>7. r \in SessionRequest /\ r.pc = "write" /\ r.op = handler[p].op /\ r.sid = handler[p].sid /\ r.at = handler[p].at
  BY <1>2, <1>5 DEF SessionRequest, Ending
<1>8. Ends(handler[p]) /\ Ends(r) /\ EndsRow(r) = EndsRow(handler[p])
  BY <1>1, <1>2, <1>7 DEF InOrder, Ending, Ends, EndsRow
<1>9. InOrder(r)'
  BY <1>1, <1>2, <1>7, <1>8 DEF InOrder, Ends, Ending, Minting, Writing
<1>10. \A v : Latest(v)' = Latest(v) /\ Entry(v)' = Entry(v)
  BY <1>1 DEF Latest, Entry
<1>11. ended' \in Endings /\ Latest(w)' <= second
  BY <1>1, <1>2, <1>10 DEF SessionTypes, IInv, PastInv
<1>12. HereInv'
  <2>1. ended.here \in Nat /\ cached.cutoff \in Nat /\ cached'.cutoff \in Nat
    BY <1>2, <1>4 DEF SessionTypes, Revocations, Endings
  <2> QED BY <1>1, <1>4, <2>1 DEF IInv, HereInv
<1>13. ASSUME NEW v \in EndingRows, v \notin crossed PROVE Refused(v)'
  <2>1. Refused(v) /\ Latest(v) \in Nat /\ Copy(v) \in Nat /\ Mark(v, Latest(v)) \in Nat
    BY <1>2, <1>13, RowTypes DEF IInv, EndedInv
  <2>2. Copy(v)' \in Nat /\ Copy(v) <= Copy(v)'
    <3>1. cached.cutoff \in Nat /\ cached'.cutoff \in Nat
      BY <1>2, <1>4 DEF SessionTypes, Revocations
    <3> QED BY <1>4, <2>1, <3>1 DEF Copy
  <2>3. Refused(v)' <=> \/ Latest(v) = 0
                        \/ /\ Mark(v, Latest(v)) <= Entry(v)
                           /\ Mark(v, Latest(v)) <= Copy(v)' \/ Latest(v) + TTL <= second
    BY <1>1, <1>10 DEF Refused, Mark
  <2> QED BY <2>1, <2>2, <2>3 DEF Refused
<1> QED BY <1>1, <1>3, <1>4, <1>6, <1>8, <1>9, <1>10, <1>11, <1>12, <1>13, CachedKeeps

LEMMA CacheLastKeeps ==
    ASSUME SessionsAssumption, IInv, NEW p \in Handlers, CacheLast(p)
    PROVE  IInv'
<1>1. UNCHANGED <<stored, tokens, second, crossed>> /\ handler[p].pc = "cache2"
  BY DEF CacheLast, IsAt
<1>2. /\ InOrder(handler[p]) /\ handler[p] \in SessionRequest /\ SessionTypes
      /\ second \in Nat /\ TTL \in Nat
  BY DEF IInv, RequestsInv, InOrder, SessionTypes, SessionsAssumption
<1>3. PICK at \in Nat, w \in EndingRows : at = handler[p].at /\ w = EndsRow(handler[p])
  BY <1>2, RowIsRow DEF SessionRequest
<1>4. /\ at <= second /\ Ends(handler[p])
      /\ w \notin crossed => Latest(w) <= at /\ Entry(w) = Mark(w, at)
  BY <1>1, <1>2, <1>3 DEF InOrder, Ending, Writing
<1>5. PICK r \in SessionRequest :
          /\ handler' = [handler EXCEPT ![p] = r] /\ r.at <= second /\ ~Ends(r)
          /\ (r.pc = "idle" /\ r.op = "none") \/ (r.pc = "mint" /\ r.op = "reset" /\ r.sid \in Sids)
  <2>1. CASE handler[p].op = "reset"
    <3>1. PICK r : r = [pc |-> "mint", op |-> handler[p].op, sid |-> handler[p].sid, at |-> handler[p].at]
      OBVIOUS
    <3>2. handler' = [handler EXCEPT ![p].pc = "mint"]
      BY <2>1 DEF CacheLast, MoveTo
    <3>3. handler' = [handler EXCEPT ![p] = r]
      BY <1>2, <3>1, <3>2, PcSet
    <3>4. r \in SessionRequest /\ r.pc = "mint" /\ r.op = handler[p].op /\ r.sid = handler[p].sid /\ r.at = handler[p].at
      BY <1>2, <3>1 DEF SessionRequest, Minting
    <3>5. r.sid \in Sids
      BY <1>2, <2>1, <3>4 DEF InOrder
    <3> QED BY <1>3, <1>4, <2>1, <3>3, <3>4, <3>5 DEF Ends
  <2>2. CASE handler[p].op # "reset"
    <3>1. handler' = [handler EXCEPT ![p] = Resting]
      BY <2>2 DEF CacheLast, Rest
    <3>2. Resting.pc = "idle" /\ Resting.op = "none" /\ Resting.at <= second
      BY <1>2 DEF Resting
    <3> QED BY <3>1, <3>2, IdleInOrder DEF InOrder
  <2> QED BY <2>1, <2>2
<1>6. InOrder(r)'
  BY <1>1, <1>5 DEF InOrder, Minting, Ending, Writing
<1>7. PICK n : n = Later(Latest(w), at)
  OBVIOUS
<1>8. Latest(w) \in Nat /\ n \in Nat /\ n <= second /\ Latest(w) <= n /\ at <= n /\ (w \notin crossed => n = at)
  <2>1. Latest(w) \in Nat /\ Latest(w) <= second
    BY <1>2, RowTypes DEF IInv, PastInv
  <2> QED BY <1>2, <1>4, <1>7, <2>1 DEF Later
<1>9. PICK h \in Nat, a \in Nat, c \in Nat, e \in [Sids -> Nat] :
          ended = [change |-> c, here |-> h, all |-> a, sids |-> e]
  BY <1>2 DEF SessionTypes, Endings
<1>10. PICK cc \in Nat, u \in Nat, f \in [Sids -> Nat] : cached = [cutoff |-> cc, until |-> u, sids |-> f]
  BY <1>2 DEF SessionTypes, Revocations
<1>11. Row(p) = w
  BY <1>3 DEF Row, EndsRow
<1>12. /\ cached' \in Revocations /\ ended' \in Endings /\ HereInv'
       /\ Latest(w)' = n /\ \A v \in EndingRows : v # w => Latest(v)' = Latest(v)
       /\ Mark(w, at) <= Copy(w)' /\ \A v \in EndingRows : v # w => Copy(v)' = Copy(v)
  <2>1. CASE w # Absent
    <3>1. w \in Sids /\ cached' = [cached EXCEPT !.sids[w] = at + TTL]
          /\ ended' = [ended EXCEPT !.sids[w] = Later(@, at)]
      BY <1>3, <1>11, <2>1 DEF CacheLast, Revoke, EndingRows
    <3>2. PICK g : g = [f EXCEPT ![w] = at + TTL]
      OBVIOUS
    <3>3. g \in [Sids -> Nat] /\ g[w] = at + TTL /\ \A v \in Sids : v # w => g[v] = f[v]
      BY <1>2, <3>1, <3>2
    <3>4. cached' = [cutoff |-> cc, until |-> u, sids |-> g]
      BY <1>10, <3>1, <3>2
    <3>5. cached' \in Revocations /\ cached'.cutoff = cc /\ cached.cutoff = cc /\ cached'.sids = g /\ cached.sids = f
      BY <1>10, <3>3, <3>4 DEF Revocations
    <3>6. e[w] = Latest(w) /\ ended.sids = e /\ ended.all = a /\ ended.here = h
      BY <1>9, <2>1 DEF Latest
    <3>7. PICK k : k = [e EXCEPT ![w] = n]
      OBVIOUS
    <3>8. k \in [Sids -> Nat] /\ k[w] = n /\ \A v \in Sids : v # w => k[v] = e[v]
      BY <1>8, <3>1, <3>7
    <3>9. ended' = [change |-> c, here |-> h, all |-> a, sids |-> k]
      BY <1>7, <1>9, <3>1, <3>6, <3>7
    <3>10. ended' \in Endings /\ ended'.here = h /\ ended'.all = a /\ ended'.sids = k
      BY <3>8, <3>9 DEF Endings
    <3>11. HereInv'
      BY <3>5, <3>6, <3>10 DEF IInv, HereInv
    <3>12. Latest(w)' = n /\ \A v \in EndingRows : v # w => Latest(v)' = Latest(v)
      BY <2>1, <3>6, <3>8, <3>10 DEF Latest, EndingRows
    <3>13. Mark(w, at) <= Copy(w)' /\ \A v \in EndingRows : v # w => Copy(v)' = Copy(v)
      BY <1>2, <2>1, <3>3, <3>5 DEF Copy, EndingRows, Mark
    <3> QED BY <3>5, <3>10, <3>11, <3>12, <3>13
  <2>2. CASE w = Absent
    <3>1. PICK ch : /\ ch = IF handler[p].op = "terminate" THEN c ELSE Later(c, at)
      OBVIOUS
    <3>2. /\ RevokeUserBefore(Cutoff(at))
          /\ ended' = [ended EXCEPT !.here = Later(@, at), !.all = Later(@, at),
                                   !.change = IF handler[p].op = "terminate" THEN @ ELSE Later(@, at)]
      BY <1>3, <1>11, <2>2 DEF CacheLast
    <3>3. a = Latest(w) /\ ended.all = a /\ ended.here = h /\ ended.change = c /\ ended.sids = e
      BY <1>9, <2>2 DEF Latest
    <3>4. PICK k : k = Later(h, at)
      OBVIOUS
    <3>5. ch \in Nat /\ k \in Nat /\ (k = h \/ k = at)
      BY <3>1, <3>4 DEF Later
    <3>6. ended' = [change |-> ch, here |-> k, all |-> n, sids |-> e]
      BY <1>7, <1>9, <3>1, <3>2, <3>3, <3>4
    <3>7. ended' \in Endings /\ ended'.here = k /\ ended'.all = n /\ ended'.sids = e
      BY <1>8, <3>5, <3>6 DEF Endings
    <3>8. /\ cached' \in Revocations /\ cached.cutoff <= cached'.cutoff /\ at + 1 <= cached'.cutoff
          /\ cached'.sids = cached.sids
      BY <1>2, <3>2, CutoffRises
    <3>9. cached.cutoff \in Nat /\ cached'.cutoff \in Nat
      BY <1>2, <3>8 DEF SessionTypes, Revocations
    <3>10. HereInv'
      BY <3>3, <3>5, <3>7, <3>8, <3>9 DEF IInv, HereInv
    <3>11. Latest(w)' = n /\ \A v \in EndingRows : v # w => Latest(v)' = Latest(v)
      BY <2>2, <3>3, <3>7 DEF Latest, EndingRows
    <3>12. Mark(w, at) <= Copy(w)' /\ \A v \in EndingRows : v # w => Copy(v)' = Copy(v)
      BY <2>2, <3>8 DEF Copy, EndingRows, Mark
    <3> QED BY <3>7, <3>8, <3>10, <3>11, <3>12
  <2> QED BY <2>1, <2>2
<1>13. ASSUME NEW v \in EndingRows, v \notin crossed PROVE Refused(v)'
  <2>1. Refused(v) /\ Latest(v) \in Nat /\ Copy(v) \in Nat /\ Mark(v, Latest(v)) \in Nat
    BY <1>2, <1>13, RowTypes DEF IInv, EndedInv
  <2>2. Entry(v)' = Entry(v)
    BY <1>1 DEF Entry
  <2>3. PICK m : m = Latest(v)'
    OBVIOUS
  <2>4. Refused(v)' <=> \/ m = 0
                        \/ /\ Mark(v, m) <= Entry(v)
                           /\ Mark(v, m) <= Copy(v)' \/ m + TTL <= second
    BY <1>1, <2>2, <2>3 DEF Refused, Mark
  <2>5. CASE v # w
    <3>1. m = Latest(v) /\ Copy(v)' = Copy(v)
      BY <1>12, <2>3, <2>5
    <3> QED BY <2>1, <2>4, <3>1 DEF Refused
  <2>6. CASE v = w
    <3>1. m = at /\ Entry(v) = Mark(v, at) /\ Mark(v, at) <= Copy(v)' /\ Mark(v, at) \in Nat
      BY <1>2, <1>4, <1>8, <1>12, <1>13, <2>3, <2>6, RowTypes
    <3> QED BY <2>4, <3>1
  <2> QED BY <2>5, <2>6
<1>14. (Ends(r) => Ends(handler[p]) /\ EndsRow(r) = EndsRow(handler[p])) /\ Latest(w)' <= second
  BY <1>5, <1>8, <1>12
<1> QED BY <1>1, <1>3, <1>4, <1>5, <1>6, <1>12, <1>13, <1>14, CachedKeeps

\* A token is signed; a second passes; nothing is revoked.
LEMMA IssueKeeps ==
    ASSUME IInv, NEW p \in Handlers, Issue(p)
    PROVE  IInv'
<1>1. /\ UNCHANGED <<stored, cached, second, ended, crossed>> /\ handler[p].pc = "mint" /\ Rest(p)
      /\ tokens' = tokens \cup {[sid |-> handler[p].sid,
                                 iat |-> IF handler[p].op = "reset" THEN Cutoff(handler[p].at) ELSE second]}
  BY DEF Issue, IsAt
<1>2. InOrder(handler[p]) /\ SessionTypes /\ handler \in [Handlers -> SessionRequest]
  BY DEF IInv, RequestsInv, SessionTypes
<1>3. PICK iat : iat = IF handler[p].op = "reset" THEN Cutoff(handler[p].at) ELSE second
  OBVIOUS
<1>4. handler[p].sid \in Sids /\ iat \in Nat \ {0}
  BY <1>1, <1>2, <1>3 DEF InOrder, Minting, SessionRequest, Cutoff, SessionTypes
<1>5. tokens' \subseteq Token
  BY <1>1, <1>2, <1>3, <1>4 DEF SessionTypes, Token
<1>6. Resting \in SessionRequest /\ InOrder(Resting) /\ ~Ends(Resting)
  BY IdleInOrder DEF InOrder
<1>7. handler' \in [Handlers -> SessionRequest] /\ handler'[p] = Resting /\ \A q \in Handlers : q # p => handler'[q] = handler[q]
  BY <1>1, <1>2, <1>6 DEF Rest
<1>8. \A v : Latest(v)' = Latest(v) /\ Entry(v)' = Entry(v) /\ Copy(v)' = Copy(v)
  BY <1>1 DEF Latest, Entry, Copy
<1>9. \A x : InOrder(x) => InOrder(x)'
  BY <1>1, <1>8 DEF InOrder, Ends, EndsRow, Mark
<1>10. RequestsInv'
  <2> SUFFICES ASSUME NEW q \in Handlers PROVE InOrder(handler[q])'
    BY DEF RequestsInv
  <2>1. PICK x : x = handler'[q] /\ InOrder(x)
    BY <1>6, <1>7 DEF IInv, RequestsInv
  <2>2. InOrder(x)'
    BY <1>9, <2>1
  <2> QED BY <2>1, <2>2 DEF InOrder
<1>11. OneEach'
  <2> SUFFICES ASSUME NEW a \in Handlers, NEW b \in Handlers, Ends(handler'[a]), Ends(handler'[b]),
                      EndsRow(handler'[a]) = EndsRow(handler'[b]), EndsRow(handler'[a]) \notin crossed
               PROVE  a = b
    BY <1>1 DEF OneEach, Ends, EndsRow
  <2> QED BY <1>6, <1>7 DEF IInv, OneEach
<1>12. SessionTypes'
  BY <1>1, <1>2, <1>5, <1>7 DEF SessionTypes
<1>13. PastInv' /\ StoredInv' /\ HereInv' /\ EndedInv'
  BY <1>1, <1>8 DEF IInv, PastInv, StoredInv, HereInv, EndedInv, Refused, Mark
<1> QED BY <1>10, <1>11, <1>12, <1>13 DEF IInv

LEMMA TickKeeps ==
    ASSUME SessionsAssumption, IInv, SecondPasses \/ ForgotPassword \/ ResetWrongCode \/ UNCHANGED sessionVars
    PROVE  IInv'
<1>1. /\ UNCHANGED <<stored, cached, tokens, handler, ended, crossed>>
      /\ second \in Nat /\ second' \in Nat \ {0} /\ second <= second' /\ second' <= MaxSeconds
  BY DEF SecondPasses, ForgotPassword, ResetWrongCode, sessionVars, IInv, SessionTypes, SessionsAssumption
<1>2. SessionTypes
  BY DEF IInv
<1>3. SessionTypes'
  BY <1>1, <1>2 DEF SessionTypes
<1>4. \A v : Latest(v)' = Latest(v) /\ Entry(v)' = Entry(v) /\ Copy(v)' = Copy(v)
  BY <1>1 DEF Latest, Entry, Copy
<1>5. ASSUME NEW p \in Handlers PROVE InOrder(handler[p])'
  <2>1. PICK x \in SessionRequest : x = handler[p] /\ InOrder(x) /\ x.at \in Nat
    BY DEF IInv, RequestsInv, InOrder, SessionRequest
  <2>2. x.at <= second'
    BY <1>1, <2>1 DEF InOrder
  <2>3. InOrder(x)'
    BY <1>1, <1>4, <2>1, <2>2 DEF InOrder, Ends, EndsRow, Mark
  <2> QED BY <1>1, <2>1, <2>3
<1>6. RequestsInv'
  BY <1>5 DEF RequestsInv
<1>7. OneEach'
  BY <1>1 DEF IInv, OneEach
<1>8. PastInv'
  <2> SUFFICES ASSUME NEW w \in EndingRows PROVE Latest(w)' <= second'
    BY DEF PastInv
  <2>1. Latest(w) \in Nat /\ Latest(w) <= second
    BY <1>2, RowTypes DEF IInv, PastInv
  <2> QED BY <1>1, <1>4, <2>1
<1>9. StoredInv' /\ HereInv'
  BY <1>1 DEF IInv, StoredInv, HereInv
<1>10. EndedInv'
  <2> SUFFICES ASSUME NEW w \in EndingRows, w \notin crossed PROVE Refused(w)'
    BY <1>1 DEF EndedInv
  <2>1. Refused(w) /\ Latest(w) \in Nat /\ TTL \in Nat
    BY <1>2, RowTypes DEF IInv, EndedInv
  <2>2. Latest(w) + TTL <= second => Latest(w) + TTL <= second'
    BY <1>1, <2>1
  <2> QED BY <1>4, <2>1, <2>2 DEF Refused, Mark
<1> QED BY <1>3, <1>6, <1>7, <1>8, <1>9, <1>10 DEF IInv

\* Hydrate and HydrateUsers load a row as long as it can matter.
LEMMA RestartKeeps ==
    ASSUME SessionsAssumption, IInv, Restart
    PROVE  IInv'
<1>1. /\ UNCHANGED <<stored, tokens, second, crossed>> /\ cached' = Hydrated
      /\ \A p \in Handlers : handler'[p] = Resting
      /\ handler' = [p \in Handlers |-> Resting]
  BY DEF Restart
<1>2. SessionTypes /\ TTL \in Nat /\ MaxSeconds \in Nat /\ second \in Nat /\ second <= MaxSeconds
  BY DEF IInv, SessionTypes, SessionsAssumption
<1>3. PICK c \in Nat, u \in Nat, f \in [Sids -> Nat] : stored = [cutoff |-> c, until |-> u, sids |-> f]
  BY <1>2 DEF SessionTypes, Revocations
<1>4. stored.cutoff = c /\ stored.until = u /\ stored.sids = f
  BY <1>3
<1>5. PICK d, g : /\ d = IF u > second THEN c ELSE 0
                  /\ g = [s \in Sids |-> IF f[s] > second THEN MaxSeconds + TTL ELSE 0]
  OBVIOUS
<1>6. /\ d \in Nat /\ g \in [Sids -> Nat]
      /\ \A s \in Sids : g[s] = IF f[s] > second THEN MaxSeconds + TTL ELSE 0
  BY <1>2, <1>5
<1>7. cached' = [cutoff |-> d, until |-> 0, sids |-> g]
  BY <1>1, <1>4, <1>5 DEF Hydrated
<1>8. cached' \in Revocations /\ cached'.cutoff = d /\ cached'.sids = g
  BY <1>6, <1>7 DEF Revocations
<1>9. ended' \in Endings /\ ended'.here = 0 /\ ended'.all = ended.all /\ ended'.sids = ended.sids
  <2>1. PICK ch \in Nat, h \in Nat, a \in Nat, e \in [Sids -> Nat] :
            ended = [change |-> ch, here |-> h, all |-> a, sids |-> e]
    BY <1>2 DEF SessionTypes, Endings
  <2>2. ended' = [change |-> ch, here |-> 0, all |-> a, sids |-> e]
    BY <2>1 DEF Restart
  <2> QED BY <2>1, <2>2 DEF Endings
<1>10. Resting \in SessionRequest /\ InOrder(Resting) /\ ~Ends(Resting)
  BY IdleInOrder DEF InOrder
<1>11. \A v : Latest(v)' = Latest(v) /\ Entry(v)' = Entry(v)
  BY <1>1, <1>9 DEF Latest, Entry
<1>12. RequestsInv'
  <2> SUFFICES ASSUME NEW q \in Handlers PROVE InOrder(handler[q])'
    BY DEF RequestsInv
  <2>1. PICK x : x = Resting
    OBVIOUS
  <2>2. InOrder(x)'
    BY <1>1, <1>10, <1>11, <2>1 DEF InOrder, Ends, EndsRow, Mark
  <2>3. x = handler'[q]
    BY <1>1, <2>1
  <2> QED BY <2>2, <2>3 DEF InOrder
<1>13. OneEach'
  BY <1>1, <1>10 DEF OneEach, Ends, EndsRow
<1>14. SessionTypes'
  BY <1>1, <1>2, <1>8, <1>9, <1>10 DEF SessionTypes
<1>15. PastInv' /\ StoredInv' /\ HereInv'
  BY <1>1, <1>9, <1>11 DEF IInv, PastInv, StoredInv, HereInv
<1>16. EndedInv'
  <2> SUFFICES ASSUME NEW w \in EndingRows, w \notin crossed PROVE Refused(w)'
    BY <1>1 DEF EndedInv
  <2>1. Refused(w) /\ Latest(w) \in Nat /\ Latest(w) <= second
    BY <1>2, RowTypes DEF IInv, EndedInv, PastInv
  <2>2. PICK n \in Nat : n = Latest(w)
    BY <2>1
  <2>3. Refused(w)' <=> \/ n = 0
                        \/ /\ Mark(w, n) <= Entry(w)
                           /\ Mark(w, n) <= Copy(w)' \/ n + TTL <= second
    BY <1>1, <1>11, <2>2 DEF Refused, Mark
  <2>4. n = 0 \/ Mark(w, n) <= Entry(w)
    BY <2>1, <2>2 DEF Refused
  <2>5. CASE w = Absent
    <3>1. n = 0 \/ n + 1 <= c
      BY <1>4, <2>4, <2>5 DEF Mark, Entry
    <3>2. n = 0 \/ u = c + TTL
      BY <1>4, <3>1 DEF IInv, StoredInv
    <3>3. n = 0 \/ n + 1 <= d \/ n + TTL <= second
      BY <1>2, <1>5, <3>1, <3>2
    <3> QED BY <1>8, <2>3, <2>4, <2>5, <3>3 DEF Mark, Copy
  <2>6. CASE w # Absent
    <3>1. w \in Sids /\ (n = 0 \/ n + TTL <= f[w]) /\ f[w] \in Nat
      BY <1>3, <1>4, <2>4, <2>6 DEF Mark, Entry, EndingRows
    <3>2. n = 0 \/ n + TTL <= g[w] \/ n + TTL <= second
      BY <1>2, <1>6, <2>1, <2>2, <3>1
    <3> QED BY <1>8, <2>3, <2>4, <2>6, <3>2 DEF Mark, Copy
  <2> QED BY <2>5, <2>6
<1> QED BY <1>12, <1>13, <1>14, <1>15, <1>16 DEF IInv

LEMMA SessionsStart == ASSUME SessionsAssumption, SessionsInit PROVE IInv
<1>1. NoRevocations \in Revocations /\ NoRevocations.cutoff = 0
      /\ \A s \in Sids : NoRevocations.sids[s] = 0
  BY DEF NoRevocations, Revocations
<1>2. /\ Resting \in SessionRequest /\ Resting.op = "none" /\ Resting.pc = "idle" /\ Resting.at = 0
  BY DEF Resting, SessionRequest, Ops, EndingRows
<1>3. ended \in Endings /\ \A w \in EndingRows : Latest(w) = 0
  BY DEF SessionsInit, Endings, Latest, EndingRows
<1>4. SessionTypes
  BY <1>1, <1>2, <1>3 DEF SessionsInit, SessionTypes, SessionsAssumption
<1>5. RequestsInv /\ OneEach
  BY <1>2 DEF SessionsInit, RequestsInv, OneEach, InOrder, Ends, Minting, Ending, Writing, Changes
<1>6. PastInv /\ StoredInv /\ HereInv /\ EndedInv
  BY <1>1, <1>3 DEF SessionsInit, PastInv, StoredInv, HereInv, EndedInv, Refused
<1> QED BY <1>4, <1>5, <1>6 DEF IInv

\* However many resets, changes and terminations overlap, every token signed up to the second
\* that a completed one chose is refused for as long as the process runs; and unless two of
\* them were about to write the same row at once, through every later restart too: whatever
\* sign-ins and refreshes race with it and whichever calls fail or lose their answer
\* (revoker.go, resetPassword, updateUser, terminateDevice).
THEOREM EndedForGood ==
    ASSUME SessionsAssumption
    PROVE  SessionsSpec => []EndedSessionsStayEnded
<1>1. SessionsInit => IInv
  BY SessionsStart
<1>2. IInv /\ [SessionsNext]_sessionVars => IInv'
  BY HandlerKeeps, PersistKeeps, CacheFirstKeeps, CacheLastKeeps, IssueKeeps, TickKeeps, RestartKeeps
     DEF SessionsNext
<1>3. IInv => EndedSessionsStayEnded
  <2> SUFFICES ASSUME IInv, NEW t \in tokens,
                      \/ t.iat <= ended.here
                      \/ Absent \notin crossed /\ t.iat <= ended.all
                      \/ t.sid \notin crossed /\ t.iat <= ended.sids[t.sid]
               PROVE  ~Accepted(t)
    BY DEF EndedSessionsStayEnded
  <2>1. /\ t.iat \in Nat /\ t.iat # 0 /\ t.sid \in Sids /\ second \in Nat /\ TTL \in Nat
        /\ cached.sids[t.sid] \in Nat /\ cached.cutoff \in Nat
        /\ ended.here \in Nat /\ ended.all \in Nat /\ ended.sids[t.sid] \in Nat
    BY DEF IInv, SessionTypes, Token, Revocations, Endings, SessionsAssumption
  <2>2. CASE t.iat <= ended.here
    BY <2>1, <2>2 DEF IInv, HereInv, Accepted, Revoked, IsUserRevoked
  <2>3. CASE Absent \notin crossed /\ t.iat <= ended.all
    <3>1. Refused(Absent)
      BY <2>3 DEF IInv, EndedInv, EndingRows
    <3>2. ended.all + 1 <= cached.cutoff \/ ended.all + TTL <= second
      BY <2>1, <2>3, <3>1 DEF Refused, Latest, Mark, Copy
    <3> QED BY <2>1, <2>3, <3>2 DEF Accepted, Revoked, IsUserRevoked
  <2>4. CASE t.sid \notin crossed /\ t.iat <= ended.sids[t.sid]
    <3>1. Refused(t.sid) /\ t.sid # Absent
      BY <2>1, <2>4 DEF IInv, EndedInv, EndingRows, SessionsAssumption
    <3>2. ended.sids[t.sid] + TTL <= cached.sids[t.sid] \/ ended.sids[t.sid] + TTL <= second
      BY <2>1, <2>4, <3>1 DEF Refused, Latest, Mark, Copy
    <3> QED BY <2>1, <2>4, <3>2 DEF Accepted, Revoked, IsRevoked
  <2> QED BY <2>2, <2>3, <2>4
<1> QED BY <1>1, <1>2, <1>3, PTL DEF SessionsSpec
===============================================================================
