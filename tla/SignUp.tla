-------------------------------- MODULE SignUp --------------------------------
(***************************************************************************)
(* Registration: the invitations an administrator mints, the pending       *)
(* sign-ups kept in Redis, and the two public handlers that turn one into  *)
(* an account (AuthHandler.register and AuthHandler.verify), one action    *)
(* per call to the store or to Redis.  Requests run concurrently and a     *)
(* request may die between any two of its calls.                           *)
(*                                                                         *)
(*   register   check -> put                                               *)
(*   verify     compare -> (exists -> incr -> del)     the code was wrong  *)
(*                      -> (recheck -> consume -> create -> done)          *)
(*                                                  -> release             *)
(*   admin      adminCheck -> adminCreate                                  *)
(***************************************************************************)
EXTENDS AccountStore, FiniteSets

CONSTANTS Emails, UserIDs, Invites, Procs,
          InviteOnly,       \* whether registration needs an invitation
          MaxAttempts,      \* wrong codes a pending sign-up survives (otp.MaxAttempts)
          MaxTime,          \* bound on the clock that expires invitations
          MaxFaults,        \* bound on failed calls and dead requests
          LostAnswers       \* whether a failed insert may have happened all the same

\* The rows of the two tables and the hash of a pending sign-up.
User == [email : Emails, via : Invites \cup {None}]
Invite == [expires : (0 .. MaxTime) \cup {Never}, used : BOOLEAN,
           by : UserIDs \cup {None}, revoked : BOOLEAN]
Signup == [live : BOOLEAN, attempts : Nat, invite : Invites \cup {None}]

ASSUME SignUpAssumption ==
    /\ None \notin Emails \cup UserIDs \cup Invites \cup 0 .. MaxTime
    /\ None \notin User \cup Invite \cup Signup
    /\ MaxAttempts \in Nat \ {0} /\ MaxTime \in Nat /\ MaxFaults \in Nat
    /\ InviteOnly \in BOOLEAN /\ LostAnswers \in BOOLEAN /\ IsFiniteSet(Procs)

VARIABLES users, invites,
          signups,     \* email -> the pending sign-up in Redis, or None
          cooldown,    \* emails a code was sent to a moment ago
          req,         \* what each request is doing
          now, faults,
          tries,       \* ghost: wrong codes compared with each pending sign-up
          stranded     \* ghost: invites whose release failed or whose request died

vars == <<users, invites, signups, cooldown, req, now, faults, tries, stranded>>
tables == <<users, invites>>

Idle == [pc |-> "idle", email |-> None, invite |-> None, uid |-> None]
At(p, pc) == req[p].pc = pc
Goto(p, pc) == req' = [req EXCEPT ![p].pc = pc]
Finish(p) == req' = [req EXCEPT ![p] = Idle]

\* An account, with the invitation that let it in (ghost: the row does not keep it).
NewUser(e, i) == [email |-> e, via |-> i]

\* Ids that no row and no request under way has.
FreshIDs == UserIDs \ (Rows(users) \cup {req[q].uid : q \in Procs})

Init ==
    /\ users = [u \in UserIDs |-> None]
    /\ invites = [i \in Invites |-> None]
    /\ signups = [e \in Emails |-> None]
    /\ cooldown = {}
    /\ req = [p \in Procs |-> Idle]
    /\ now = 0 /\ faults = 0
    /\ tries = [e \in Emails |-> 0]
    /\ stranded = {}

(***************************************************************************)
(* The administrator's panel                                               *)
(***************************************************************************)
CreateInvite(i) ==
    /\ invites[i] = None
    /\ \E x \in {Never} \cup (now + 1) .. MaxTime :
          invites' = [invites EXCEPT ![i] = [expires |-> x, used |-> FALSE,
                                             by |-> None, revoked |-> FALSE]]
    /\ UNCHANGED <<users, signups, cooldown, req, now, faults, tries, stranded>>

RevokeInvite(i) ==
    /\ invites[i] # None
    /\ invites' = MongoRevokeInvite(invites, i).table
    /\ UNCHANGED <<users, signups, cooldown, req, now, faults, tries, stranded>>

AdminCheck(p, e) ==
    /\ At(p, "idle")
    /\ UserByEmail(users, e) = {}
    /\ req' = [req EXCEPT ![p] = [Idle EXCEPT !.pc = "adminCreate", !.email = e]]
    /\ UNCHANGED <<users, invites, signups, cooldown, now, faults, tries, stranded>>

AdminCreate(p) ==
    /\ At(p, "adminCreate")
    /\ \E u \in FreshIDs :
          users' = MongoCreateUser(users, u, NewUser(req[p].email, None)).table
    /\ Finish(p)
    /\ UNCHANGED <<invites, signups, cooldown, now, faults, tries, stranded>>

(***************************************************************************)
(* register                                                                *)
(***************************************************************************)
ResolveInvite(i) == i \in Rows(invites) /\ Status(invites[i], now) = "pending"

\* The account and the invitation are looked up, and CooldownOK is one SETNX: of two
\* requests for one address, one goes on.  (The cooldown may end at any moment, so taking
\* it together with the two reads loses no behaviour.)
RegisterCheck(p, e, i) ==
    /\ At(p, "idle")
    /\ UserByEmail(users, e) = {}
    /\ IF InviteOnly THEN ResolveInvite(i) ELSE i = None
    /\ e \notin cooldown
    /\ cooldown' = cooldown \cup {e}
    /\ req' = [req EXCEPT ![p] = [Idle EXCEPT !.pc = "put", !.email = e, !.invite = i]]
    /\ UNCHANGED <<users, invites, signups, now, faults, tries, stranded>>

\* PutSignup replaces the whole hash in one transaction; the e-mail follows, and a
\* failure to send it leaves the pending sign-up where it is.
PutSignup(p) ==
    /\ At(p, "put")
    /\ signups' = [signups EXCEPT ![req[p].email] =
                      [live |-> TRUE, attempts |-> 0, invite |-> req[p].invite]]
    /\ tries' = [tries EXCEPT ![req[p].email] = 0]
    /\ Finish(p)
    /\ UNCHANGED <<users, invites, cooldown, now, faults, stranded>>

(***************************************************************************)
(* verify                                                                  *)
(***************************************************************************)
\* The code presented is the one sent, or it is not; nothing equals the missing code of a
\* hash that only HINCRBY wrote.
VerifyCompare(p, e, right) ==
    /\ At(p, "idle")
    /\ signups[e] # None
    /\ right => signups[e].live
    /\ req' = [req EXCEPT ![p] = [pc |-> IF right THEN "recheck" ELSE "exists",
                                  email |-> e, invite |-> signups[e].invite,
                                  uid |-> None]]
    /\ tries' = IF right THEN tries ELSE [tries EXCEPT ![e] = @ + 1]
    /\ UNCHANGED <<users, invites, signups, cooldown, now, faults, stranded>>

\* IncrSignupAttempts: EXISTS, and then HINCRBY, which creates what has expired since.
IncrExists(p) ==
    /\ At(p, "exists")
    /\ IF signups[req[p].email] = None THEN Finish(p) ELSE Goto(p, "incr")
    /\ UNCHANGED <<users, invites, signups, cooldown, now, faults, tries, stranded>>

IncrBy(s) == IF s = None THEN [live |-> FALSE, attempts |-> 1, invite |-> None]
                         ELSE [s EXCEPT !.attempts = @ + 1]

\* Mutant: one try too many.
IncrSignupAttemptsOffByOne(p) ==
    LET s == IncrBy(signups[req[p].email]) IN
    /\ At(p, "incr")
    /\ signups' = [signups EXCEPT ![req[p].email] = s]
    /\ IF s.attempts > MaxAttempts THEN Goto(p, "del") ELSE Finish(p)
    /\ UNCHANGED <<users, invites, cooldown, now, faults, tries, stranded>>
IncrSignupAttempts(p) ==
    LET s == IncrBy(signups[req[p].email]) IN
    /\ At(p, "incr")
    /\ signups' = [signups EXCEPT ![req[p].email] = s]
    /\ IF s.attempts >= MaxAttempts THEN Goto(p, "del") ELSE Finish(p)
    /\ UNCHANGED <<users, invites, cooldown, now, faults, tries, stranded>>

\* DelSignup ends a request, whichever way it went.  Its own error is ignored.
DelSignup(p) ==
    /\ At(p, "del")
    /\ signups' = [signups EXCEPT ![req[p].email] = None]
    /\ tries' = [tries EXCEPT ![req[p].email] = 0]
    /\ Finish(p)
    /\ UNCHANGED <<users, invites, cooldown, now, faults, stranded>>

VerifyRecheck(p) ==
    /\ At(p, "recheck")
    /\ Goto(p, IF UserByEmail(users, req[p].email) # {} THEN "del" ELSE "consume")
    /\ UNCHANGED <<users, invites, signups, cooldown, now, faults, tries, stranded>>

\* The account's id is minted first, so that the invite records it in the same update.
\* Mutant: the invite is looked at here and spent after the account exists.
ConsumeByLooking(p) ==
    /\ At(p, "consume")
    /\ \E u \in FreshIDs :
          IF InviteOnly /\ req[p].invite # None
          THEN LET seen == MemoryConsumeInvite(invites, req[p].invite, u, now) IN
               IF seen.err = "none"
               THEN req' = [req EXCEPT ![p].pc = "create", ![p].uid = u]
               ELSE Goto(p, "del")
          ELSE req' = [req EXCEPT ![p].pc = "create", ![p].uid = u]
    /\ UNCHANGED <<users, invites, signups, cooldown, now, faults, tries, stranded>>
ConsumeInvite(p) ==
    /\ At(p, "consume")
    /\ \E u \in FreshIDs :
          IF InviteOnly /\ req[p].invite # None
          THEN LET r == MongoConsumeInvite(invites, req[p].invite, u, now) IN
               /\ invites' = r.table
               /\ IF r.err = "none"
                  THEN req' = [req EXCEPT ![p].pc = "create", ![p].uid = u]
                  ELSE Goto(p, "del")
          ELSE req' = [req EXCEPT ![p].pc = "create", ![p].uid = u] /\ UNCHANGED invites
    /\ UNCHANGED <<users, signups, cooldown, now, faults, tries, stranded>>

CreateUser(p) ==
    LET held == IF InviteOnly THEN req[p].invite ELSE None
        r == MongoCreateUser(users, req[p].uid, NewUser(req[p].email, held)) IN
    /\ At(p, "create")
    /\ users' = r.table
    /\ Goto(p, IF r.err = "none" THEN "del"
               ELSE IF held # None THEN "release" ELSE "idle")
    /\ UNCHANGED <<invites, signups, cooldown, now, faults, tries, stranded>>

ReleaseInvite(p) ==
    /\ At(p, "release")
    /\ invites' = MongoReleaseInvite(invites, req[p].invite).table
    /\ Finish(p)
    /\ UNCHANGED <<users, signups, cooldown, now, faults, tries, stranded>>

(***************************************************************************)
(* Time and failure                                                        *)
(***************************************************************************)
Tick == now < MaxTime /\ now' = now + 1
        /\ UNCHANGED <<users, invites, signups, cooldown, req, faults, tries, stranded>>

CodeExpires(e) ==
    /\ signups[e] # None /\ signups[e].live
    /\ signups' = [signups EXCEPT ![e] = None]
    /\ tries' = [tries EXCEPT ![e] = 0]
    /\ UNCHANGED <<users, invites, cooldown, req, now, faults, stranded>>

CooldownEnds(e) ==
    /\ e \in cooldown
    /\ cooldown' = cooldown \ {e}
    /\ UNCHANGED <<users, invites, signups, req, now, faults, tries, stranded>>

\* A call fails and its handler answers 500: an insert that fails sends the request to
\* the release of its invite, every other failure ends it.
CallFails(p) ==
    /\ req[p].pc # "idle" /\ faults < MaxFaults
    /\ faults' = faults + 1
    /\ IF At(p, "create") /\ InviteOnly /\ req[p].invite # None
       THEN /\ Goto(p, "release")
            /\ UNCHANGED stranded
            /\ \/ UNCHANGED users
               \/ /\ LostAnswers
                  /\ users' = MongoCreateUser(users, req[p].uid,
                                 NewUser(req[p].email, req[p].invite)).table
       ELSE /\ Finish(p)
            /\ stranded' = IF At(p, "release") THEN stranded \cup {req[p].invite} ELSE stranded
            /\ UNCHANGED users
    /\ UNCHANGED <<invites, signups, cooldown, now, tries>>

\* The process dies, or the client hangs up: nothing more of the request happens.
Dies(p) ==
    /\ req[p].pc # "idle" /\ faults < MaxFaults
    /\ faults' = faults + 1
    /\ stranded' = IF req[p].pc \in {"create", "release"} THEN stranded \cup {req[p].invite}
                                                          ELSE stranded
    /\ Finish(p)
    /\ UNCHANGED <<users, invites, signups, cooldown, now, tries>>

Next ==
    \/ Tick
    \/ \E i \in Invites : CreateInvite(i) \/ RevokeInvite(i)
    \/ \E e \in Emails : CodeExpires(e) \/ CooldownEnds(e)
    \/ \E p \in Procs, e \in Emails :
          \/ AdminCheck(p, e)
          \/ \E i \in Invites \cup {None} : RegisterCheck(p, e, i)
          \/ \E right \in BOOLEAN : VerifyCompare(p, e, right)
    \/ \E p \in Procs :
          \/ AdminCreate(p) \/ PutSignup(p)
          \/ IncrExists(p) \/ IncrSignupAttempts(p) \/ DelSignup(p)
          \/ VerifyRecheck(p) \/ ConsumeInvite(p) \/ CreateUser(p) \/ ReleaseInvite(p)
          \/ CallFails(p) \/ Dies(p)

Spec == Init /\ [][Next]_vars
-----------------------------------------------------------------------------
\* An invitation is spent by the one account it let in, and stays spent by it: two
\* requests verifying against one link, a failed insert that hands the link back, a
\* withdrawal in between never leave two accounts, or an account whose link is free again.
\* And a spent invitation is somebody's: an account's, or that of a request still between
\* spending it and creating the account or handing it back, unless that request died.
InvitesBalance ==
    /\ \A u \in Rows(users) : users[u].via # None =>
          /\ invites[users[u].via].used
          /\ invites[users[u].via].by = u
    /\ \A i \in Rows(invites) : invites[i].used =>
          \/ invites[i].by \in Rows(users)
          \/ \E p \in Procs : req[p].invite = i /\ req[p].pc \in {"create", "release"}
          \/ i \in stranded

\* Wrong codes are compared before they are counted, so requests in flight can overrun
\* MaxAttempts, but by no more than one each, whatever they interleave with.
AttemptsAreBounded ==
    \A e \in Emails : tries[e] <= MaxAttempts - 1 + Cardinality(Procs) + faults

\* In every state a request can meet, the database and the in-process store decide an
\* invitation's fate alike (the conformance tests run a few of these states).
StoresAgree ==
    \A i \in Invites, u \in UserIDs :
        /\ MongoConsumeInvite(invites, i, u, now) = MemoryConsumeInvite(invites, i, u, now)
        /\ MongoReleaseInvite(invites, i) = MemoryReleaseInvite(invites, i)
        /\ MongoRevokeInvite(invites, i) = MemoryRevokeInvite(invites, i)
=============================================================================
