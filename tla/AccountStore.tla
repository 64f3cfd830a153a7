----------------------------- MODULE AccountStore -----------------------------
(***************************************************************************)
(* The account operations of the two stores, as functions of the tables    *)
(* they read and write.  MongoX is one call to the database, an update     *)
(* whose filter carries its condition; MemoryX is the body of the          *)
(* in-process store's method, which looks under the write lock and then    *)
(* writes.  A table maps every id to a row or to None; each operation      *)
(* answers with the table it leaves and the error it returns.              *)
(***************************************************************************)
EXTENDS Naturals

CONSTANT None

Never == None     \* a nil ExpiresAt

Done(t) == [table |-> t, err |-> "none"]
Fails(t, e) == [table |-> t, err |-> e]
Rows(t) == {k \in DOMAIN t : t[k] # None}

(***************************************************************************)
(* Users.  email and usernameLower are unique indexes of the database; the *)
(* in-process store has only the checks its methods make.                  *)
(***************************************************************************)
UserByEmail(us, e) == {u \in Rows(us) : us[u].email = e}

MongoCreateUser(us, id, row) ==
    IF id \in Rows(us) \/ UserByEmail(us, row.email) # {}
    THEN Fails(us, "duplicate")
    ELSE Done([us EXCEPT ![id] = row])

(***************************************************************************)
(* Invites.  A row is [expires, used, by, revoked].                        *)
(***************************************************************************)
Status(i, now) ==
    CASE i.used                                    -> "used"
      [] ~i.used /\ i.revoked                      -> "revoked"
      [] ~i.used /\ ~i.revoked /\ i.expires # Never /\ now >= i.expires -> "expired"
      [] OTHER                                     -> "pending"

Redeemable(i, now) == Status(i, now) = "pending"

\* Mutant: an invite is good until the end of the instant it expires in.
MongoConsumeInviteLate(t, id, user, now) ==
    LET hit == {k \in Rows(t) : /\ k = id
                                /\ ~t[k].used
                                /\ ~t[k].revoked
                                /\ t[k].expires = Never \/ t[k].expires >= now}
    IN  IF hit # {} THEN Done([t EXCEPT ![id].used = TRUE, ![id].by = user])
        ELSE IF id \in Rows(t) THEN Fails(t, "spent") ELSE Fails(t, "notFound")
MongoConsumeInvite(t, id, user, now) ==
    LET hit == {k \in Rows(t) : /\ k = id
                                /\ ~t[k].used
                                /\ ~t[k].revoked
                                /\ t[k].expires = Never \/ t[k].expires > now}
    IN  IF hit # {} THEN Done([t EXCEPT ![id].used = TRUE, ![id].by = user])
        ELSE IF id \in Rows(t) THEN Fails(t, "spent") ELSE Fails(t, "notFound")

MemoryConsumeInvite(t, id, user, now) ==
    IF id \notin Rows(t) THEN Fails(t, "notFound")
    ELSE IF ~Redeemable(t[id], now) THEN Fails(t, "spent")
    ELSE Done([t EXCEPT ![id] = [@ EXCEPT !.used = TRUE, !.by = user]])

MongoReleaseInvite(t, id) ==
    IF id \in Rows(t) THEN Done([t EXCEPT ![id].used = FALSE, ![id].by = None])
                      ELSE Fails(t, "notFound")

MemoryReleaseInvite(t, id) ==
    IF id \notin Rows(t) THEN Fails(t, "notFound")
    ELSE Done([t EXCEPT ![id] = [@ EXCEPT !.used = FALSE, !.by = None]])

MongoRevokeInvite(t, id) ==
    LET hit == {k \in Rows(t) : k = id /\ ~t[k].revoked}
    IN  IF hit # {} THEN Done([t EXCEPT ![id].revoked = TRUE])
        ELSE IF id \in Rows(t) THEN Done(t) ELSE Fails(t, "notFound")

MemoryRevokeInvite(t, id) ==
    IF id \notin Rows(t) THEN Fails(t, "notFound")
    ELSE IF t[id].revoked THEN Done(t)
    ELSE Done([t EXCEPT ![id] = [@ EXCEPT !.revoked = TRUE]])
=============================================================================
