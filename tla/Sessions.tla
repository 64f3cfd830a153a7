------------------------------- MODULE Sessions -------------------------------
(***************************************************************************)
(* The sessions of one account: sign-in, refresh, password reset, the      *)
(* administrator's changes, "terminate this device", and the revoker that  *)
(* ends sessions -- a table in the database, and the copy of it that every *)
(* request is checked against.  One action per database call; the process  *)
(* may restart, which ends the requests in flight and loads the copy again.*)
(*                                                                         *)
(*   login     check -> promote -> mint                                    *)
(*   refresh   check -> load -> promote -> mint                            *)
(*   reset     compare -> load -> del -> persist1 -> cache1 -> write       *)
(*             -> reload -> promote -> persist2 -> cache2 -> mint          *)
(*   admin     load -> persist1 -> cache1 -> write -> persist2 -> cache2   *)
(*   terminate persist2 -> cache2                                          *)
(*                                                                         *)
(* Time is counted in seconds, the precision of a token's iat.  A cutoff   *)
(* is chosen (from at) as soon as the call before it has returned.         *)
(***************************************************************************)
EXTENDS Naturals, FiniteSets

CONSTANTS Handlers, Sids, Absent,
          TTL,               \* how many seconds a refresh token lives
          MaxSeconds, MaxTokens, MaxRestarts, MaxWrongCodes, MaxChanges,
          ConfiguredAdmin    \* whether the address is in the configured admin list

SessionsAssumption == TTL \in Nat /\ MaxSeconds \in Nat \ {0} /\ Absent \notin Sids

VARIABLES account,    \* "active" or "blocked", or Absent once deleted
          code,       \* wrong tries at the pending reset code, or Absent
          stored,     \* revokedUsers and revokedSessions in the database
          cached,     \* the revoker's userCutoff and revoked maps
          tokens,     \* every token pair ever signed
          handler, second, restarts, changes,
          ended,      \* ghost: the last second whose tokens a completed change has ended
          crossed     \* ghost: rows that two changes were about to write at once

sessionVars == <<account, code, stored, cached, tokens, handler, second, restarts, changes, ended, crossed>>

\* cutoff 0 is no cutoff; sids maps a terminated session to the expiry of its entry.
NoRevocations == [cutoff |-> 0, until |-> 0, sids |-> [s \in Sids |-> 0]]
\* A new role and a new password are one kind of change: which it is, no step asks.
Changes == {"edit", "block", "unblock", "delete"}

Resting == [pc |-> "idle", op |-> "none", sid |-> Absent, at |-> 0]
IsAt(p, pc) == handler[p].pc = pc
MoveTo(p, pc) == handler' = [handler EXCEPT ![p].pc = pc]
Rest(p) == handler' = [handler EXCEPT ![p] = Resting]
Changing(p) == handler[p].op \in Changes \cup {"reset", "terminate"} /\ ~IsAt(p, "mint")
\* The row a change writes: of the one session it ends, or (Absent) of the account.
Row(p) == IF handler[p].op = "terminate" THEN handler[p].sid ELSE Absent
\* A change begins.  Nothing keeps it apart from others that are about to write the same row.
Begin(p, row) ==
    /\ changes < MaxChanges
    /\ changes' = changes + 1
    /\ crossed' = crossed \cup {r \in {row} : \E q \in Handlers \ {p} : Changing(q) /\ Row(q) = r}

(***************************************************************************)
(* The revoker                                                             *)
(***************************************************************************)
IsUserRevoked(t) == t.iat < cached.cutoff
IsRevoked(t) == cached.sids[t.sid] # 0 /\ second <= cached.sids[t.sid]
Revoked(t) == IsRevoked(t) \/ IsUserRevoked(t)

\* What ParseClaims and Revoked let through.
Accepted(t) == second < t.iat + TTL /\ ~Revoked(t)

\* The next whole second: a token signed earlier in this one has this second as its iat.
Cutoff(at) == at + 1

\* RevokeUserTokensBefore: the row is overwritten, whatever it holds.
RevokeUserTokensBefore(cut) == stored' = [stored EXCEPT !.cutoff = cut, !.until = cut + TTL]
RevokeSession(s, at) == stored' = [stored EXCEPT !.sids[s] = at + TTL]

\* The cache never moves back.
RevokeUserBefore(cut) ==
    cached' = [cached EXCEPT !.cutoff = IF cut > @ THEN cut ELSE @]
Revoke(s, at) == cached' = [cached EXCEPT !.sids[s] = at + TTL]

SessionsInit ==
    /\ account = "active"
    /\ code = Absent
    /\ stored = NoRevocations /\ cached = NoRevocations
    /\ tokens = {}
    /\ handler = [p \in Handlers |-> Resting]
    /\ second = 1 /\ restarts = 0 /\ changes = 0
    /\ ended = [change |-> 0, here |-> 0, all |-> 0, sids |-> [s \in Sids |-> 0]]
    /\ crossed = {}

(***************************************************************************)
(* login and refresh                                                       *)
(***************************************************************************)
FreshSids == Sids \ ({t.sid : t \in tokens} \cup {handler[q].sid : q \in Handlers})

Login(p) ==
    /\ IsAt(p, "idle")
    /\ account = "active"
    /\ \E s \in FreshSids :
          handler' = [handler EXCEPT ![p] = [pc |-> "promote", op |-> "login", sid |-> s, at |-> 0]]
    /\ UNCHANGED <<account, code, stored, cached, tokens, second, restarts, changes, ended, crossed>>

RefreshCheck(p, t) ==
    /\ IsAt(p, "idle")
    /\ Accepted(t)
    /\ handler' = [handler EXCEPT ![p] = [pc |-> "refreshLoad", op |-> "refresh",
                                  sid |-> t.sid, at |-> 0]]
    /\ UNCHANGED <<account, code, stored, cached, tokens, second, restarts, changes, ended, crossed>>

RefreshLoad(p) ==
    /\ IsAt(p, "refreshLoad")
    /\ IF account # "active" THEN Rest(p) ELSE MoveTo(p, "promote")
    /\ UNCHANGED <<account, code, stored, cached, tokens, second, restarts, changes, ended, crossed>>

\* currentRole: an address in the configured list is written as an administrator's again,
\* which fails once the account is gone.
CurrentRole(p) ==
    /\ IsAt(p, "promote")
    /\ IF ConfiguredAdmin /\ account = Absent
       THEN Rest(p)
       ELSE handler' = [handler EXCEPT ![p].pc = IF handler[p].op = "reset" THEN "persist2" ELSE "mint",
                               ![p].at = second]
    /\ UNCHANGED <<account, code, stored, cached, tokens, second, restarts, changes, ended, crossed>>

\* Issue and IssueWithSession stamp the clock, IssueAt the cutoff of the reset it ends.
Issue(p) ==
    /\ IsAt(p, "mint") /\ Cardinality(tokens) < MaxTokens
    /\ tokens' = tokens \cup {[sid |-> handler[p].sid,
                               iat |-> IF handler[p].op = "reset" THEN Cutoff(handler[p].at) ELSE second]}
    /\ Rest(p)
    /\ UNCHANGED <<account, code, stored, cached, second, restarts, changes, ended, crossed>>

(***************************************************************************)
(* forgot-password and reset-password                                      *)
(***************************************************************************)
ForgotPassword ==
    /\ account # Absent
    /\ code' = 0
    /\ UNCHANGED <<account, stored, cached, tokens, handler, second, restarts, changes, ended, crossed>>

ResetWrongCode ==
    /\ code # Absent
    /\ code' = IF code + 1 >= MaxWrongCodes THEN Absent ELSE code + 1
    /\ UNCHANGED <<account, stored, cached, tokens, handler, second, restarts, changes, ended, crossed>>

ResetCompare(p) ==
    /\ IsAt(p, "idle")
    /\ code # Absent /\ account = "active"
    /\ \E s \in FreshSids :
          handler' = [handler EXCEPT ![p] = [pc |-> "del", op |-> "reset", sid |-> s, at |-> 0]]
    /\ Begin(p, Absent)
    /\ UNCHANGED <<account, code, stored, cached, tokens, second, restarts, ended>>

ResetDel(p) ==
    /\ IsAt(p, "del")
    /\ code' = Absent
    /\ handler' = [handler EXCEPT ![p].pc = "persist1", ![p].at = second]
    /\ UNCHANGED <<account, stored, cached, tokens, second, restarts, changes, ended, crossed>>

\* Re-read after the password write: the account may be gone or blocked by now.
ResetReload(p) ==
    /\ IsAt(p, "reload")
    /\ IF account # "active" THEN Rest(p) ELSE MoveTo(p, "promote")
    /\ UNCHANGED <<account, code, stored, cached, tokens, second, restarts, changes, ended, crossed>>

(***************************************************************************)
(* The administrator's changes, and the bracket both kinds of change share *)
(***************************************************************************)
AdminLoad(p, change) ==
    /\ IsAt(p, "idle")
    /\ account # Absent
    /\ handler' = [handler EXCEPT ![p] = [pc |-> "persist1", op |-> change, sid |-> Absent,
                                  at |-> second]]
    /\ Begin(p, Absent)
    /\ UNCHANGED <<account, code, stored, cached, tokens, second, restarts, ended>>

Persist(p) ==
    /\ handler[p].pc \in {"persist1", "persist2"}
    /\ IF Row(p) # Absent
       THEN RevokeSession(Row(p), handler[p].at)
       ELSE RevokeUserTokensBefore(Cutoff(handler[p].at))
    /\ MoveTo(p, IF IsAt(p, "persist1") THEN "cache1" ELSE "cache2")
    /\ UNCHANGED <<account, code, cached, tokens, second, restarts, changes, ended, crossed>>

\* A call fails, or its answer is lost: the handler answers 500 and its change, if it made
\* one, stays (at cache1 and cache2 the row is written, and the copy is not).
HandlerFails(p) ==
    /\ handler[p].pc \in {"persist1", "cache1", "persist2", "cache2", "write", "reload", "promote", "del"}
    /\ Rest(p)
    /\ UNCHANGED <<account, code, stored, cached, tokens, second, restarts, changes, ended, crossed>>

CacheFirst(p) ==
    /\ IsAt(p, "cache1")
    /\ RevokeUserBefore(Cutoff(handler[p].at))
    /\ MoveTo(p, "write")
    /\ UNCHANGED <<account, code, stored, tokens, second, restarts, changes, ended, crossed>>

Written(op) ==
    CASE op = "block"   -> "blocked"
      [] op = "unblock" -> "active"
      [] op = "delete"  -> Absent
      [] OTHER          -> account

Write(p) ==
    /\ IsAt(p, "write")
    /\ IF account = Absent
       THEN Rest(p) /\ UNCHANGED account
       ELSE /\ account' = Written(handler[p].op)
            /\ handler' = [handler EXCEPT ![p].pc = IF handler[p].op = "reset" THEN "reload" ELSE "persist2",
                                  ![p].at = second]
    /\ UNCHANGED <<code, stored, cached, tokens, second, restarts, changes, ended, crossed>>

Later(a, b) == IF a > b THEN a ELSE b

\* The change is complete, and has ended every token signed up to the second its cutoff was
\* chosen in (of the terminated device, or of the account), the ones signed later in that
\* second included.  Not among them: the replacement session that a reset stamps with the
\* coming second.
CacheLast(p) ==
    /\ IsAt(p, "cache2")
    /\ IF Row(p) # Absent
       THEN /\ Revoke(Row(p), handler[p].at)
            /\ ended' = [ended EXCEPT !.sids[Row(p)] = Later(@, handler[p].at)]
       ELSE /\ RevokeUserBefore(Cutoff(handler[p].at))
            /\ ended' = [ended EXCEPT !.here = Later(@, handler[p].at), !.all = Later(@, handler[p].at),
                                      !.change = IF handler[p].op = "terminate" THEN @
                                                 ELSE Later(@, handler[p].at)]
    /\ IF handler[p].op = "reset" THEN MoveTo(p, "mint") ELSE Rest(p)
    /\ UNCHANGED <<account, code, stored, tokens, second, restarts, changes, crossed>>

\* terminateDevice's login half: the device's session, or every session of the account
\* when the device registered before session ids were recorded.
Terminate(p, s) ==
    /\ IsAt(p, "idle")
    /\ s # Absent => \E t \in tokens : t.sid = s
    /\ handler' = [handler EXCEPT ![p] = [pc |-> "persist2", op |-> "terminate", sid |-> s,
                                  at |-> second]]
    /\ Begin(p, s)
    /\ UNCHANGED <<account, code, stored, cached, tokens, second, restarts, ended>>

SecondPasses == second < MaxSeconds /\ second' = second + 1
        /\ UNCHANGED <<account, code, stored, cached, tokens, handler, restarts, changes, ended, crossed>>

\* Hydrate and HydrateUsers: what is still active, as of now.
\* Mutant: only the sessions are loaded again.
HydrateSessionsOnly ==
    [cutoff |-> 0, until |-> 0,
     sids |-> [s \in Sids |-> IF stored.sids[s] > second THEN MaxSeconds + TTL ELSE 0]]
Hydrated ==
    [cutoff |-> IF stored.until > second THEN stored.cutoff ELSE 0, until |-> 0,
     sids |-> [s \in Sids |-> IF stored.sids[s] > second THEN MaxSeconds + TTL ELSE 0]]

Restart ==
    /\ restarts < MaxRestarts
    /\ restarts' = restarts + 1
    /\ cached' = Hydrated
    /\ handler' = [p \in Handlers |-> Resting]
    /\ ended' = [ended EXCEPT !.here = 0]
    /\ UNCHANGED <<account, code, stored, tokens, second, changes, crossed>>

SessionsNext ==
    \/ SecondPasses \/ Restart \/ ForgotPassword \/ ResetWrongCode
    \/ \E p \in Handlers :
          \/ Login(p) \/ (\E t \in tokens : RefreshCheck(p, t)) \/ RefreshLoad(p)
          \/ CurrentRole(p) \/ Issue(p)
          \/ ResetCompare(p) \/ ResetDel(p) \/ ResetReload(p)
          \/ (\E c \in Changes : AdminLoad(p, c))
          \/ Persist(p) \/ CacheFirst(p) \/ Write(p) \/ CacheLast(p) \/ HandlerFails(p)
          \/ \E s \in Sids \cup {Absent} : Terminate(p, s)

SessionsSpec == SessionsInit /\ [][SessionsNext]_sessionVars
-----------------------------------------------------------------------------
\* Once a password reset, an administrator's change or "terminate this device" has been
\* answered, every token signed up to the second of its cutoff is refused, and stays refused:
\* for as long as the process runs, whatever changes run beside it; and through restarts and
\* expiries of its row, unless two changes were about to write that row at once.
EndedSessionsStayEnded ==
    \A t \in tokens :
        (\/ t.iat <= ended.here
         \/ Absent \notin crossed /\ t.iat <= ended.all
         \/ t.sid \notin crossed /\ t.iat <= ended.sids[t.sid])
        => ~Accepted(t)

\* "Bracket the mutation so a concurrent refresh cannot mint a token between the account change
\* and its revocation" (admin_handler.go; auth_handler.go says the same of a reset): no token
\* of a session that a completed change has ended is accepted.  Violated by a refresh that is
\* past its checks and signs in the next second.
NoRefreshOutlivesTheChange ==
    \A t, u \in tokens : t.sid = u.sid /\ t.iat <= ended.change => ~Accepted(u)

\* "A revocation is persisted first, then cached, so a restart re-hydrates the same set"
\* (auth/revoker.go): with no change in flight, what a restart would load refuses every
\* token the running process refuses.  Violated when two changes choose their cutoffs in one
\* order and store them in the other.
RestartRefusesTheSame ==
    (\A p \in Handlers : ~Changing(p)) =>
        \A t \in tokens : second < t.iat + TTL /\ t.iat < cached.cutoff => t.iat < Hydrated.cutoff
=============================================================================
