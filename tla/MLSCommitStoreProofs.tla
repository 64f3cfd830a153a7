------------------------- MODULE MLSCommitStoreProofs -------------------------
(***************************************************************************)
(* For any number of requests, resets and groups, and whatever fails:      *)
(* TypeOK, OneCommitPerEpoch, AcceptedNeverUndone, RetiredStaysRetired.    *)
(* While no insert fails or loses its answer: NoGhostWelcome.  While nothing fails on a hub:   *)
(* ChainLinks, and that the store implements MLSGroupLog.                  *)
(***************************************************************************)
EXTENDS MLSCommitStore, TLAPS

(***************************************************************************)
(* The inductive invariant.  A request has claimed an epoch once its       *)
(* compare-and-set landed, until it gives the epoch up (failed).  Claims   *)
(* are unique, and none lies ahead of the conversation's epoch; that is    *)
(* what keeps a rollback from passing a Commit somebody can read.  The     *)
(* rest is freshness: until its compare-and-set, a group that is being     *)
(* established is nobody else's.                                           *)
(***************************************************************************)
Claimed == {r \in Requests : pc[r] \in {"welcome", "commit", "rollback", "accepted"}}

Callers ==
    /\ group \in minted \cup {NoGroup}
    /\ \A r \in Requests : pc[r] # "idle" => req[r].group \in minted
    /\ \A r \in Requests : pc[r] = "head" => req[r].base # 0

LogOrigin ==
    \A m \in log :
        /\ m.group = req[m.commit].group
        /\ m.epoch = req[m.commit].base + 1
        /\ pc[m.commit] \notin {"idle", "head", "cas"}
        /\ m.kind = "commit" =>
              /\ pc[m.commit] \in {"accepted", "rollback", "failed"}
              /\ m = L!CommitMsg(m.commit, req[m.commit].group, req[m.commit].base + 1,
                                 NewHash(m.commit))

Freshness ==
    \A r \in Requests : pc[r] = "cas" /\ req[r].base = 0 =>
        /\ group # req[r].group
        /\ \A s \in Requests \ {r} : pc[s] # "idle" => req[s].group # req[r].group

ClaimsUnique ==
    \A r, s \in Claimed : req[r].group = req[s].group /\ req[r].base = req[s].base => r = s

ClaimsBelow ==
    \A r \in Claimed : req[r].group = group => req[r].base + 1 <= epoch

IInv == TypeOK /\ Callers /\ LogOrigin /\ Freshness /\ ClaimsUnique /\ ClaimsBelow

-----------------------------------------------------------------------------

\* Links stay links: the hash a request builds is a chain of well-formed links.
LEMMA NewHashType ==
    ASSUME RequestType, NEW r \in Requests, req[r].group \in Groups
    PROVE  NewHash(r) \in Seq(Links)
<1>1. [epoch |-> req[r].base + 1, group |-> req[r].group, commit |-> r] \in Links
  BY DEF RequestType, Links
<1>2. prev[r] \in Seq(Links)
  BY DEF RequestType
<1> QED BY <1>1, <1>2 DEF NewHash, L!Link

\* The initial state satisfies the invariant.
LEMMA InitIInv == Init => IInv
BY StoreAssumption
   DEF Init, L!LogInit, IInv, TypeOK, StoreType, RequestType, ResetType, LogType, Unsent, Callers,
       LogOrigin, Freshness, ClaimsUnique, ClaimsBelow, Claimed

\* What a request that has started asks for.
LEMMA CallerType ==
    ASSUME IInv, NEW r \in Requests, pc[r] # "idle"
    PROVE  req[r].group \in minted /\ req[r].group \in Groups /\ req[r].base \in Nat
BY DEF IInv, TypeOK, RequestType, Callers

\* A step that changes no stamp and takes no request of the log out of its place
\* keeps the log's origin.
LEMMA LogOriginFrame ==
    ASSUME IInv, UNCHANGED log,
           \A s \in Requests : pc[s] \notin {"idle", "head", "cas"} =>
               /\ req'[s] = req[s] /\ pc'[s] \notin {"idle", "head", "cas"}
               /\ pc[s] \in {"accepted", "rollback", "failed"} =>
                     pc'[s] \in {"accepted", "rollback", "failed"} /\ prev'[s] = prev[s]
    PROVE  LogOrigin'
BY DEF IInv, TypeOK, LogType, LogOrigin, NewHash, L!CommitMsg, L!Link

\* A step that makes no claim and leaves the conversation alone keeps the claims.
LEMMA ClaimsFrame ==
    ASSUME IInv, group' = group, epoch' = epoch, Claimed' \subseteq Claimed,
           \A s \in Claimed : req'[s] = req[s]
    PROVE  ClaimsUnique' /\ ClaimsBelow'
BY DEF IInv, ClaimsUnique, ClaimsBelow

\* A client starting a call disturbs no claim and mints at most a fresh group.
LEMMA EstablishIInv ==
    ASSUME IInv, NEW r \in Requests, NEW g \in Groups, NEW w \in BOOLEAN, Establish(r, g, w)
    PROVE  IInv'
<1> USE StoreAssumption DEF Establish, storeVars, resetVars
<1>1. TypeOK'
  BY DEF IInv, TypeOK, StoreType, RequestType, ResetType, LogType
<1>2. Callers'
  BY DEF IInv, Callers, TypeOK, RequestType
<1>3. LogOrigin'
  BY LogOriginFrame DEF IInv, TypeOK, RequestType
<1>4. Freshness'
  BY DEF IInv, Freshness, Callers, TypeOK, RequestType
<1>5. ClaimsUnique' /\ ClaimsBelow'
  BY ClaimsFrame DEF IInv, Claimed, TypeOK, RequestType
<1> QED BY <1>1, <1>2, <1>3, <1>4, <1>5 DEF IInv

LEMMA AdvanceIInv ==
    ASSUME IInv, NEW r \in Requests, NEW m \in log, NEW w \in BOOLEAN, Advance(r, m, w)
    PROVE  IInv'
<1> USE StoreAssumption DEF Advance, storeVars, resetVars
<1>1. m.group \in minted /\ m.group \in Groups /\ m.epoch \in Nat \ {0} /\ m.commit \in Requests
  BY DEF IInv, TypeOK, LogType, RequestType
<1>2. TypeOK'
  BY <1>1 DEF IInv, TypeOK, StoreType, RequestType, ResetType, LogType
<1>3. Callers'
  BY <1>1 DEF IInv, Callers, TypeOK, RequestType
<1>4. LogOrigin'
  BY LogOriginFrame DEF IInv, TypeOK, RequestType
<1>5. Freshness'
  <2> SUFFICES ASSUME NEW s \in Requests, (pc[s] = "cas" /\ req[s].base = 0)'
               PROVE  (/\ group # req[s].group
                       /\ \A t \in Requests \ {s} : pc[t] # "idle" => req[t].group # req[s].group)'
    BY DEF Freshness
  <2>1. s # r /\ pc[s] = "cas" /\ req[s].base = 0 /\ req'[s] = req[s]
    BY <1>1 DEF IInv, TypeOK, RequestType
  <2>2. m.commit # s /\ pc[m.commit] # "idle" /\ req[m.commit].group = m.group
    BY <2>1 DEF IInv, LogOrigin
  <2>3. m.group # req[s].group
    BY <1>1, <2>1, <2>2 DEF IInv, Freshness
  <2> QED BY <2>1, <2>3 DEF IInv, Freshness, TypeOK, RequestType
<1>6. ClaimsUnique' /\ ClaimsBelow'
  BY ClaimsFrame DEF IInv, Claimed, TypeOK, RequestType
<1> QED BY <1>2, <1>3, <1>4, <1>5, <1>6 DEF IInv

LEMMA FollowIInv ==
    ASSUME IInv, NEW r \in Requests, NEW w \in BOOLEAN, Follow(r, w)
    PROVE  IInv'
<1> USE StoreAssumption DEF Follow, storeVars, resetVars
<1>1. group \in minted /\ group \in Groups /\ epoch \in Nat \ {0}
  BY DEF IInv, TypeOK, StoreType, Callers
<1>2. TypeOK'
  BY <1>1 DEF IInv, TypeOK, StoreType, RequestType, ResetType, LogType
<1>3. Callers'
  BY <1>1 DEF IInv, Callers, TypeOK, RequestType
<1>4. LogOrigin'
  BY LogOriginFrame DEF IInv, TypeOK, RequestType
<1>5. Freshness'
  BY <1>1 DEF IInv, Freshness, TypeOK, RequestType
<1>6. ClaimsUnique' /\ ClaimsBelow'
  BY ClaimsFrame DEF IInv, Claimed, TypeOK, RequestType
<1> QED BY <1>2, <1>3, <1>4, <1>5, <1>6 DEF IInv

\* Reading the head, or failing to, touches one request's own record only.
LEMMA ReadIInv ==
    ASSUME IInv, NEW r \in Requests, ReadHead(r) \/ ReadHeadFails(r)
    PROVE  IInv'
<1> USE DEF ReadHead, ReadHeadFails, storeVars, resetVars
<1>1. RequestType'
  BY DEF IInv, TypeOK, RequestType, StoreType
<1>2. StoreType' /\ ResetType' /\ LogType'
  BY DEF IInv, TypeOK, StoreType, ResetType, LogType
<1>3. Callers'
  BY DEF IInv, Callers, TypeOK, RequestType
<1>4. LogOrigin'
  BY LogOriginFrame DEF IInv, TypeOK, RequestType
<1>5. Freshness'
  BY DEF IInv, Freshness, Callers, TypeOK, RequestType
<1>6. ClaimsUnique' /\ ClaimsBelow'
  <2>1. Claimed' = Claimed
    BY DEF IInv, Claimed, TypeOK, RequestType
  <2> QED BY <2>1, ClaimsFrame
<1> QED BY <1>1, <1>2, <1>3, <1>4, <1>5, <1>6 DEF IInv, TypeOK

\* The compare-and-set claims an epoch nobody has claimed: a group being
\* established is fresh, and an advance claims the epoch above every other claim.
LEMMA CompareAndSetIInv ==
    ASSUME IInv, NEW r \in Requests, CompareAndSet(r)
    PROVE  IInv'
<1> USE StoreAssumption DEF CompareAndSet, resetVars
<1>1. req[r].group \in minted /\ req[r].group \in Groups /\ req[r].base \in Nat
  BY CallerType
<1>2. TypeOK'
  <2>1. StoreType'
    BY <1>1, NewHashType DEF IInv, TypeOK, StoreType
  <2> QED BY <2>1 DEF IInv, TypeOK, RequestType, ResetType, LogType
<1>3. Callers'
  BY <1>1 DEF IInv, Callers, TypeOK, RequestType
<1>4. LogOrigin'
  BY LogOriginFrame DEF IInv, TypeOK, RequestType
<1>5. Freshness'
  BY <1>1 DEF IInv, Freshness, Callers, TypeOK, RequestType
<1>6. \A s \in Claimed : req[s].base \in Nat
                         /\ (req[s].group = req[r].group => req[s].base < req[r].base)
  <2>1. CASE req[r].base = 0
    BY <2>1, CallerType DEF IInv, Freshness, Claimed
  <2>2. CASE req[r].base # 0
    BY <2>2, <1>1, CallerType DEF IInv, Filter, ClaimsBelow, Claimed
  <2> QED BY <2>1, <2>2
<1>7. Claimed' = Claimed \cup {r} /\ req' = req
  BY DEF IInv, Claimed, TypeOK, RequestType
<1>8. ClaimsUnique'
  BY <1>1, <1>6, <1>7 DEF IInv, ClaimsUnique
<1>9. ClaimsBelow'
  BY <1>1, <1>6, <1>7 DEF ClaimsBelow
<1> QED BY <1>2, <1>3, <1>4, <1>5, <1>8, <1>9 DEF IInv

\* A compare-and-set whose answer was lost moves the epoch and claims nothing.
LEMMA UnansweredIInv ==
    ASSUME IInv, NEW r \in Requests, CompareAndSetUnanswered(r)
    PROVE  IInv'
<1> USE StoreAssumption DEF CompareAndSetUnanswered, resetVars
<1>1. req[r].group \in minted /\ req[r].group \in Groups /\ req[r].base \in Nat
  BY CallerType
<1>2. TypeOK'
  <2>1. StoreType'
    BY <1>1, NewHashType DEF IInv, TypeOK, StoreType
  <2> QED BY <2>1 DEF IInv, TypeOK, RequestType, ResetType, LogType
<1>3. Callers'
  BY <1>1 DEF IInv, Callers, TypeOK, RequestType
<1>4. LogOrigin'
  BY LogOriginFrame DEF IInv, TypeOK, RequestType
<1>5. Freshness'
  BY <1>1 DEF IInv, Freshness, Callers, TypeOK, RequestType
<1>6. \A s \in Claimed : req[s].base \in Nat
                         /\ (req[s].group = req[r].group => req[s].base < req[r].base)
  <2>1. CASE req[r].base = 0
    BY <2>1, CallerType DEF IInv, Freshness, Claimed
  <2>2. CASE req[r].base # 0
    BY <2>2, <1>1, CallerType DEF IInv, Filter, ClaimsBelow, Claimed
  <2> QED BY <2>1, <2>2
<1>7. Claimed' = Claimed /\ req' = req
  BY DEF IInv, Claimed, TypeOK, RequestType
<1>8. ClaimsUnique'
  BY <1>7 DEF IInv, ClaimsUnique
<1>9. ClaimsBelow'
  BY <1>1, <1>6, <1>7 DEF ClaimsBelow
<1> QED BY <1>2, <1>3, <1>4, <1>5, <1>8, <1>9 DEF IInv

\* A refused or abandoned request gives up at most its own claim.
LEMMA ConflictIInv ==
    ASSUME IInv, NEW r \in Requests, Conflict(r) \/ Cancel(r)
    PROVE  IInv'
<1> USE DEF Conflict, Cancel, storeVars, resetVars
<1>1. TypeOK'
  BY DEF IInv, TypeOK, StoreType, RequestType, ResetType, LogType
<1>2. Callers'
  BY DEF IInv, Callers, TypeOK, RequestType
<1>3. LogOrigin'
  BY LogOriginFrame DEF IInv, TypeOK, RequestType
<1>4. Freshness'
  BY DEF IInv, Freshness, TypeOK, RequestType
<1>5. ClaimsUnique' /\ ClaimsBelow'
  <2>1. Claimed' \subseteq Claimed
    BY DEF IInv, Claimed, TypeOK, RequestType
  <2> QED BY <2>1, ClaimsFrame
<1> QED BY <1>1, <1>2, <1>3, <1>4, <1>5 DEF IInv

\* An insert moves a claim into the log; it does not make one.
LEMMA InsertIInv ==
    ASSUME IInv, NEW r \in Requests, InsertWelcome(r) \/ InsertCommit(r) \/ InsertFails(r) \/ InsertUnanswered(r)
    PROVE  IInv'
<1> USE DEF InsertWelcome, InsertCommit, InsertFails, InsertUnanswered, storeVars, resetVars
<1>1. req[r].group \in minted /\ req[r].group \in Groups /\ req[r].base \in Nat
  BY CallerType
<1>2. StoreType' /\ RequestType' /\ ResetType'
  BY DEF IInv, TypeOK, StoreType, RequestType, ResetType
<1>3. LogType'
  BY <1>1 DEF IInv, TypeOK, LogType, L!WelcomeMsg, L!CommitMsg
<1>4. Callers'
  BY DEF IInv, Callers, TypeOK, RequestType
<1>5. LogOrigin'
  BY DEF IInv, LogOrigin, TypeOK, RequestType, LogType, NewHash, L!WelcomeMsg, L!CommitMsg, L!Link
<1>6. Freshness'
  BY DEF IInv, Freshness, TypeOK, RequestType
<1>7. ClaimsUnique' /\ ClaimsBelow'
  <2>1. Claimed' = Claimed
    BY DEF IInv, Claimed, TypeOK, RequestType
  <2> QED BY <2>1, ClaimsFrame
<1> QED BY <1>2, <1>3, <1>4, <1>5, <1>6, <1>7 DEF IInv, TypeOK

\* A rollback gives up the highest claim of the group, so every other claim, and
\* with it every Commit anyone can read, is still below the epoch it restores.
LEMMA RollbackIInv ==
    ASSUME IInv, NEW r \in Requests, Rollback(r)
    PROVE  IInv'
<1> USE StoreAssumption DEF Rollback, resetVars
<1>1. req[r].group \in minted /\ req[r].group \in Groups /\ req[r].base \in Nat
  BY CallerType
<1>2. TypeOK'
  <2>1. StoreType'
    BY <1>1 DEF IInv, TypeOK, StoreType, RequestType
  <2> QED BY <2>1 DEF IInv, TypeOK, RequestType, ResetType, LogType
<1>3. Callers'
  BY <1>1 DEF IInv, Callers, TypeOK, RequestType
<1>4. LogOrigin'
  BY LogOriginFrame DEF IInv, TypeOK, RequestType
<1>5. Freshness'
  BY <1>1 DEF IInv, Freshness, Callers, TypeOK, RequestType
<1>6. Claimed' = Claimed \ {r} /\ req' = req
  BY DEF IInv, Claimed, TypeOK, RequestType
<1>7. ClaimsUnique'
  BY <1>6 DEF IInv, ClaimsUnique
<1>8. ClaimsBelow'
  <2> SUFFICES ASSUME NEW s \in Claimed', req[s].group = group'
               PROVE  req[s].base + 1 <= epoch'
    BY <1>6 DEF ClaimsBelow
  <2>1. s \in Claimed /\ s # r /\ r \in Claimed /\ req[s].group \in Groups /\ req[s].base \in Nat
    BY <1>6, CallerType DEF Claimed
  <2>2. CASE group = req[r].group /\ epoch = req[r].base + 1
    <3>1. req[s].group = req[r].group
      BY <2>1, <2>2
    <3>2. req[s].base # req[r].base /\ req[s].base + 1 <= req[r].base + 1
      BY <2>1, <2>2, <3>1 DEF IInv, ClaimsUnique, ClaimsBelow
    <3> QED BY <1>1, <2>1, <2>2, <3>2
  <2>3. CASE ~(group = req[r].group /\ epoch = req[r].base + 1)
    BY <2>1, <2>3 DEF IInv, ClaimsBelow
  <2> QED BY <2>2, <2>3
<1> QED BY <1>2, <1>3, <1>4, <1>5, <1>7, <1>8 DEF IInv

\* A reset leaves every request alone; the group it retires has no claims to bound.
LEMMA ResetIInv ==
    ASSUME IInv, NEW q \in Resets, ResetStep(q)
    PROVE  IInv'
<1> USE StoreAssumption DEF ResetStep, Notice, ReadGroup, Retire, storeVars, reqVars
<1>1. RequestType' /\ LogType' /\ UNCHANGED reqVars /\ UNCHANGED log
  BY DEF IInv, TypeOK, RequestType, LogType
<1>2. StoreType'
  BY DEF IInv, TypeOK, StoreType
<1>3. ResetType'
  BY DEF IInv, TypeOK, ResetType, StoreType
<1>4. Callers'
  BY DEF IInv, Callers
<1>5. LogOrigin'
  BY LogOriginFrame DEF IInv, TypeOK, RequestType
<1>6. Freshness'
  BY CallerType DEF IInv, Freshness
<1>7. ClaimsUnique' /\ ClaimsBelow'
  BY CallerType DEF IInv, ClaimsUnique, ClaimsBelow, Claimed
<1> QED BY <1>1, <1>2, <1>3, <1>4, <1>5, <1>6, <1>7 DEF IInv, TypeOK

\* Every step keeps the invariant, whatever Failures allows.
LEMMA NextIInv == IInv /\ [Next]_vars => IInv'
<1> SUFFICES ASSUME IInv, [Next]_vars
             PROVE  IInv'
  OBVIOUS
<1>1. ASSUME NEW r \in Requests, Request(r)
      PROVE  IInv'
  BY <1>1, EstablishIInv, AdvanceIInv, FollowIInv, ReadIInv, CompareAndSetIInv, UnansweredIInv,
     ConflictIInv, InsertIInv, RollbackIInv DEF Request
<1>2. ASSUME NEW q \in Resets, ResetStep(q)
      PROVE  IInv'
  BY <1>2, ResetIInv
<1>3. CASE UNCHANGED vars
  BY <1>3 DEF vars, IInv, TypeOK, StoreType, RequestType, ResetType, LogType, Callers, LogOrigin,
     Freshness, ClaimsUnique, ClaimsBelow, Claimed, NewHash, L!CommitMsg, L!Link
<1> QED BY <1>1, <1>2, <1>3 DEF Next

THEOREM Invariance == Spec => []IInv
<1>1. Init => IInv
  BY InitIInv
<1>2. IInv /\ [Next]_vars => IInv'
  BY NextIInv
<1> QED BY <1>1, <1>2, PTL DEF Spec

\* Type correctness of the MongoDB store's calls, whatever fails.
THEOREM TypeCorrect == Spec => []TypeOK
<1>1. IInv => TypeOK
  BY DEF IInv
<1> QED BY <1>1, Invariance, PTL

\* One history per group, for any number of concurrent CommitMLSGroup calls and
\* whatever of them fails: no two senders are told that they made the same epoch.
THEOREM OneHistory == Spec => []OneCommitPerEpoch
<1>1. IInv => OneCommitPerEpoch
  <2> SUFFICES ASSUME IInv, NEW m \in Confirmed, NEW n \in Confirmed,
                      m.group = n.group, m.epoch = n.epoch
               PROVE  m = n
    BY DEF OneCommitPerEpoch
  <2>1. m \in log /\ n \in log /\ m.commit \in Claimed /\ n.commit \in Claimed
    BY DEF IInv, Confirmed, Claimed, TypeOK, LogType
  <2>2. req[m.commit].group = req[n.commit].group /\ req[m.commit].base = req[n.commit].base
    <3>1. /\ m.group = req[m.commit].group /\ m.epoch = req[m.commit].base + 1
          /\ n.group = req[n.commit].group /\ n.epoch = req[n.commit].base + 1
      BY <2>1 DEF IInv, LogOrigin
    <3>2. req[m.commit].base \in Nat /\ req[n.commit].base \in Nat
      BY <2>1, CallerType DEF Claimed
    <3>3. /\ req[m.commit].group = req[n.commit].group
          /\ req[m.commit].base + 1 = req[n.commit].base + 1
      BY <3>1, Zenon
    <3> QED BY <3>2, <3>3
  <2>3. m.commit = n.commit
    BY <2>1, <2>2 DEF IInv, ClaimsUnique
  <2> QED BY <2>1, <2>3 DEF IInv, LogOrigin, Confirmed
<1> QED BY <1>1, Invariance, PTL

\* rollbackMLSGroup never undoes a Commit whose sender was told that it is in.
THEOREM NothingUndone == Spec => []AcceptedNeverUndone
<1>1. IInv => AcceptedNeverUndone
  BY DEF IInv, AcceptedNeverUndone, Confirmed, LogOrigin, ClaimsBelow, Claimed, TypeOK, LogType
<1> QED BY <1>1, Invariance, PTL

-----------------------------------------------------------------------------
(***************************************************************************)
(* While nothing fails, on a hub.  A request's view of the head is still the head    *)
(* when its compare-and-set matches: the epoch it names was reached before *)
(* it read the head, and without rollbacks an epoch that was left is not   *)
(* reached again.                                                          *)
(***************************************************************************)
NobodyFailed == \A r \in Requests : pc[r] \notin {"rollback", "failed"}

Heads ==
    \A r \in Requests :
        /\ pc[r] = "idle" \/ req[r].base = 0 => prev[r] = << >>
        /\ pc[r] \in {"head", "cas"} /\ req[r].base # 0 /\ group = req[r].group
              => req[r].base <= epoch
        /\ pc[r] = "cas" /\ req[r].base # 0 /\ group = req[r].group /\ epoch = req[r].base
              => prev[r] = chain

Parents ==
    \A r \in Requests : pc[r] # "idle" /\ req[r].base # 0 =>
        /\ Logged(req[r].group, req[r].base) # {}
        /\ r \in Claimed => \E n \in Logged(req[r].group, req[r].base) : prev[r] = n.hash

ChainHead ==
    group # NoGroup =>
        \E r \in Claimed : req[r].group = group /\ req[r].base + 1 = epoch /\ chain = NewHash(r)

Welcomes ==
    \A r \in Requests :
        /\ pc[r] = "welcome" => req[r].welcome
        /\ pc[r] = "commit" /\ req[r].welcome
              => L!WelcomeMsg(r, req[r].group, req[r].base + 1) \in log

FInv == IInv /\ NobodyFailed /\ Heads /\ Parents /\ ChainHead /\ Welcomes

\* When the compare-and-set matches, the head the request read is the head, and
\* it is the stamp of the Commit the request builds on.
LEMMA HeadIsCurrent ==
    ASSUME FInv, NEW r \in Requests, pc[r] = "cas", Filter(r)
    PROVE  /\ req[r].base = 0 => prev[r] = << >>
           /\ req[r].base # 0 =>
                 prev[r] = chain /\ \E n \in Logged(req[r].group, req[r].base) : prev[r] = n.hash
<1>1. req[r].base = 0 => prev[r] = << >>
  BY DEF FInv, Heads
<1>2. ASSUME req[r].base # 0
      PROVE  prev[r] = chain /\ \E n \in Logged(req[r].group, req[r].base) : prev[r] = n.hash
  <2>1. group = req[r].group /\ epoch = req[r].base /\ prev[r] = chain
    BY <1>2 DEF FInv, Heads, Filter
  <2>2. PICK n \in Logged(req[r].group, req[r].base) : TRUE
    BY <1>2 DEF FInv, Parents
  <2>3. /\ n \in log /\ n.kind = "commit" /\ n.group = group /\ n.epoch = epoch
        /\ n.commit \in Requests /\ pc[n.commit] = "accepted"
        /\ req[n.commit].group = group /\ req[n.commit].base + 1 = epoch
        /\ n.hash = NewHash(n.commit)
    BY <2>1, <2>2 DEF Logged, FInv, NobodyFailed, IInv, LogOrigin, TypeOK, LogType, L!CommitMsg
  <2>4. group # NoGroup
    BY <2>1, StoreAssumption, CallerType DEF FInv
  <2>5. PICK s \in Claimed : req[s].group = group /\ req[s].base + 1 = epoch /\ chain = NewHash(s)
    BY <2>4 DEF FInv, ChainHead
  <2>6. n.commit \in Claimed /\ req[s].base = req[n.commit].base
    BY <2>3, <2>5, CallerType DEF Claimed, FInv
  <2>7. s = n.commit
    BY <2>3, <2>5, <2>6 DEF FInv, IInv, ClaimsUnique
  <2> QED BY <2>1, <2>2, <2>3, <2>5, <2>7
<1> QED BY <1>1, <1>2

LEMMA InitFInv == Init => FInv
BY InitIInv DEF Init, L!LogInit, FInv, Unsent, NobodyFailed, Heads, Parents, ChainHead, Welcomes, Claimed

\* A step that leaves the conversation alone keeps its head and its Welcomes.
LEMMA QuietFrame ==
    ASSUME FInv, NEW r \in Requests, UNCHANGED storeVars,
           pc[r] \in {"idle", "head", "cas"}, pc'[r] \in {"head", "cas", "conflict"},
           \A s \in Requests \ {r} : pc'[s] = pc[s] /\ req'[s] = req[s] /\ prev'[s] = prev[s]
    PROVE  NobodyFailed' /\ ChainHead' /\ Welcomes' /\ Claimed' = Claimed
<1>1. Claimed' = Claimed /\ r \notin Claimed
  BY DEF Claimed
<1>2. NobodyFailed'
  BY DEF FInv, NobodyFailed
<1>3. ChainHead'
  BY <1>1 DEF FInv, ChainHead, NewHash, L!Link, storeVars, Claimed
<1>4. Welcomes'
  BY DEF FInv, Welcomes, L!WelcomeMsg, storeVars
<1> QED BY <1>1, <1>2, <1>3, <1>4

LEMMA EstablishFInv ==
    ASSUME FInv, IInv', NEW r \in Requests, NEW g \in Groups, NEW w \in BOOLEAN, Establish(r, g, w)
    PROVE  FInv'
<1> USE DEF Establish
<1>1. /\ UNCHANGED storeVars /\ pc[r] = "idle" /\ pc'[r] = "cas" /\ req'[r].base = 0
      /\ \A s \in Requests \ {r} : pc'[s] = pc[s] /\ req'[s] = req[s]
      /\ prev' = prev
  BY DEF FInv, IInv, TypeOK, RequestType
<1>2. NobodyFailed' /\ ChainHead' /\ Welcomes' /\ Claimed' = Claimed
  BY <1>1, QuietFrame
<1>3. Heads'
  BY <1>1 DEF FInv, Heads, storeVars
<1>4. Parents'
  BY <1>1, <1>2 DEF FInv, Parents, Logged, storeVars
<1> QED BY <1>2, <1>3, <1>4 DEF FInv

LEMMA AdvanceFInv ==
    ASSUME FInv, IInv', NEW r \in Requests, NEW m \in log, NEW w \in BOOLEAN, Advance(r, m, w)
    PROVE  FInv'
<1> USE DEF Advance
<1>1. /\ UNCHANGED storeVars /\ pc[r] = "idle" /\ pc'[r] = "head"
      /\ req'[r].group = m.group /\ req'[r].base = m.epoch
      /\ \A s \in Requests \ {r} : pc'[s] = pc[s] /\ req'[s] = req[s]
      /\ prev' = prev
  BY DEF FInv, IInv, TypeOK, RequestType
<1>2. NobodyFailed' /\ ChainHead' /\ Welcomes' /\ Claimed' = Claimed
  BY <1>1, QuietFrame
<1>3. m.epoch \in Nat \ {0} /\ (m.group = group => m.epoch <= epoch)
  BY DEF FInv, NobodyFailed, IInv, TypeOK, LogType, LogOrigin, ClaimsBelow, Claimed
<1>4. Heads'
  BY <1>1, <1>3 DEF FInv, Heads, storeVars
<1>5. m \in Logged(m.group, m.epoch) /\ r \notin Claimed
  BY <1>1 DEF Logged, Claimed
<1>6. Parents'
  BY <1>1, <1>2, <1>5 DEF FInv, Parents, Logged, storeVars
<1> QED BY <1>2, <1>4, <1>6 DEF FInv

LEMMA ReadHeadFInv ==
    ASSUME FInv, IInv', NEW r \in Requests, ReadHead(r) \/ Conflict(r)
    PROVE  FInv'
<1> USE DEF ReadHead, Conflict
<1>1. /\ UNCHANGED storeVars /\ pc[r] \in {"head", "cas"} /\ pc'[r] \in {"cas", "conflict"}
      /\ req' = req
      /\ pc'[r] = "cas" => pc[r] = "head" /\ prev'[r] = chain
      /\ pc'[r] = "conflict" => prev'[r] = prev[r]
      /\ \A s \in Requests \ {r} : pc'[s] = pc[s] /\ prev'[s] = prev[s]
  BY DEF FInv, IInv, TypeOK, RequestType
<1>2. NobodyFailed' /\ ChainHead' /\ Welcomes' /\ Claimed' = Claimed /\ r \notin Claimed
  BY <1>1, QuietFrame DEF Claimed
<1>3. Heads'
  BY <1>1 DEF FInv, Heads, storeVars, IInv, Callers
<1>4. Parents'
  BY <1>1, <1>2 DEF FInv, Parents, Logged, storeVars
<1> QED BY <1>2, <1>3, <1>4 DEF FInv

\* The compare-and-set makes the request's own link the head.
LEMMA CompareAndSetFInv ==
    ASSUME FInv, IInv', NEW r \in Requests, CompareAndSet(r)
    PROVE  FInv'
<1> USE DEF CompareAndSet
<1>1. /\ pc[r] = "cas" /\ Filter(r) /\ log' = log /\ req' = req /\ prev' = prev
      /\ group' = req[r].group /\ epoch' = req[r].base + 1 /\ chain' = NewHash(r)
      /\ pc'[r] = IF req[r].welcome THEN "welcome" ELSE "commit"
      /\ \A s \in Requests \ {r} : pc'[s] = pc[s]
      /\ req[r].group \in Groups /\ req[r].base \in Nat /\ req[r].welcome \in BOOLEAN
  BY CallerType DEF FInv, IInv, TypeOK, RequestType
<1>2. Claimed' = Claimed \cup {r}
  BY <1>1 DEF Claimed
<1>3. NobodyFailed' /\ Welcomes'
  BY <1>1 DEF FInv, NobodyFailed, Welcomes, L!WelcomeMsg
<1>4. ChainHead'
  BY <1>1, <1>2 DEF ChainHead, NewHash, L!Link
<1>5. Parents'
  BY <1>1, <1>2, HeadIsCurrent DEF FInv, Parents, Logged
<1>6. ASSUME NEW s \in Requests \ {r}, pc[s] \in {"head", "cas"}, req[s].base # 0,
             req[s].group = req[r].group
      PROVE  req[s].base \in Nat /\ req[s].base < req[r].base + 1
  <2>1. req[r].base # 0
    BY <1>1, <1>6 DEF FInv, IInv, Freshness
  <2> QED BY <2>1, <1>1, <1>6, CallerType DEF FInv, Heads, Filter
<1>7. Heads'
  <2> SUFFICES ASSUME NEW s \in Requests
               PROVE  Heads!(s)'
    BY DEF Heads
  <2>1. CASE s = r
    BY <2>1, <1>1 DEF FInv, Heads
  <2>2. CASE s # r
    BY <2>2, <1>1, <1>6 DEF FInv, Heads
  <2> QED BY <2>1, <2>2
<1> QED BY <1>3, <1>4, <1>5, <1>7 DEF FInv

LEMMA InsertFInv ==
    ASSUME FInv, IInv', NEW r \in Requests, InsertWelcome(r) \/ InsertCommit(r)
    PROVE  FInv'
<1> USE DEF InsertWelcome, InsertCommit
<1>1. /\ group' = group /\ epoch' = epoch /\ chain' = chain /\ req' = req /\ prev' = prev
      /\ pc[r] \in {"welcome", "commit"} /\ log \subseteq log'
      /\ pc'[r] = IF pc[r] = "welcome" THEN "commit" ELSE "accepted"
      /\ pc[r] = "welcome" => L!WelcomeMsg(r, req[r].group, req[r].base + 1) \in log'
      /\ \A s \in Requests \ {r} : pc'[s] = pc[s]
  BY DEF FInv, IInv, TypeOK, RequestType
<1>2. Claimed' = Claimed
  BY <1>1 DEF Claimed
<1>3. NobodyFailed' /\ Welcomes' /\ Heads'
  BY <1>1 DEF FInv, NobodyFailed, Welcomes, Heads, L!WelcomeMsg
<1>4. ChainHead'
  BY <1>1, <1>2 DEF FInv, ChainHead, NewHash, L!Link
<1>5. \A g, e : Logged(g, e) \subseteq Logged(g, e)'
  BY <1>1 DEF Logged
<1>6. Parents'
  BY <1>1, <1>2, <1>5 DEF FInv, Parents
<1> QED BY <1>3, <1>4, <1>6 DEF FInv

LEMMA ResetFInv ==
    ASSUME FInv, IInv', NEW q \in Resets, ResetStep(q)
    PROVE  FInv'
<1> USE DEF ResetStep, Notice, ReadGroup, Retire
<1>1. /\ UNCHANGED <<chain, log, reqVars>>
      /\ group' = NoGroup \/ UNCHANGED <<group, epoch>>
  BY DEF storeVars
<1>2. Claimed' = Claimed /\ NobodyFailed' /\ Welcomes' /\ ChainHead' /\ Parents'
  BY <1>1 DEF FInv, reqVars, Claimed, NobodyFailed, Welcomes, ChainHead, Parents, Logged,
     NewHash, L!Link, L!WelcomeMsg
<1>3. Heads'
  BY <1>1, StoreAssumption, CallerType DEF FInv, Heads, reqVars
<1> QED BY <1>2, <1>3 DEF FInv

LEMMA NextFInv == Failures = {} /\ ~IsMirror /\ FInv /\ IInv' /\ [Next]_vars => FInv'
<1> SUFFICES ASSUME Failures = {}, ~IsMirror, FInv, IInv', [Next]_vars
             PROVE  FInv'
  OBVIOUS
<1>1. ASSUME NEW r \in Requests, Request(r)
      PROVE  FInv'
  <2>1. /\ ~InsertFails(r) /\ ~InsertUnanswered(r) /\ ~CompareAndSetUnanswered(r)
        /\ ~Cancel(r) /\ ~ReadHeadFails(r) /\ ~Rollback(r) /\ \A w \in BOOLEAN : ~Follow(r, w)
    BY DEF InsertFails, InsertUnanswered, CompareAndSetUnanswered, Cancel, ReadHeadFails, Rollback, Follow, FInv, NobodyFailed
  <2> QED BY <1>1, <2>1, EstablishFInv, AdvanceFInv, ReadHeadFInv, CompareAndSetFInv, InsertFInv
          DEF Request
<1>2. ASSUME NEW q \in Resets, ResetStep(q)
      PROVE  FInv'
  BY <1>2, ResetFInv
<1>3. CASE UNCHANGED vars
  BY <1>3 DEF vars, FInv, NobodyFailed, Heads, Parents, ChainHead, Welcomes, Claimed, Logged,
     NewHash, L!Link, L!WelcomeMsg
<1> QED BY <1>1, <1>2, <1>3 DEF Next

THEOREM FaultFreeInvariance == Failures = {} /\ ~IsMirror => (Spec => []FInv)
<1> SUFFICES ASSUME Failures = {}, ~IsMirror
             PROVE  Spec => []FInv
  OBVIOUS
<1>1. Init => FInv
  BY InitFInv
<1>2. FInv /\ IInv' /\ [Next]_vars => FInv'
  BY NextFInv
<1> QED BY <1>1, <1>2, Invariance, PTL DEF Spec

\* While no database call fails, the ordering chain is the log's own: a request
\* links to the stamp of the Commit before it however requests interleave.
THEOREM ChainIsTheLogs == Failures = {} /\ ~IsMirror => (Spec => []ChainLinks)
<1> SUFFICES ASSUME Failures = {}, ~IsMirror
             PROVE  Spec => []ChainLinks
  OBVIOUS
<1>1. FInv => ChainLinks
  <2> SUFFICES ASSUME FInv, NEW m \in log, m.kind = "commit"
               PROVE  ChainLinks!(m)!2
    BY DEF ChainLinks
  <2>1. /\ m.commit \in Requests /\ m.commit \in Claimed /\ m.hash = NewHash(m.commit)
        /\ m.group = req[m.commit].group /\ m.epoch = req[m.commit].base + 1
        /\ req[m.commit].base \in Nat
    BY DEF FInv, NobodyFailed, IInv, TypeOK, LogType, RequestType, LogOrigin, Claimed, L!CommitMsg
  <2>2. CASE req[m.commit].base = 0
    BY <2>1, <2>2 DEF FInv, Heads, NewHash
  <2>3. CASE req[m.commit].base # 0
    BY <2>1, <2>3 DEF FInv, Parents, NewHash, Claimed
  <2> QED BY <2>2, <2>3
<1> QED BY <1>1, FaultFreeInvariance, PTL

-----------------------------------------------------------------------------
(***************************************************************************)
(* The refinement.  A CommitMLSGroup call takes effect at its              *)
(* compare-and-set; its other database calls are stutters.                 *)
(***************************************************************************)
BatchOf(r) == L!Batch(r, req[r].group, req[r].base + 1, req[r].welcome, NewHash(r))

LEMMA PromisedDef ==
    /\ \A m : m \in Promised <=> m \in log \/ \E r \in InFlight : m \in BatchOf(r)
    /\ \A m : m \in Promised' <=> m \in log' \/ \E r \in InFlight' : m \in BatchOf(r)'
BY DEF Promised, BatchOf

\* A step that leaves the log and the requests in flight alone leaves what the
\* callers were promised alone.
LEMMA PromisedFrame ==
    ASSUME UNCHANGED log, InFlight' = InFlight,
           \A s \in InFlight : req'[s] = req[s] /\ prev'[s] = prev[s]
    PROVE  Promised' = Promised
<1>1. \A s \in InFlight : BatchOf(s)' = BatchOf(s)
  BY DEF BatchOf, NewHash, L!Batch, L!CommitMsg, L!WelcomeMsg, L!Link
<1> QED BY <1>1, PromisedDef

LEMMA CompareAndSetCommits ==
    ASSUME FInv, NEW r \in Requests, CompareAndSet(r)
    PROVE  Abs!Commit(r, req[r].group, req[r].base, req[r].welcome)
<1> USE DEF CompareAndSet
<1>1. /\ pc[r] = "cas" /\ Filter(r) /\ log' = log /\ req' = req /\ prev' = prev /\ prior' = prior
      /\ group' = req[r].group /\ epoch' = req[r].base + 1 /\ chain' = NewHash(r)
      /\ pc'[r] \in {"welcome", "commit"}
      /\ \A s \in Requests \ {r} : pc'[s] = pc[s]
      /\ req[r].group \in Groups /\ req[r].base \in Nat
  BY CallerType DEF FInv, IInv, TypeOK, RequestType
<1>2. InFlight' = InFlight \cup {r} /\ r \notin InFlight
  BY <1>1 DEF InFlight
<1>3. \A s \in Requests : BatchOf(s)' = BatchOf(s)
  BY <1>1 DEF BatchOf, NewHash, L!Batch, L!CommitMsg, L!WelcomeMsg, L!Link
<1>4. Promised' = Promised \cup BatchOf(r)
  BY <1>1, <1>2, <1>3, PromisedDef DEF InFlight
<1>5. \A m \in Promised : m.commit # r
  <2>1. \A m \in log : m.commit # r
    BY <1>1 DEF FInv, IInv, LogOrigin
  <2>2. \A s \in InFlight : \A m \in BatchOf(s) : m.commit = s
    BY DEF BatchOf, L!Batch, L!CommitMsg, L!WelcomeMsg
  <2> QED BY <1>2, <2>1, <2>2, PromisedDef
<1>6. Abs!Matches(req[r].group, req[r].base)
  BY <1>1 DEF Abs!Matches, Filter
<1>7. NewHash(r) = Abs!Link(IF group = NoGroup THEN << >> ELSE chain,
                            req[r].base + 1, req[r].group, r)
  BY <1>1, HeadIsCurrent, StoreAssumption DEF NewHash, L!Link, Abs!Link, Filter
<1>8. group' # NoGroup
  BY <1>1, StoreAssumption
<1>9. BatchOf(r) = Abs!Batch(r, req[r].group, req[r].base + 1, req[r].welcome, NewHash(r))
  BY DEF BatchOf, L!Batch, L!CommitMsg, L!WelcomeMsg, Abs!Batch, Abs!CommitMsg, Abs!WelcomeMsg
<1> QED BY <1>1, <1>4, <1>5, <1>6, <1>7, <1>8, <1>9 DEF Abs!Commit

LEMMA InsertStutters ==
    ASSUME FInv, NEW r \in Requests, InsertWelcome(r) \/ InsertCommit(r)
    PROVE  UNCHANGED <<group, epoch, chain, prior, Promised>>
<1> USE DEF InsertWelcome, InsertCommit
<1>1. /\ UNCHANGED <<group, epoch, chain, prior, req, prev>>
      /\ \A s \in Requests \ {r} : pc'[s] = pc[s]
      /\ pc[r] \in {"welcome", "commit"}
      /\ \/ /\ pc[r] = "welcome" /\ pc'[r] = "commit"
            /\ log' = log \cup {L!WelcomeMsg(r, req[r].group, req[r].base + 1)}
         \/ /\ pc[r] = "commit" /\ pc'[r] = "accepted"
            /\ log' = log \cup {L!CommitMsg(r, req[r].group, req[r].base + 1, NewHash(r))}
  BY DEF FInv, IInv, TypeOK, RequestType
<1>2. \A s \in Requests : BatchOf(s)' = BatchOf(s)
  BY <1>1 DEF BatchOf, NewHash, L!Batch, L!CommitMsg, L!WelcomeMsg, L!Link
<1>3. CASE pc[r] = "welcome"
  <2>1. InFlight' = InFlight /\ r \in InFlight
    BY <1>1, <1>3 DEF InFlight
  <2>2. L!WelcomeMsg(r, req[r].group, req[r].base + 1) \in BatchOf(r)
    BY <1>3 DEF FInv, Welcomes, BatchOf, L!Batch
  <2>3. log' = log \cup {L!WelcomeMsg(r, req[r].group, req[r].base + 1)} /\ InFlight \subseteq Requests
    BY <1>1, <1>3 DEF InFlight
  <2>4. ASSUME NEW m \in Promised
        PROVE  m \in Promised'
    BY <1>2, <2>1, <2>2, <2>3, PromisedDef
  <2>5. ASSUME NEW m \in Promised'
        PROVE  m \in Promised
    BY <1>2, <2>1, <2>2, <2>3, PromisedDef
  <2>6. Promised' = Promised
    BY <2>4, <2>5
  <2> QED BY <1>1, <2>6
<1>4. CASE pc[r] = "commit"
  <2>1. InFlight = InFlight' \cup {r} /\ InFlight' \subseteq Requests
    BY <1>1, <1>4 DEF InFlight
  <2>2. BatchOf(r) \subseteq log' /\ log' \subseteq log \cup BatchOf(r)
    BY <1>1, <1>4 DEF FInv, Welcomes, BatchOf, L!Batch
  <2>3. log \subseteq log'
    BY <1>1
  <2>4. ASSUME NEW m \in Promised
        PROVE  m \in Promised'
    BY <1>2, <2>1, <2>2, <2>3, PromisedDef
  <2>5. ASSUME NEW m \in Promised'
        PROVE  m \in Promised
    BY <1>2, <2>1, <2>2, <2>3, PromisedDef
  <2>6. Promised' = Promised
    BY <2>4, <2>5
  <2> QED BY <1>1, <2>6
<1> QED BY <1>1, <1>3, <1>4

\* While no database call fails, CommitMLSGroup and ResetMLSGroup of the MongoDB
\* store are the atomic ones of the in-memory store.
THEOREM Refinement == Failures = {} /\ ~IsMirror => (Spec => ImplementsGroupLog)
<1> SUFFICES ASSUME Failures = {}, ~IsMirror
             PROVE  Spec => ImplementsGroupLog
  OBVIOUS
<1>1. Init => Abs!LogInit
  BY PromisedDef DEF Init, L!LogInit, Abs!LogInit, InFlight
<1>2. FInv /\ [Next]_vars => [Abs!LogNext]_(Abs!logVars)
  <2> SUFFICES ASSUME FInv, [Next]_vars
               PROVE  [Abs!LogNext]_(Abs!logVars)
    OBVIOUS
  <2> DEFINE Quiet == UNCHANGED <<group, epoch, chain, prior, Promised>>
  <2>0. Quiet => UNCHANGED Abs!logVars
    BY DEF Abs!logVars
  <2>1. ASSUME NEW r \in Requests, Request(r)
        PROVE  [Abs!LogNext]_(Abs!logVars)
    <3>1. /\ ~InsertFails(r) /\ ~InsertUnanswered(r) /\ ~CompareAndSetUnanswered(r)
          /\ ~Cancel(r) /\ ~ReadHeadFails(r) /\ ~Rollback(r) /\ \A w \in BOOLEAN : ~Follow(r, w)
      BY DEF InsertFails, InsertUnanswered, CompareAndSetUnanswered, Cancel, ReadHeadFails, Rollback, Follow, FInv, NobodyFailed
    <3>2. CASE CompareAndSet(r)
      <4>1. req[r].base \in {0, epoch} /\ req[r].group \in Groups /\ req[r].welcome \in BOOLEAN
        BY <3>2, CallerType DEF CompareAndSet, Filter, FInv, IInv, TypeOK, RequestType
      <4> QED BY <3>2, <4>1, CompareAndSetCommits DEF Abs!LogNext
    <3>3. CASE InsertWelcome(r) \/ InsertCommit(r)
      BY <3>3, <2>0, InsertStutters
    <3>4. CASE \/ \E g \in Groups, w \in BOOLEAN : Establish(r, g, w)
               \/ \E m \in log, w \in BOOLEAN : Advance(r, m, w)
               \/ ReadHead(r) \/ Conflict(r)
      <4>1. /\ UNCHANGED storeVars
            /\ pc[r] \in {"idle", "head", "cas"} /\ pc'[r] \in {"head", "cas", "conflict"}
            /\ \A s \in Requests \ {r} : pc'[s] = pc[s] /\ req'[s] = req[s] /\ prev'[s] = prev[s]
        BY <3>4 DEF Establish, Advance, ReadHead, Conflict, FInv, IInv, TypeOK, RequestType
      <4>2. InFlight' = InFlight /\ r \notin InFlight /\ InFlight \subseteq Requests
        BY <4>1 DEF InFlight
      <4> QED BY <4>1, <4>2, <2>0, PromisedFrame DEF storeVars
    <3> QED BY <2>1, <3>1, <3>2, <3>3, <3>4 DEF Request
  <2>2. ASSUME NEW q \in Resets, ResetStep(q)
        PROVE  [Abs!LogNext]_(Abs!logVars)
    <3>1. UNCHANGED <<log, reqVars>> /\ UNCHANGED chain
      BY <2>2 DEF ResetStep, Notice, ReadGroup, Retire, storeVars
    <3>2. Promised' = Promised
      BY <3>1, PromisedFrame DEF InFlight, reqVars
    <3>3. CASE UNCHANGED <<group, epoch, prior>>
      BY <3>1, <3>2, <3>3, <2>0
    <3>4. CASE ~UNCHANGED <<group, epoch, prior>>
      <4>1. /\ group = target[q] /\ group' = NoGroup /\ epoch' = 0
            /\ prior' = L!Remembering(prior, group)
        BY <2>2, <3>4 DEF ResetStep, Notice, ReadGroup, Retire, storeVars
      <4>2. group # NoGroup
        BY <2>2, <3>4, <4>1 DEF ResetStep, Notice, ReadGroup, Retire, storeVars, FInv, IInv, TypeOK,
           ResetType
      <4> QED BY <3>2, <4>1, <4>2 DEF Abs!LogNext, Abs!Reset, L!Remembering, Abs!Remembering
    <3> QED BY <3>3, <3>4
  <2>3. CASE UNCHANGED vars
    <3>1. InFlight' = InFlight /\ Promised' = Promised
      BY <2>3, PromisedFrame DEF vars, InFlight
    <3> QED BY <2>3, <3>1, <2>0 DEF vars
  <2> QED BY <2>1, <2>2, <2>3 DEF Next
<1> QED BY <1>1, <1>2, FaultFreeInvariance, PTL DEF Spec, ImplementsGroupLog, Abs!LogSpec

-----------------------------------------------------------------------------
(***************************************************************************)
(* Welcomes, as long as a request that got its epoch also inserts its      *)
(* messages: reads may fail, inserts and contexts do not.                  *)
(***************************************************************************)
WelcomesBacked ==
    /\ NobodyFailed
    /\ \A m \in log : m.kind = "welcome" =>
          \/ pc[m.commit] = "commit"
          \/ pc[m.commit] = "accepted" /\ \E n \in log : n.kind = "commit" /\ n.commit = m.commit

LEMMA WelcomesNext ==
    ASSUME IInv, WelcomesBacked, Failures \subseteq {"read"}, [Next]_vars
    PROVE  WelcomesBacked'
<1>1. \A m \in log : m.commit \in Requests
  BY DEF IInv, TypeOK, LogType
<1>2. pc \in [Requests -> {"idle", "head", "cas", "welcome", "commit", "rollback",
                           "accepted", "conflict", "failed"}]
  BY DEF IInv, TypeOK, RequestType
<1>3. CASE UNCHANGED vars
  BY <1>3 DEF vars, WelcomesBacked, NobodyFailed
<1>4. ASSUME NEW q \in Resets, ResetStep(q) PROVE WelcomesBacked'
  BY <1>4 DEF ResetStep, Notice, ReadGroup, Retire, storeVars, reqVars, WelcomesBacked, NobodyFailed
<1>5. ASSUME NEW r \in Requests, Request(r) PROVE WelcomesBacked'
  <2>1. CASE InsertWelcome(r)
    <3>1. /\ L!WelcomeMsg(r, req[r].group, req[r].base + 1).kind = "welcome"
          /\ L!WelcomeMsg(r, req[r].group, req[r].base + 1).commit = r
      BY DEF L!WelcomeMsg
    <3> QED BY <1>1, <1>2, <2>1, <3>1 DEF InsertWelcome, WelcomesBacked, NobodyFailed
  <2>2. CASE InsertCommit(r)
    <3>1. /\ L!CommitMsg(r, req[r].group, req[r].base + 1, NewHash(r)).kind = "commit"
          /\ L!CommitMsg(r, req[r].group, req[r].base + 1, NewHash(r)).commit = r
      BY DEF L!CommitMsg
    <3> QED BY <1>1, <1>2, <2>2, <3>1 DEF InsertCommit, WelcomesBacked, NobodyFailed
  <2>3. CASE log' = log /\ \E s \in {"head", "cas", "welcome", "commit", "conflict"} :
                pc' = [pc EXCEPT ![r] = s] /\ pc[r] \in {"idle", "head", "cas"}
    BY <1>1, <1>2, <2>3 DEF WelcomesBacked, NobodyFailed
  <2>4. \/ InsertWelcome(r) \/ InsertCommit(r)
        \/ log' = log /\ \E s \in {"head", "cas", "welcome", "commit", "conflict"} :
              pc' = [pc EXCEPT ![r] = s] /\ pc[r] \in {"idle", "head", "cas"}
    BY <1>5 DEF Request, Establish, Advance, Follow, ReadHead, ReadHeadFails, CompareAndSet, Conflict,
       CompareAndSetUnanswered, InsertUnanswered, InsertFails, Rollback, Cancel, storeVars, WelcomesBacked, NobodyFailed
  <2> QED BY <2>1, <2>2, <2>3, <2>4
<1> QED BY <1>3, <1>4, <1>5 DEF Next

\* Where no insert fails, no answer is lost and no request is cut off, every Welcome a client can fetch goes
\* with its Commit, or with a request that is about to insert it (CommitMLSGroup stores the
\* Welcome first).
THEOREM EveryWelcomeHasItsCommit ==
    ASSUME Failures \subseteq {"read"} PROVE Spec => []NoGhostWelcome
<1>1. Init => WelcomesBacked
  BY DEF Init, L!LogInit, WelcomesBacked, NobodyFailed
<1>2. IInv /\ WelcomesBacked /\ [Next]_vars => WelcomesBacked'
  BY WelcomesNext
<1>3. WelcomesBacked => NoGhostWelcome
  BY DEF WelcomesBacked, NoGhostWelcome
<1> QED BY <1>1, <1>2, <1>3, Invariance, PTL DEF Spec

-----------------------------------------------------------------------------
(***************************************************************************)
(* Retired groups.  Whatever fails: a group that is being established was  *)
(* never retired, and nothing but an establishment names another group.    *)
(***************************************************************************)
PriorInv ==
    /\ prior \in Seq(Groups)
    /\ \A i \in DOMAIN prior : /\ prior[i] # group
                               /\ \A r \in Requests : pc[r] = "cas" /\ req[r].base = 0
                                                        => req[r].group # prior[i]
    /\ \A i \in DOMAIN prior : prior[i] \in minted

LEMMA RememberedAre ==
    ASSUME NEW p \in Seq(Groups), NEW g \in Groups
    PROVE  /\ L!Remembering(p, g) \in Seq(Groups)
           /\ \A i \in DOMAIN L!Remembering(p, g) :
                 L!Remembering(p, g)[i] = g \/ \E j \in DOMAIN p : L!Remembering(p, g)[i] = p[j]
<1> DEFINE all == <<g>> \o p
<1>1. all \in Seq(Groups) /\ Len(all) = Len(p) + 1
  OBVIOUS
<1>2. \A i \in 1 .. Len(all) : all[i] = g \/ \E j \in DOMAIN p : all[i] = p[j]
  <2> SUFFICES ASSUME NEW i \in 1 .. Len(all) PROVE all[i] = g \/ \E j \in DOMAIN p : all[i] = p[j]
    OBVIOUS
  <2>1. CASE i = 1
    BY <2>1
  <2>2. CASE i # 1
    <3>1. i - 1 \in DOMAIN p /\ all[i] = p[i - 1]
      BY <1>1, <2>2
    <3> QED BY <3>1
  <2> QED BY <2>1, <2>2
<1> HIDE DEF all
<1>3. CASE Len(all) > MaxPriorGroups
  <2>1. L!Remembering(p, g) = SubSeq(all, 1, MaxPriorGroups)
    BY <1>3 DEF L!Remembering, all
  <2>2. /\ SubSeq(all, 1, MaxPriorGroups) \in Seq(Groups)
        /\ DOMAIN SubSeq(all, 1, MaxPriorGroups) = 1 .. MaxPriorGroups
        /\ \A i \in 1 .. MaxPriorGroups : SubSeq(all, 1, MaxPriorGroups)[i] = all[i] /\ i \in 1 .. Len(all)
    BY <1>1, <1>3, StoreAssumption
  <2> QED BY <1>2, <2>1, <2>2
<1>4. CASE ~(Len(all) > MaxPriorGroups)
  <2>1. L!Remembering(p, g) = all
    BY <1>4 DEF L!Remembering, all
  <2> QED BY <1>1, <1>2, <2>1
<1> QED BY <1>3, <1>4

LEMMA PriorNext ==
    ASSUME IInv, PriorInv, [Next]_vars
    PROVE  PriorInv' /\ (group' # group => \A i \in DOMAIN prior : group' # prior[i])
<1>0. /\ group \in Groups \cup {NoGroup} /\ minted \subseteq Groups /\ NoGroup \notin Groups
      /\ \A i \in DOMAIN prior : prior[i] \in Groups
      /\ req \in [Requests -> [group : Groups \cup {NoGroup}, base : Nat, welcome : BOOLEAN]]
      /\ pc \in [Requests -> {"idle", "head", "cas", "welcome", "commit", "rollback",
                               "accepted", "conflict", "failed"}]
      /\ \A r \in Requests : pc[r] = "head" => req[r].base # 0
  BY StoreAssumption DEF IInv, Callers, TypeOK, StoreType, RequestType, PriorInv
<1>1. CASE UNCHANGED vars
  BY <1>1 DEF vars, PriorInv
<1>2. ASSUME NEW q \in Resets, Notice(q) \/ ReadGroup(q)
      PROVE  PriorInv' /\ (group' # group => \A i \in DOMAIN prior : group' # prior[i])
  BY <1>2 DEF Notice, ReadGroup, storeVars, reqVars, PriorInv
<1>3. ASSUME NEW q \in Resets, Retire(q)
      PROVE  PriorInv' /\ (group' # group => \A i \in DOMAIN prior : group' # prior[i])
  <2>1. CASE group # target[q]
    BY <1>3, <2>1 DEF Retire, reqVars, PriorInv
  <2>2. CASE group = target[q]
    <3>1. /\ group' = NoGroup /\ prior' = L!Remembering(prior, group)
          /\ pc' = pc /\ req' = req /\ minted' = minted
      BY <1>3, <2>2 DEF Retire, reqVars
    <3>2. group \in Groups /\ group \in minted
      BY <1>0, <1>3, <2>2 DEF Retire, IInv, Callers, TypeOK, ResetType
    <3>3. /\ prior' \in Seq(Groups)
          /\ \A i \in DOMAIN prior' : prior'[i] = group \/ \E j \in DOMAIN prior : prior'[i] = prior[j]
      BY <3>1, <3>2, RememberedAre DEF PriorInv
    <3>4. \A r \in Requests : pc[r] = "cas" /\ req[r].base = 0 => req[r].group # group
      BY DEF IInv, Freshness
    <3>5. \A i \in DOMAIN prior' : prior'[i] \in minted /\ prior'[i] # NoGroup
      BY <1>0, <3>2, <3>3 DEF PriorInv
    <3>6. \A i \in DOMAIN prior' : \A r \in Requests : pc[r] = "cas" /\ req[r].base = 0
                                                        => req[r].group # prior'[i]
      BY <3>3, <3>4 DEF PriorInv
    <3> QED BY <1>0, <3>1, <3>3, <3>5, <3>6 DEF PriorInv
  <2> QED BY <2>1, <2>2
<1>4. ASSUME NEW r \in Requests, Request(r)
      PROVE  PriorInv' /\ (group' # group => \A i \in DOMAIN prior : group' # prior[i])
  <2>1. ASSUME NEW g \in Groups, NEW w \in BOOLEAN, Establish(r, g, w)
        PROVE  PriorInv' /\ (group' # group => \A i \in DOMAIN prior : group' # prior[i])
    <3>1. /\ req'[r].group = g /\ (\A s \in Requests : s # r => req'[s] = req[s] /\ pc'[s] = pc[s])
          /\ g \notin minted /\ minted \subseteq minted' /\ group' = group /\ prior' = prior
      BY <1>0, <2>1 DEF Establish, storeVars
    <3> QED BY <3>1 DEF PriorInv
  <2>2. CASE CompareAndSet(r) \/ CompareAndSetUnanswered(r)
    <3>1. /\ pc[r] = "cas" /\ Filter(r) /\ group' = req[r].group /\ prior' = prior
          /\ req' = req /\ minted' = minted
          /\ \A s \in Requests : pc'[s] = "cas" => pc[s] = "cas"
      BY <1>0, <2>2 DEF CompareAndSet, CompareAndSetUnanswered
    <3>2. \A i \in DOMAIN prior : req[r].group # prior[i]
      BY <3>1 DEF PriorInv, Filter
    <3> QED BY <3>1, <3>2 DEF PriorInv
  <2>3. CASE Rollback(r)
    <3>1. /\ group' \in {group, NoGroup} /\ prior' = prior /\ req' = req /\ minted' = minted
          /\ \A s \in Requests : pc'[s] = "cas" => pc[s] = "cas"
      BY <1>0, <2>3 DEF Rollback
    <3>2. \A i \in DOMAIN prior : group' # prior[i]
      BY <1>0, <3>1 DEF PriorInv
    <3> QED BY <3>1, <3>2 DEF PriorInv
  <2>4. ASSUME NEW w \in BOOLEAN, (\E m \in log : Advance(r, m, w)) \/ Follow(r, w)
        PROVE  PriorInv' /\ (group' # group => \A i \in DOMAIN prior : group' # prior[i])
    <3>1. /\ group' = group /\ prior' = prior /\ minted' = minted
          /\ \A s \in Requests : pc'[s] = "cas" => pc[s] = "cas" /\ req'[s] = req[s]
      BY <1>0, <2>4 DEF Advance, Follow, storeVars
    <3> QED BY <3>1 DEF PriorInv
  <2>5. CASE ReadHead(r) \/ ReadHeadFails(r) \/ Conflict(r) \/ InsertWelcome(r) \/ InsertCommit(r)
             \/ InsertFails(r) \/ InsertUnanswered(r) \/ Cancel(r)
    <3>1. /\ group' = group /\ prior' = prior /\ minted' = minted /\ req' = req
          /\ \A s \in Requests : pc'[s] = "cas" => pc[s] \in {"cas", "head"}
      BY <1>0, <2>5 DEF ReadHead, ReadHeadFails, Conflict, InsertWelcome, InsertCommit, InsertFails,
         InsertUnanswered, Cancel, storeVars
    <3> QED BY <1>0, <3>1 DEF PriorInv
  <2> QED BY <1>4, <2>1, <2>2, <2>3, <2>4, <2>5 DEF Request
<1> QED BY <1>1, <1>2, <1>3, <1>4 DEF Next, ResetStep

\* Whatever fails, and however late a Commit, a rollback or a reset lands: a conversation
\* does not go back to a group it has retired and still remembers.
THEOREM NoWayBack == Spec => RetiredStaysRetired
<1>1. Init => PriorInv
  BY DEF Init, L!LogInit, PriorInv
<1>2. IInv /\ PriorInv /\ [Next]_vars => PriorInv'
  BY PriorNext
<1>3. IInv /\ PriorInv /\ [Next]_vars
        => [group' # group => \A i \in DOMAIN prior : group' # prior[i]]_vars
  BY PriorNext
<1> QED BY <1>1, <1>2, <1>3, Invariance, PTL DEF Spec, RetiredStaysRetired
=============================================================================
