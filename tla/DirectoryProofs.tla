--------------------------- MODULE DirectoryProofs ---------------------------
(***************************************************************************)
(* Proofs about what hosts and clients look up: the KeyPackage directory   *)
(* and the device registry, the signed host-to-host requests, the names    *)
(* and avatars of users and channels, and the key backup.  Each part has   *)
(* its inductive invariant, one lemma per action that disturbs it, and     *)
(* its theorem.                                                            *)
(***************************************************************************)
EXTENDS KeyPackages, Hosts, Profiles, KeyBackup, FiniteSetTheorems, TLAPS

(***************************************************************************)
(* KeyPackages                                                             *)
(***************************************************************************)
TabRow == [pc : {"idle", "add", "upsert", "done"}, device : Devices, resort : BOOLEAN]

KpTypes ==
    /\ packages \in SUBSET MLSKeyPackage
    /\ lastResort \in [Devices -> Nat]
    /\ registry \in [Devices -> MLSDevice]
    /\ tab \in [Tabs -> TabRow]
    /\ terminator \in [pc : {"idle", "tombstone", "delete", "done", "failed"}, device : Devices]
    /\ lister \in [pc : {"idle", "tombstones", "done"}, devices : SUBSET Devices,
                   revoked : SUBSET Devices, due : SUBSET Devices]
    /\ handed \in SUBSET [by : Claimers, package : MLSKeyPackage]
    /\ offered \in SUBSET Devices

\* A tab that has stored its batch stores no other, so a package's name is used once.
Stored(p) == tab[p.id[1]].pc \in {"upsert", "done"}

\* What was handed out is gone from the directory, and was handed out once.
Consumed ==
    /\ \A p \in packages : Stored(p)
    /\ \A g \in handed : Stored(g.package) /\ g.package \notin packages
    /\ \A g, h \in handed : g.package = h.package => g = h

\* The last resort goes only behind a tombstone.
Tombstoned ==
    /\ terminator.pc = "delete" => registry[terminator.device] = "revoked"
    /\ \A d \in offered : registry[d] # "revoked" => HasLastResortKeyPackage(d)

\* What a list owes its reader is on it already, or among the tombstones it has yet to read.
Owed ==
    /\ lister.pc = "tombstones" =>
          \A d \in lister.due : d \in lister.devices \/ registry[d] = "revoked"
    /\ TerminationIsSeen

KpInv == KpTypes /\ Consumed /\ Tombstoned /\ Owed

LEMMA TabAdvances ==
    ASSUME tab \in [Tabs -> TabRow], NEW t \in Tabs, NEW pc \in {"upsert", "done"},
           tab' = [tab EXCEPT ![t].pc = pc]
    PROVE  /\ tab' \in [Tabs -> TabRow] /\ tab'[t].pc = pc
           /\ \A s \in Tabs : s # t => tab'[s] = tab[s]
<1>1. [tab[t] EXCEPT !.pc = pc] \in TabRow /\ [tab[t] EXCEPT !.pc = pc].pc = pc
  BY DEF TabRow
<1> QED BY <1>1

LEMMA PublishKeepsKp ==
    ASSUME KpInv, NEW t \in Tabs, NEW resort \in BOOLEAN, publishKeyPackages(t, resort)
    PROVE  KpInv'
<1> USE DEF KpInv
<1>1. tab[t].pc = "idle"
  BY DEF publishKeyPackages
<1>2. UNCHANGED <<packages, lastResort, registry, terminator, lister, handed, offered>>
  BY DEF publishKeyPackages, kpDirectory
<1>3. tab' \in [Tabs -> TabRow] /\ \A s \in Tabs : s # t => tab'[s] = tab[s]
  <2> DEFINE B == resort /\ ~HasLastResortKeyPackage(tab[t].device)
             q == [tab[t] EXCEPT !.pc = "add"]
  <2>1. B \in BOOLEAN
    OBVIOUS
  <2>2. tab' = [[tab EXCEPT ![t] = q] EXCEPT ![t] = [q EXCEPT !.resort = B]]
    BY DEF publishKeyPackages, KpTypes
  <2> HIDE DEF B
  <2>3. q \in TabRow
    BY DEF TabRow, KpTypes
  <2> HIDE DEF q
  <2>4. [q EXCEPT !.resort = B] \in TabRow
    BY <2>1, <2>3 DEF TabRow
  <2> QED BY <2>2, <2>3, <2>4 DEF KpTypes
<1>4. KpTypes'
  BY <1>1, <1>2, <1>3 DEF KpTypes
<1>5. Consumed'
  <2>1. \A s \in Tabs : tab[s].pc \in {"upsert", "done"} => tab'[s].pc \in {"upsert", "done"}
    BY <1>1, <1>3 DEF KpTypes
  <2>2. \A p \in MLSKeyPackage : Stored(p) => Stored(p)'
    BY <2>1 DEF Stored, MLSKeyPackage
  <2> QED BY <1>2, <2>2 DEF Consumed, KpTypes
<1>6. Tombstoned' /\ Owed'
  BY <1>2 DEF Tombstoned, Owed, TerminationIsSeen, HasLastResortKeyPackage
<1> QED BY <1>4, <1>5, <1>6

LEMMA AddKeepsKp ==
    ASSUME KeyPackagesAssumption, KpInv, NEW t \in Tabs, NEW n \in 0 .. MaxBatch, AddKeyPackages(t, n)
    PROVE  KpInv'
<1> USE DEF KpInv
<1> DEFINE d == tab[t].device
           new == {[device |-> d, id |-> <<t, i>>] : i \in 1 .. n}
<1>1. /\ tab[t].pc = "add" /\ d \in Devices
      /\ packages' = packages \cup new
      /\ lastResort' = [lastResort EXCEPT ![d] = IF tab[t].resort THEN 1 ELSE @]
      /\ offered' = IF tab[t].resort THEN offered \cup {d} ELSE offered
      /\ UNCHANGED <<registry, terminator, lister, handed>>
  BY DEF AddKeyPackages, KpTypes, TabRow
<1>2. /\ tab' \in [Tabs -> TabRow] /\ tab'[t].pc = "upsert"
      /\ \A s \in Tabs : s # t => tab'[s] = tab[s]
  BY TabAdvances DEF AddKeyPackages, KpTypes
<1>3. \A p \in new : p \in MLSKeyPackage /\ p.id[1] = t
  BY <1>1 DEF MLSKeyPackage, KeyPackagesAssumption
<1> HIDE DEF new
<1>4. KpTypes'
  <2>1. packages' \in SUBSET MLSKeyPackage
    BY <1>1, <1>3 DEF KpTypes
  <2>2. lastResort' \in [Devices -> Nat] /\ offered' \in SUBSET Devices
    BY <1>1 DEF KpTypes
  <2> QED BY <1>1, <1>2, <2>1, <2>2 DEF KpTypes
<1>5. Consumed'
  <2>1. \A p \in MLSKeyPackage : Stored(p) => p.id[1] # t
    BY <1>1 DEF Stored
  <2>2. \A p \in MLSKeyPackage : Stored(p) => Stored(p)'
    BY <1>1, <1>2 DEF Stored, KpTypes, MLSKeyPackage
  <2>3. \A p \in new : Stored(p)'
    BY <1>2, <1>3 DEF Stored, KpTypes
  <2> QED BY <1>1, <1>3, <2>1, <2>2, <2>3 DEF Consumed, KpTypes
<1>6. Tombstoned' /\ Owed'
  <2>1. \A e \in Devices : HasLastResortKeyPackage(e) => HasLastResortKeyPackage(e)'
    BY <1>1 DEF HasLastResortKeyPackage, KpTypes
  <2>2. \A e \in offered' : e \in offered \/ HasLastResortKeyPackage(e)'
    <3>1. CASE tab[t].resort
      <4>1. lastResort' = [lastResort EXCEPT ![d] = 1] /\ offered' = offered \cup {d}
        BY <1>1, <3>1
      <4> QED BY <1>1, <4>1 DEF HasLastResortKeyPackage, KpTypes
    <3>2. CASE ~tab[t].resort
      BY <1>1, <3>2
    <3> QED BY <3>1, <3>2
  <2> QED BY <1>1, <2>1, <2>2 DEF Tombstoned, Owed, TerminationIsSeen, KpTypes
<1> QED BY <1>4, <1>5, <1>6

\* Rows are made and refreshed, and a tombstone stays what it is.
LEMMA UpsertKeepsRows ==
    ASSUME KpInv, NEW d \in Devices, registry' = Upserted(d),
           UNCHANGED <<packages, lastResort, terminator, lister, handed, offered>>,
           tab' \in [Tabs -> TabRow],
           \A s \in Tabs : tab[s].pc \in {"upsert", "done"} => tab'[s].pc \in {"upsert", "done"}
    PROVE  KpInv'
<1> USE DEF KpInv
<1>1. registry' \in [Devices -> MLSDevice]
  BY DEF Upserted, KpTypes, MLSDevice
<1>2. \A e \in Devices : registry'[e] = "revoked" <=> registry[e] = "revoked"
  BY DEF Upserted, KpTypes
<1>3. KpTypes'
  BY <1>1 DEF KpTypes
<1>4. Consumed'
  <2>1. \A p \in MLSKeyPackage : Stored(p) => Stored(p)'
    BY DEF Stored, MLSKeyPackage
  <2> QED BY <2>1 DEF Consumed, KpTypes
<1>5. Tombstoned' /\ Owed'
  BY <1>2 DEF Tombstoned, Owed, TerminationIsSeen, HasLastResortKeyPackage, KpTypes
<1> QED BY <1>3, <1>4, <1>5

LEMMA UpsertKeepsKp ==
    ASSUME KpInv, NEW t \in Tabs, UpsertMLSDevice(t)
    PROVE  KpInv'
<1>1. tab'[t].pc = "done" /\ \A s \in Tabs : s # t => tab'[s] = tab[s]
  BY TabAdvances DEF UpsertMLSDevice, KpTypes, KpInv
<1>2. tab' \in [Tabs -> TabRow]
  BY TabAdvances DEF UpsertMLSDevice, KpTypes, KpInv
<1>3. \A s \in Tabs : tab[s].pc \in {"upsert", "done"} => tab'[s].pc \in {"upsert", "done"}
  BY <1>1 DEF KpTypes, KpInv
<1>4. tab[t].device \in Devices
  BY DEF KpTypes, KpInv, TabRow
<1> QED BY <1>2, <1>3, <1>4, UpsertKeepsRows DEF UpsertMLSDevice

LEMMA RegisterKeepsKp ==
    ASSUME KpInv, NEW d \in Devices, registerDevice(d)
    PROVE  KpInv'
BY UpsertKeepsRows DEF registerDevice, KpInv, KpTypes

LEMMA ClaimKeepsKp ==
    ASSUME KpInv, NEW c \in Claimers, NEW d \in Devices, MongoClaimSingle(c, d)
    PROVE  KpInv'
<1> USE DEF KpInv
<1>1. PICK p \in OfDevice(d) :
         packages' = packages \ {p} /\ handed' = handed \cup {[by |-> c, package |-> p]}
  BY DEF MongoClaimSingle
<1>2. UNCHANGED <<lastResort, registry, tab, terminator, lister, offered>>
  BY DEF MongoClaimSingle
<1>3. p \in packages /\ p \in MLSKeyPackage
  BY DEF OfDevice, KpTypes
<1>4. KpTypes'
  BY <1>1, <1>2, <1>3 DEF KpTypes
<1>5. Consumed'
  <2>1. \A q \in MLSKeyPackage : Stored(q)' <=> Stored(q)
    BY <1>2 DEF Stored
  <2> QED BY <1>1, <1>3, <2>1 DEF Consumed, KpTypes
<1>6. Tombstoned' /\ Owed'
  BY <1>2 DEF Tombstoned, Owed, TerminationIsSeen, HasLastResortKeyPackage
<1> QED BY <1>4, <1>5, <1>6

LEMMA TerminateKeepsKp ==
    ASSUME KpInv, NEW d \in Devices, terminateDevice(d) \/ RevokeMLSDevice(d) \/ TerminateFails
    PROVE  KpInv'
<1> USE DEF KpInv
<1>1. UNCHANGED <<packages, lastResort, tab, lister, handed, offered>>
  BY DEF terminateDevice, RevokeMLSDevice, TerminateFails, kpDirectory
<1>2. \/ registry' = registry /\ terminator'.pc # "delete"
      \/ registry' = [registry EXCEPT ![d] = "revoked"] /\ terminator'.device = d
  BY DEF terminateDevice, RevokeMLSDevice, TerminateFails, kpDirectory, KpTypes
<1>3. terminator' \in [pc : {"idle", "tombstone", "delete", "done", "failed"}, device : Devices]
  BY DEF terminateDevice, RevokeMLSDevice, TerminateFails, KpTypes
<1>4. KpTypes'
  BY <1>1, <1>2, <1>3 DEF KpTypes, MLSDevice
<1>5. Consumed'
  BY <1>1 DEF Consumed, Stored
<1>6. Tombstoned' /\ Owed'
  BY <1>1, <1>2, <1>3 DEF Tombstoned, Owed, TerminationIsSeen, HasLastResortKeyPackage, KpTypes
<1> QED BY <1>4, <1>5, <1>6

LEMMA WithdrawKeepsKp ==
    ASSUME KpInv, NEW d \in Devices, DeleteKeyPackages(d) \/ deleteKeyPackages(d)
    PROVE  KpInv'
<1> USE DEF KpInv
<1>1. /\ packages' \in SUBSET packages /\ lastResort' = [lastResort EXCEPT ![d] = 0]
      /\ UNCHANGED <<registry, tab, handed>>
  BY DEF DeleteKeyPackages, deleteKeyPackages
<1>2. Consumed'
  BY <1>1 DEF Consumed, Stored
<1>3. \A e \in Devices : e # d => (HasLastResortKeyPackage(e)' <=> HasLastResortKeyPackage(e))
  BY <1>1 DEF HasLastResortKeyPackage, KpTypes
<1>4. CASE DeleteKeyPackages(d)
  <2>1. /\ terminator' \in [pc : {"done"}, device : Devices] /\ registry[d] = "revoked"
        /\ UNCHANGED <<lister, offered>>
    BY <1>4 DEF DeleteKeyPackages, KpTypes, Tombstoned
  <2>2. KpTypes'
    BY <1>1, <2>1 DEF KpTypes
  <2> QED BY <1>1, <1>2, <1>3, <2>1, <2>2 DEF Tombstoned, Owed, TerminationIsSeen, KpTypes
<1>5. CASE deleteKeyPackages(d)
  <2>1. /\ offered' = offered \ {d} /\ terminator' = terminator
        /\ lister' = [lister EXCEPT !.due = @ \ {d}]
    BY <1>5 DEF deleteKeyPackages
  <2>2. /\ lister'.pc = lister.pc /\ lister'.devices = lister.devices
        /\ lister'.revoked = lister.revoked /\ lister'.due = lister.due \ {d}
    BY <2>1 DEF KpTypes
  <2>3. KpTypes'
    BY <1>1, <2>1 DEF KpTypes
  <2> QED BY <1>1, <1>2, <1>3, <2>1, <2>2, <2>3 DEF Tombstoned, Owed, TerminationIsSeen, KpTypes
<1> QED BY <1>4, <1>5

LEMMA ListKeepsKp ==
    ASSUME KpInv, listDevices \/ ListRevoked \/ ListRevokedFails
    PROVE  KpInv'
<1> USE DEF KpInv
<1>1. UNCHANGED <<packages, lastResort, registry, tab, terminator, handed, offered>>
  BY DEF listDevices, ListRevoked, ListRevokedFails, kpDirectory
<1>2. Consumed' /\ Tombstoned'
  BY <1>1 DEF Consumed, Stored, Tombstoned, HasLastResortKeyPackage
<1>3. CASE listDevices
  <2>1. lister' = [pc |-> "tombstones", devices |-> DevicesWithKeyPackages, revoked |-> {},
                   due |-> offered]
    BY <1>3 DEF listDevices
  <2>2. \A d \in offered : d \in DevicesWithKeyPackages \/ registry[d] = "revoked"
    BY DEF Tombstoned, DevicesWithKeyPackages, KpTypes
  <2>3. DevicesWithKeyPackages \in SUBSET Devices
    BY DEF DevicesWithKeyPackages
  <2>4. KpTypes'
    BY <1>1, <2>1, <2>3 DEF KpTypes
  <2> QED BY <1>1, <1>2, <2>1, <2>2, <2>4 DEF Owed, TerminationIsSeen
<1>4. CASE ListRevoked
  <2>1. /\ lister' = [lister EXCEPT !.pc = "done", !.revoked = RevokedDeviceIDs]
        /\ lister.pc = "tombstones"
    BY <1>4 DEF ListRevoked
  <2>2. /\ lister'.pc = "done" /\ lister'.devices = lister.devices
        /\ lister'.revoked = RevokedDeviceIDs /\ lister'.due = lister.due
    BY <2>1 DEF KpTypes
  <2>3. KpTypes'
    BY <1>1, <2>1 DEF KpTypes, RevokedDeviceIDs
  <2> QED BY <1>1, <1>2, <2>1, <2>2, <2>3 DEF Owed, TerminationIsSeen, RevokedDeviceIDs, KpTypes
<1>5. CASE ListRevokedFails
  <2>1. lister' = [lister EXCEPT !.pc = "done", !.due = {}]
    BY <1>5 DEF ListRevokedFails
  <2>2. lister'.pc = "done" /\ lister'.due = {}
    BY <2>1 DEF KpTypes
  <2>3. KpTypes'
    BY <1>1, <2>1 DEF KpTypes
  <2> QED BY <1>2, <2>2, <2>3 DEF Owed, TerminationIsSeen
<1> QED BY <1>3, <1>4, <1>5

\* The rest of a claim changes nothing but the claim.
LEMMA OtherStepsKeepKp ==
    ASSUME KpInv, UNCHANGED <<packages, lastResort, registry, tab, terminator, lister, handed, offered>>
    PROVE  KpInv'
BY DEF KpInv, KpTypes, Consumed, Stored, Tombstoned, Owed, TerminationIsSeen, HasLastResortKeyPackage

LEMMA KpInductive ==
    ASSUME KeyPackagesAssumption PROVE KpInv /\ [KpNext]_kpVars => KpInv'
<1> SUFFICES ASSUME KpInv, [KpNext]_kpVars PROVE KpInv'
  OBVIOUS
<1>1. ASSUME NEW c \in Claimers, claimForPeer(c) \/ claimKeyPackages(c, Devices) PROVE KpInv'
  BY <1>1, OtherStepsKeepKp DEF claimForPeer, claimKeyPackages, kpDirectory
<1>2. ASSUME NEW c \in Claimers, NEW d \in Devices,
             MongoClaimExhausted(c, d) \/ MongoClaimLastResort(c, d) \/ MemoryClaimKeyPackage(c, d)
      PROVE  KpInv'
  BY <1>2, OtherStepsKeepKp
     DEF MongoClaimExhausted, MongoClaimLastResort, MemoryClaimKeyPackage, ClaimLastResort, kpDirectory
<1>3. CASE UNCHANGED kpVars
  BY <1>3, OtherStepsKeepKp DEF kpVars, kpDirectory
<1>4. CASE TerminateFails
  <2>1. terminator.device \in Devices
    BY DEF KpInv, KpTypes
  <2> QED BY <1>4, <2>1, TerminateKeepsKp
<1>5. CASE listDevices \/ ListRevoked \/ ListRevokedFails
  BY <1>5, ListKeepsKp
<1>6. ASSUME NEW d \in Devices,
             \/ registerDevice(d) \/ deleteKeyPackages(d)
             \/ terminateDevice(d) \/ RevokeMLSDevice(d) \/ DeleteKeyPackages(d)
      PROVE  KpInv'
  BY <1>6, RegisterKeepsKp, WithdrawKeepsKp, TerminateKeepsKp
<1> QED BY <1>1, <1>2, <1>3, <1>4, <1>5, <1>6, PublishKeepsKp, AddKeepsKp, UpsertKeepsKp, ClaimKeepsKp
        DEF KpNext

LEMMA KpStarts == KpInit => KpInv
<1> SUFFICES ASSUME KpInit PROVE KpInv
  OBVIOUS
<1>1. tab \in [Tabs -> TabRow]
  BY DEF KpInit, TabRow
<1>2. KpTypes
  BY <1>1 DEF KpInit, KpTypes, MLSDevice
<1> QED BY <1>2 DEF KpInit, KpInv, Consumed, Tombstoned, Owed, TerminationIsSeen

\* However many tabs, claimers and hosts work on the directory at once, no single-use package is
\* handed out twice, and a device that was not terminated keeps its last resort.
THEOREM PackagesGoOnce == ASSUME KeyPackagesAssumption PROVE KpSpec => []ClaimsConsumeSinglesOnce
<1>1. KpInv => ClaimsConsumeSinglesOnce
  BY DEF KpInv, Consumed, Tombstoned, ClaimsConsumeSinglesOnce
<1> QED BY <1>1, KpStarts, KpInductive, PTL DEF KpSpec

\* Whatever point the termination of a device has reached or failed at, the list a co-member
\* reads shows the device as live or as terminated.
THEOREM TerminatedOrListed == ASSUME KeyPackagesAssumption PROVE KpSpec => []TerminationIsSeen
<1>1. KpInv => TerminationIsSeen
  BY DEF KpInv, Owed
<1> QED BY <1>1, KpStarts, KpInductive, PTL DEF KpSpec

(***************************************************************************)
(* Hosts                                                                   *)
(***************************************************************************)
HsTypes ==
    /\ now \in Int
    /\ drift \in [HostIds -> Int]
    /\ DOMAIN request = Requests
    /\ \A r \in Requests : request[r] # Unsent => request[r].ts \in Int
    /\ verifying \in SUBSET [at : HostIds, req : Requests, copy : 1 .. 2]
    /\ nonces \in [HostIds -> [Requests -> Int]]
    /\ handled \in [HostIds -> [Requests -> Nat]]

\* A host acts on what was signed for it.
MeantFor(h, r) == request[r] # Unsent /\ request[r].dest = h

\* A check that passed is still fresh when its nonce is recorded.
StillFresh == \A v \in verifying : MeantFor(v.at, v.req) /\ ~Stale(v.at, request[v.req].ts)

\* The nonce of a request that was acted on is remembered until the request itself is too old.
RememberedLongEnough ==
    \A h \in HostIds, r \in Requests :
        \/ handled[h][r] = 0
        \/ /\ handled[h][r] = 1 /\ MeantFor(h, r)
           /\ nonces[h][r] + drift[h] - request[r].ts >= MaxSkew

HsInv == HsTypes /\ StillFresh /\ RememberedLongEnough

LEMMA SignKeepsHosts ==
    ASSUME HsInv, NEW h \in HostIds, NEW dest \in HostIds, NEW r \in Requests, Do(h, r, dest)
    PROVE  HsInv'
<1> USE DEF HsInv
<1>1. /\ request[r] = Unsent /\ request' = [request EXCEPT ![r] = Sign(h, dest)]
      /\ UNCHANGED <<now, drift, verifying, nonces, handled>>
  BY DEF Do
<1>2. Sign(h, dest).ts \in Int
  BY DEF Sign, ClockOf, HsTypes
<1>3. HsTypes'
  BY <1>1, <1>2 DEF HsTypes
<1>4. \A s \in Requests : request[s] # Unsent => request'[s] = request[s]
  BY <1>1 DEF HsTypes
<1>5. StillFresh'
  BY <1>1, <1>4 DEF StillFresh, MeantFor, Stale, ClockOf, HsTypes
<1>6. RememberedLongEnough'
  BY <1>1, <1>4 DEF RememberedLongEnough, MeantFor
<1> QED BY <1>3, <1>5, <1>6

LEMMA VerifyKeepsHosts ==
    ASSUME HsInv, NEW h \in HostIds, NEW r \in Requests, NEW copy \in 1 .. 2, Verify(h, r, copy)
    PROVE  HsInv'
<1> USE DEF HsInv
<1>1. /\ request[r] # Unsent /\ ~Stale(h, request[r].ts) /\ request[r].dest = h
      /\ verifying' = verifying \cup {[at |-> h, req |-> r, copy |-> copy]}
      /\ UNCHANGED <<now, drift, request, nonces, handled>>
  BY DEF Verify, Verifies
<1>2. HsTypes'
  BY <1>1 DEF HsTypes
<1>3. StillFresh'
  BY <1>1 DEF StillFresh, MeantFor, Stale, ClockOf
<1>4. RememberedLongEnough'
  BY <1>1 DEF RememberedLongEnough, MeantFor
<1> QED BY <1>2, <1>3, <1>4

LEMMA RecordKeepsHosts ==
    ASSUME HostsAssumption, HsInv, NEW v \in verifying, SeenNonce(v)
    PROVE  HsInv'
<1> USE DEF HsInv
<1> DEFINE h == v.at  r == v.req
<1>1. h \in HostIds /\ r \in Requests
  BY DEF HsTypes
<1>2. UNCHANGED <<now, drift, request>> /\ verifying' = verifying \ {v}
  BY DEF SeenNonce
<1>3. StillFresh'
  BY <1>2 DEF StillFresh, MeantFor, Stale, ClockOf
<1>4. CASE nonces[h][r] >= now
  <2>1. nonces' = nonces /\ handled' = handled
    BY <1>4 DEF SeenNonce
  <2> QED BY <1>2, <1>3, <2>1 DEF HsTypes, RememberedLongEnough, MeantFor
<1>5. CASE ~(nonces[h][r] >= now)
  <2>1. /\ nonces' = [nonces EXCEPT ![h][r] = now + Remembered]
        /\ handled' = [handled EXCEPT ![h][r] = @ + 1]
    BY <1>5 DEF SeenNonce
  <2>2. MeantFor(h, r) /\ ~Stale(h, request[r].ts)
    BY DEF StillFresh
  <2> HIDE DEF h, r
  <2>3. Remembered \in Int
    BY DEF Remembered, HostsAssumption
  <2>4. HsTypes'
    <3>1. nonces' \in [HostIds -> [Requests -> Int]]
      BY <1>1, <2>1, <2>3 DEF HsTypes
    <3>2. handled' \in [HostIds -> [Requests -> Nat]]
      BY <1>1, <2>1 DEF HsTypes
    <3> QED BY <1>2, <3>1, <3>2 DEF HsTypes
  <2>5. request[r].ts \in Int /\ drift[h] \in Int /\ now \in Int /\ nonces[h][r] \in Int
    BY <1>1, <2>2 DEF HsTypes, MeantFor
  <2>6. handled[h][r] = 0
    <3>1. ~(nonces[h][r] + drift[h] - request[r].ts >= MaxSkew)
      BY <1>5, <2>2, <2>5 DEF Stale, ClockOf, HostsAssumption, h, r
    <3> QED BY <1>1, <3>1 DEF RememberedLongEnough
  <2>7. handled'[h][r] = 1 /\ nonces'[h][r] = now + Remembered
    BY <1>1, <2>1, <2>6 DEF HsTypes
  <2>8. nonces'[h][r] + drift[h] - request[r].ts >= MaxSkew
    BY <2>2, <2>5, <2>7 DEF Stale, ClockOf, HostsAssumption, Remembered
  <2>9. \A g \in HostIds, s \in Requests :
           g # h \/ s # r => handled'[g][s] = handled[g][s] /\ nonces'[g][s] = nonces[g][s]
    BY <1>1, <2>1 DEF HsTypes
  <2>10. RememberedLongEnough'
    BY <1>1, <1>2, <2>2, <2>7, <2>8, <2>9 DEF RememberedLongEnough, MeantFor
  <2> QED BY <1>3, <2>4, <2>10
<1> QED BY <1>4, <1>5

\* The clock, the lists, restarts and a nonce store that cannot be asked disturb nothing.
LEMMA OtherStepsKeepHosts ==
    ASSUME HsInv, UNCHANGED <<drift, request, nonces, handled>>, now' \in Int,
           verifying' \in SUBSET verifying, now' = now \/ verifying' = {}
    PROVE  HsInv'
<1> USE DEF HsInv
<1>1. HsTypes'
  BY DEF HsTypes
<1>2. StillFresh'
  BY DEF StillFresh, MeantFor, Stale, ClockOf
<1>3. RememberedLongEnough'
  BY DEF RememberedLongEnough, MeantFor
<1> QED BY <1>1, <1>2, <1>3

LEMMA HsInductive ==
    ASSUME HostsAssumption PROVE HsInv /\ [HsNext]_hsVars => HsInv'
<1> SUFFICES ASSUME HsInv, [HsNext]_hsVars PROVE HsInv'
  OBVIOUS
<1>1. now \in Int
  BY DEF HsInv, HsTypes
<1>2. CASE HsTick
  BY <1>1, <1>2, OtherStepsKeepHosts DEF HsTick
<1>3. ASSUME NEW h \in HostIds, PutFile(h) \/ LoadFile(h) \/ StopHost(h) PROVE HsInv'
  BY <1>1, <1>3, OtherStepsKeepHosts DEF PutFile, LoadFile, StopHost
<1>4. ASSUME NEW v \in verifying, SeenNonceFails(v) PROVE HsInv'
  BY <1>1, <1>4, OtherStepsKeepHosts DEF SeenNonceFails
<1>5. CASE UNCHANGED hsVars
  BY <1>1, <1>5, OtherStepsKeepHosts DEF hsVars
<1> QED BY <1>2, <1>3, <1>4, <1>5, SignKeepsHosts, VerifyKeepsHosts, RecordKeepsHosts DEF HsNext

\* Any number of hosts, any lists and clocks, any delay and any number of copies: a signed
\* request is acted on once at most, and only by the host it was signed for.
THEOREM NoReplay == ASSUME HostsAssumption PROVE HsSpec => []HandledOnce
<1>1. HsInit => HsInv
  <2> SUFFICES ASSUME HsInit PROVE HsInv
    OBVIOUS
  <2>1. drift \in [HostIds -> Int]
    BY DEF HsInit, HostsAssumption
  <2>2. \A r \in Requests : request[r] = Unsent
    BY DEF HsInit
  <2>3. HsTypes
    BY <2>1, <2>2 DEF HsInit, HsTypes
  <2> QED BY <2>3 DEF HsInit, HsInv, StillFresh, RememberedLongEnough
<1>2. HsInv => HandledOnce
  <2> SUFFICES ASSUME HsInv, NEW h \in HostIds, NEW r \in Requests
               PROVE  handled[h][r] <= IF request[r] # Unsent /\ request[r].dest = h THEN 1 ELSE 0
    BY DEF HandledOnce
  <2> QED BY DEF HsInv, HsTypes, RememberedLongEnough, MeantFor
<1> QED BY <1>1, <1>2, HsInductive, PTL DEF HsSpec

(***************************************************************************)
(* Profiles                                                                *)
(***************************************************************************)
Putting == [pc : {"read", "set", "drop", "done"}, owner : Owners,
            blob : Uploads \cup {NoBlob}, prev : Uploads \cup {NoBlob}]

PfTypes ==
    /\ DOMAIN handle = Owners
    /\ avatar \in [Owners -> Uploads \cup {NoBlob}]
    /\ DOMAIN put = Uploads
    /\ \A p \in Uploads : put[p] = [pc |-> "idle"] \/ put[p] \in Putting

\* An upload whose blob a row was pointed at: it points no row at it again.
IsSet(b) == put[b].pc \in {"drop", "done"}

\* An upload owns the blob it stored until it has set it, and a set blob is its owner's.
BlobsAreOwned ==
    /\ \A p \in Uploads : put[p].pc # "idle" => put[p].blob \in {p, NoBlob}
    /\ \A p \in Uploads :
          (put[p].pc \in {"read", "set"} /\ put[p].blob = p) => p \in pfBlobs
    /\ \A o \in Owners : avatar[o] # NoBlob => IsSet(avatar[o]) /\ put[avatar[o]].owner = o

\* What an upload replaces was its owner's, and is no row's avatar once the upload drops it.
PreviousIsReplaced ==
    \A p \in Uploads :
        (put[p].pc \in {"set", "drop"} /\ put[p].prev # NoBlob) =>
            /\ IsSet(put[p].prev) /\ put[put[p].prev].owner = put[p].owner
            /\ put[p].pc = "drop" => \A o \in Owners : avatar[o] # put[p].prev

AvatarsInv == PfTypes /\ BlobsAreOwned /\ PreviousIsReplaced /\ AvatarIsThere

\* A name that clashes with none leaves every name with one owner.
LEMMA ApplyKeepsNames ==
    ASSUME DOMAIN handle = Owners, OneOwnerPerName, NEW e \in Edits, Applied(e),
           ~(IsName(Wants(e)) /\ Clash(edit[e].owner, Wants(e)))
    PROVE  OneOwnerPerName' /\ DOMAIN handle' = Owners
<1> DEFINE o == edit[e].owner
           n == edit[e].update.username
<1>1. CASE n = Keep
  <2>1. handle' = handle
    BY <1>1 DEF Applied
  <2> QED BY <2>1 DEF OneOwnerPerName, SameKind
<1>2. CASE n # Keep
  <2>1. handle' = [handle EXCEPT ![o] = n]
    BY <1>2 DEF Applied
  <2>2. n = Blank \/ \A p \in Owners \ {o} :
           (SameKind(o, p) /\ handle[p] # Blank) => Lower[handle[p]] # Lower[n]
    BY <1>2 DEF IsName, Wants, Clash
  <2> HIDE DEF o, n
  <2>3. DOMAIN handle' = Owners
    BY <2>1
  <2>4. \A p \in Owners : handle'[p] = IF p = o THEN n ELSE handle[p]
    BY <2>1
  <2> SUFFICES ASSUME NEW p \in Owners, NEW q \in Owners, p # q, SameKind(p, q),
                      handle'[p] # Blank, handle'[q] # Blank
               PROVE  Lower[handle'[p]] # Lower[handle'[q]]
    BY <2>3 DEF OneOwnerPerName, SameKind
  <2>5. CASE p = o
    BY <2>2, <2>4, <2>5
  <2>6. CASE q = o
    <3>1. SameKind(o, p)
      BY <2>6 DEF SameKind
    <3> QED BY <2>2, <2>4, <2>6, <3>1
  <2>7. CASE p # o /\ q # o
    BY <2>4, <2>7 DEF OneOwnerPerName
  <2> QED BY <2>5, <2>6, <2>7
<1> QED BY <1>1, <1>2

LEMMA NamesInductive ==
    ASSUME DOMAIN handle = Owners, OneOwnerPerName, [NamesNext \/ AvatarsNext]_pfVars
    PROVE  OneOwnerPerName' /\ DOMAIN handle' = Owners
<1>1. ASSUME handle' = handle PROVE OneOwnerPerName' /\ DOMAIN handle' = Owners
  BY <1>1 DEF OneOwnerPerName, SameKind
<1>2. ASSUME NEW e \in Edits, MongoUpdateUserProfile(e) \/ MemoryUpdateUserProfile(e)
      PROVE  OneOwnerPerName' /\ DOMAIN handle' = Owners
  <2>1. handle' = handle \/ (Applied(e) /\ ~(IsName(Wants(e)) /\ Clash(edit[e].owner, Wants(e))))
    BY <1>2 DEF MongoUpdateUserProfile, MemoryUpdateUserProfile, DuplicateName
  <2> QED BY <1>1, <2>1, ApplyKeepsNames
<1>3. ASSUME NEW e \in Edits, NameGuard(e) \/ FindClash(e) PROVE handle' = handle
  BY <1>3 DEF NameGuard, FindClash
<1>4. ASSUME NEW e \in Edits, NEW u \in Users, NEW update \in UserProfileUpdate, updateProfile(e, u, update)
      PROVE  handle' = handle
  BY <1>4 DEF updateProfile
<1>5. ASSUME NEW e \in Edits, NEW c \in Chans, NEW n \in Names \cup {Blank}, SetChannelAlias(e, c, n)
      PROVE  handle' = handle
  BY <1>5 DEF SetChannelAlias
<1>6. CASE AvatarsNext
  <2>1. handle' = handle
    BY <1>6 DEF AvatarsNext, uploadAvatar, deleteAvatar, uploadChannelAvatar, deleteChannelAvatar,
         PutAvatar, RemoveAvatar, ReadPrevious, MongoSetAvatar, MemorySetAvatar, SetAvatarFails,
         DeletePrevious
  <2> QED BY <1>1, <2>1
<1>7. CASE UNCHANGED pfVars
  BY <1>1, <1>7 DEF pfVars
<1> QED BY <1>1, <1>2, <1>3, <1>4, <1>5, <1>6, <1>7 DEF NamesNext

LEMMA StartKeepsAvatars ==
    ASSUME ProfilesAssumption, AvatarsInv, DOMAIN handle' = Owners, NEW p \in Uploads, NEW o \in Owners,
           PutAvatar(p, o) \/ RemoveAvatar(p, o)
    PROVE  AvatarsInv'
<1> USE DEF AvatarsInv
<1>1. put[p].pc = "idle" /\ avatar' = avatar /\ pfBlobs \subseteq pfBlobs'
  BY DEF PutAvatar, RemoveAvatar
<1>2. PICK b \in {p, NoBlob} :
         /\ put' = [put EXCEPT ![p] = [pc |-> "read", owner |-> o, blob |-> b, prev |-> NoBlob]]
         /\ b = p => p \in pfBlobs'
  BY ProfilesAssumption DEF PutAvatar, RemoveAvatar, ProfilesAssumption
<1>3. PfTypes'
  BY <1>1, <1>2 DEF PfTypes, Putting
<1>4. \A q \in Uploads : q # p => put'[q] = put[q]
  BY <1>2 DEF PfTypes
<1>5. \A q \in Uploads : IsSet(q) => q # p /\ put'[q].pc \in {"drop", "done"} /\ put'[q].owner = put[q].owner
  BY <1>1, <1>4 DEF IsSet
<1>6. /\ put'[p].pc = "read" /\ put'[p].blob = b
  BY <1>2 DEF PfTypes
<1>7. BlobsAreOwned'
  BY <1>1, <1>2, <1>4, <1>5, <1>6 DEF BlobsAreOwned, PfTypes, IsSet
<1>8. PreviousIsReplaced'
  <2> SUFFICES ASSUME NEW q \in Uploads, put'[q].pc \in {"set", "drop"}, put'[q].prev # NoBlob
               PROVE  /\ put'[put'[q].prev].pc \in {"drop", "done"} /\ put'[put'[q].prev].owner = put'[q].owner
                      /\ put'[q].pc = "drop" => \A r \in Owners : avatar'[r] # put'[q].prev
    BY DEF PreviousIsReplaced, IsSet
  <2>1. q # p /\ put'[q] = put[q] /\ put[q].prev \in Uploads
    BY <1>4, <1>6 DEF PfTypes, Putting
  <2> QED BY <1>1, <1>5, <2>1 DEF PreviousIsReplaced, IsSet
<1>9. AvatarIsThere'
  BY <1>1 DEF AvatarIsThere
<1> QED BY <1>3, <1>7, <1>8, <1>9

LEMMA ReadKeepsAvatars ==
    ASSUME ProfilesAssumption, AvatarsInv, DOMAIN handle' = Owners, NEW p \in Uploads, ReadPrevious(p)
    PROVE  AvatarsInv'
<1> USE DEF AvatarsInv
<1> DEFINE prev == avatar[put[p].owner]
<1>1. put[p].pc = "read" /\ avatar' = avatar /\ pfBlobs' = pfBlobs /\ put[p] \in Putting
  BY DEF ReadPrevious, PfTypes
<1>2. prev \in Uploads \cup {NoBlob}
  BY <1>1 DEF PfTypes, Putting
<1>3. /\ put'[p] \in Putting /\ put'[p].pc = "set" /\ put'[p].prev = prev
      /\ put'[p].owner = put[p].owner /\ put'[p].blob = put[p].blob
      /\ \A q \in Uploads : q # p => put'[q] = put[q]
      /\ DOMAIN put' = Uploads
  BY <1>1, <1>2 DEF ReadPrevious, PfTypes, Putting
<1>4. PfTypes'
  BY <1>1, <1>3 DEF PfTypes
<1>5. \A q \in Uploads : IsSet(q) => q # p /\ put'[q].pc \in {"drop", "done"} /\ put'[q].owner = put[q].owner
  BY <1>1, <1>3 DEF IsSet
<1>6. BlobsAreOwned'
  BY <1>1, <1>3, <1>5 DEF BlobsAreOwned, PfTypes, IsSet
<1>7. PreviousIsReplaced'
  <2> SUFFICES ASSUME NEW q \in Uploads, put'[q].pc \in {"set", "drop"}, put'[q].prev # NoBlob
               PROVE  /\ put'[put'[q].prev].pc \in {"drop", "done"} /\ put'[put'[q].prev].owner = put'[q].owner
                      /\ put'[q].pc = "drop" => \A r \in Owners : avatar'[r] # put'[q].prev
    BY DEF PreviousIsReplaced, IsSet
  <2>1. CASE q = p
    <3>1. put[p].owner \in Owners
      BY <1>1 DEF Putting
    <3>2. IsSet(prev) /\ put[prev].owner = put[p].owner /\ prev \in Uploads
      BY <1>2, <1>3, <2>1, <3>1 DEF BlobsAreOwned
    <3> QED BY <1>3, <1>5, <2>1, <3>2
  <2>2. CASE q # p
    <3>1. put'[q] = put[q] /\ put[q].prev \in Uploads
      BY <1>3, <2>2 DEF PfTypes, Putting
    <3> QED BY <1>1, <1>5, <3>1 DEF PreviousIsReplaced
  <2> QED BY <2>1, <2>2
<1>8. AvatarIsThere'
  BY <1>1 DEF AvatarIsThere
<1> QED BY <1>4, <1>6, <1>7, <1>8

LEMMA SetKeepsAvatars ==
    ASSUME ProfilesAssumption, AvatarsInv, DOMAIN handle' = Owners, NEW p \in Uploads,
           MongoSetAvatar(p) \/ MemorySetAvatar(p)
    PROVE  AvatarsInv'
<1> USE DEF AvatarsInv
<1> DEFINE o == put[p].owner
           prev == put'[p].prev
<1>1. /\ put[p].pc \in {"read", "set"} /\ pfBlobs' = pfBlobs /\ put[p] \in Putting
      /\ avatar' = [avatar EXCEPT ![o] = put[p].blob]
  BY DEF MongoSetAvatar, MemorySetAvatar, PfTypes
<1>2. o \in Owners /\ put[p].blob \in {p, NoBlob} /\ (put[p].blob = p => p \in pfBlobs)
  BY <1>1 DEF Putting, BlobsAreOwned
<1>3. /\ put'[p] \in Putting /\ put'[p].pc = "drop"
      /\ put'[p].owner = put[p].owner /\ put'[p].blob = put[p].blob
      /\ \A q \in Uploads : q # p => put'[q] = put[q]
      /\ DOMAIN put' = Uploads
  <2>1. avatar[o] \in Uploads \cup {NoBlob}
    BY <1>2 DEF PfTypes
  <2>2. CASE MongoSetAvatar(p)
    BY <1>1, <2>2 DEF MongoSetAvatar, PfTypes, Putting
  <2>3. CASE MemorySetAvatar(p)
    BY <1>1, <2>1, <2>3 DEF MemorySetAvatar, PfTypes, Putting
  <2> QED BY <2>2, <2>3
<1>4. prev # NoBlob => IsSet(prev) /\ put[prev].owner = o /\ prev \in Uploads
  <2>1. CASE MongoSetAvatar(p)
    <3>1. prev = put[p].prev /\ put[p].pc = "set"
      BY <1>1, <2>1 DEF MongoSetAvatar, PfTypes, Putting
    <3> QED BY <1>1, <3>1 DEF PreviousIsReplaced, Putting
  <2>2. CASE MemorySetAvatar(p)
    <3>1. prev = avatar[o]
      BY <1>1, <2>2 DEF MemorySetAvatar, PfTypes, Putting
    <3> QED BY <1>2, <3>1 DEF BlobsAreOwned, PfTypes
  <2> QED BY <2>1, <2>2
<1>5. PfTypes'
  BY <1>1, <1>2, <1>3 DEF PfTypes
<1>6. \A q \in Uploads : IsSet(q) => q # p /\ put'[q].pc \in {"drop", "done"} /\ put'[q].owner = put[q].owner
  BY <1>1, <1>3 DEF IsSet
<1>7. put'[p].pc \in {"drop", "done"}
  BY <1>3 DEF IsSet
<1>8. avatar'[o] = put[p].blob /\ \A r \in Owners : r # o => avatar'[r] = avatar[r]
  BY <1>1, <1>2 DEF PfTypes
<1>9. BlobsAreOwned'
  <2>1. \A q \in Uploads : put'[q].pc # "idle" => put'[q].blob \in {q, NoBlob}
    BY <1>2, <1>3 DEF BlobsAreOwned
  <2>2. \A q \in Uploads : (put'[q].pc \in {"read", "set"} /\ put'[q].blob = q) => q \in pfBlobs'
    BY <1>1, <1>3 DEF BlobsAreOwned
  <2>3. \A r \in Owners : avatar'[r] # NoBlob => put'[avatar'[r]].pc \in {"drop", "done"} /\ put'[avatar'[r]].owner = r
    <3> SUFFICES ASSUME NEW r \in Owners, avatar'[r] # NoBlob
                 PROVE  put'[avatar'[r]].pc \in {"drop", "done"} /\ put'[avatar'[r]].owner = r
      OBVIOUS
    <3>1. CASE r = o
      BY <1>2, <1>3, <1>7, <1>8, <3>1
    <3>2. CASE r # o
      BY <1>6, <1>8, <3>2 DEF BlobsAreOwned, PfTypes
    <3> QED BY <3>1, <3>2
  <2> QED BY <2>1, <2>2, <2>3 DEF BlobsAreOwned, IsSet
<1>10. PreviousIsReplaced'
  <2> SUFFICES ASSUME NEW q \in Uploads, put'[q].pc \in {"set", "drop"}, put'[q].prev # NoBlob
               PROVE  /\ put'[put'[q].prev].pc \in {"drop", "done"} /\ put'[put'[q].prev].owner = put'[q].owner
                      /\ put'[q].pc = "drop" => \A r \in Owners : avatar'[r] # put'[q].prev
    BY DEF PreviousIsReplaced, IsSet
  <2>1. CASE q = p
    <3>1. prev # p /\ put'[prev].pc \in {"drop", "done"} /\ put'[prev].owner = o
      BY <1>4, <1>6, <2>1
    <3>2. \A r \in Owners : r # o => avatar[r] # prev
      BY <1>4, <2>1 DEF BlobsAreOwned
    <3> QED BY <1>2, <1>3, <1>8, <2>1, <3>1, <3>2
  <2>2. CASE q # p
    <3>1. put'[q] = put[q] /\ put[q].prev \in Uploads
      BY <1>3, <2>2 DEF PfTypes, Putting
    <3>2. IsSet(put[q].prev) /\ put[put[q].prev].owner = put[q].owner
      BY <3>1 DEF PreviousIsReplaced
    <3>3. put[q].prev # p
      BY <1>6, <3>1, <3>2
    <3>4. put[q].pc = "drop" => \A r \in Owners : avatar[r] # put[q].prev
      BY <3>1 DEF PreviousIsReplaced
    <3> QED BY <1>2, <1>6, <1>8, <3>1, <3>2, <3>3, <3>4
  <2> QED BY <2>1, <2>2
<1>11. AvatarIsThere'
  BY <1>1, <1>2, <1>8 DEF AvatarIsThere
<1> QED BY <1>5, <1>9, <1>10, <1>11

LEMMA EndKeepsAvatars ==
    ASSUME ProfilesAssumption, AvatarsInv, DOMAIN handle' = Owners, NEW p \in Uploads,
           NEW fails \in BOOLEAN, DeletePrevious(p, fails) \/ SetAvatarFails(p)
    PROVE  AvatarsInv'
<1> USE DEF AvatarsInv
<1>1. put[p].pc # "idle" /\ avatar' = avatar /\ put' = [put EXCEPT ![p].pc = "done"] /\ put[p] \in Putting
  BY DEF DeletePrevious, SetAvatarFails, PfTypes
<1>2. /\ put'[p] \in Putting /\ put'[p].pc = "done"
      /\ put'[p].owner = put[p].owner /\ put'[p].blob = put[p].blob
      /\ \A q \in Uploads : q # p => put'[q] = put[q]
      /\ DOMAIN put' = Uploads
  BY <1>1 DEF PfTypes, Putting
<1>3. \/ pfBlobs' = pfBlobs
      \/ pfBlobs' = pfBlobs \ {put[p].prev} /\ put[p].pc = "drop"
  BY DEF DeletePrevious, SetAvatarFails
<1>4. \A b \in pfBlobs : b \in Uploads /\ b \notin pfBlobs' =>
         IsSet(b) /\ \A o \in Owners : avatar[o] # b
  BY <1>3, ProfilesAssumption DEF PreviousIsReplaced, ProfilesAssumption
<1>5. PfTypes'
  BY <1>1, <1>2 DEF PfTypes
<1>6. \A q \in Uploads : IsSet(q) => put'[q].pc \in {"drop", "done"} /\ put'[q].owner = put[q].owner
  BY <1>2 DEF IsSet
<1>7. BlobsAreOwned'
  <2>1. \A q \in Uploads : put'[q].pc # "idle" => put'[q].blob \in {q, NoBlob}
    BY <1>1, <1>2 DEF BlobsAreOwned
  <2>2. \A q \in Uploads : (put'[q].pc \in {"read", "set"} /\ put'[q].blob = q) => q \in pfBlobs'
    BY <1>2, <1>4 DEF BlobsAreOwned, IsSet
  <2>3. \A r \in Owners : avatar'[r] # NoBlob => put'[avatar'[r]].pc \in {"drop", "done"} /\ put'[avatar'[r]].owner = r
    BY <1>1, <1>6 DEF BlobsAreOwned, PfTypes
  <2> QED BY <2>1, <2>2, <2>3 DEF BlobsAreOwned, IsSet
<1>8. PreviousIsReplaced'
  <2> SUFFICES ASSUME NEW q \in Uploads, put'[q].pc \in {"set", "drop"}, put'[q].prev # NoBlob
               PROVE  /\ put'[put'[q].prev].pc \in {"drop", "done"} /\ put'[put'[q].prev].owner = put'[q].owner
                      /\ put'[q].pc = "drop" => \A r \in Owners : avatar'[r] # put'[q].prev
    BY DEF PreviousIsReplaced, IsSet
  <2>1. put'[q] = put[q] /\ put[q].prev \in Uploads
    BY <1>2 DEF PfTypes, Putting
  <2> QED BY <1>1, <1>6, <2>1 DEF PreviousIsReplaced, IsSet
<1>9. AvatarIsThere'
  BY <1>1, <1>4 DEF AvatarIsThere, PfTypes
<1> QED BY <1>5, <1>7, <1>8, <1>9

LEMMA AvatarsInductive ==
    ASSUME ProfilesAssumption, AvatarsInv, OneOwnerPerName, [NamesNext \/ AvatarsNext]_pfVars
    PROVE  AvatarsInv'
<1>1. DOMAIN handle' = Owners
  BY NamesInductive DEF AvatarsInv, PfTypes
<1>2. ASSUME UNCHANGED <<avatar, pfBlobs, put>> PROVE AvatarsInv'
  BY <1>1, <1>2 DEF AvatarsInv, PfTypes, BlobsAreOwned, PreviousIsReplaced, IsSet, AvatarIsThere
<1>3. CASE NamesNext \/ UNCHANGED pfVars
  <2>1. UNCHANGED <<avatar, pfBlobs, put>>
    BY <1>3 DEF NamesNext, updateProfile, SetChannelAlias, NameGuard, FindClash,
         MongoUpdateUserProfile, MemoryUpdateUserProfile, pfVars
  <2> QED BY <1>2, <2>1
<1>4. CASE AvatarsNext
  <2>1. ASSUME NEW p \in Uploads, SetAvatarFails(p) PROVE AvatarsInv'
    <3>1. TRUE \in BOOLEAN
      OBVIOUS
    <3> QED BY <1>1, <2>1, <3>1, EndKeepsAvatars
  <2> QED BY <1>1, <1>4, <2>1, StartKeepsAvatars, ReadKeepsAvatars, SetKeepsAvatars, EndKeepsAvatars
          DEF AvatarsNext, uploadAvatar, deleteAvatar, uploadChannelAvatar, deleteChannelAvatar
<1> QED BY <1>3, <1>4

\* However the edits of any number of tabs and accounts, the uploads and the removals interleave
\* or fail, a name has one owner and the avatar a row names is in the blob store.
THEOREM NameAndAvatarHold == ASSUME ProfilesAssumption PROVE PfSpec => []ProfileIsItsOwn
<1> DEFINE Inv == OneOwnerPerName /\ AvatarsInv
<1>1. PfInit => Inv
  <2> SUFFICES ASSUME PfInit PROVE Inv
    OBVIOUS
  <2>1. PfTypes
    BY DEF PfInit, PfTypes
  <2>2. OneOwnerPerName
    BY DEF PfInit, OneOwnerPerName
  <2>3. \A p \in Uploads : put[p].pc = "idle"
    BY DEF PfInit
  <2>4. \A o \in Owners : avatar[o] = NoBlob
    BY DEF PfInit
  <2> QED BY <2>1, <2>2, <2>3, <2>4 DEF AvatarsInv, BlobsAreOwned, PreviousIsReplaced, AvatarIsThere
<1>2. Inv /\ [NamesNext \/ AvatarsNext]_pfVars => Inv'
  BY NamesInductive, AvatarsInductive DEF AvatarsInv, PfTypes
<1>3. Inv => ProfileIsItsOwn
  BY DEF ProfileIsItsOwn, AvatarsInv
<1> QED BY <1>1, <1>2, <1>3, PTL DEF PfSpec

(***************************************************************************)
(* The key backup                                                          *)
(***************************************************************************)
Backup == MLSKeyBackup \cup {NoBackup}
UploadRow == [pc : {"idle", "export", "get", "guard", "put", "archive", "truncate"},
              through : Nat, bodies : SUBSET Bodies, whole : BOOLEAN, force : BOOLEAN, prev : Backup]

KbTypes ==
    /\ clock \in 0 .. MaxClock /\ uploads \in 0 .. MaxUploads
    /\ cache \subseteq Bodies /\ pending \subseteq Bodies
    /\ live \in Backup /\ tail \in MLSKeyBackupTailEntry
    /\ upload \in UploadRow /\ upload.through <= clock
    /\ ~At("idle") => uploads # 0

\* Once the record is written, it names this upload and its blob is there.
UploadInv ==
    upload.pc \in {"archive", "truncate"} =>
        live # NoBackup /\ live.bodies = upload.bodies /\ live.blob = uploads /\ uploads \in blobs

\* An upload of a device that held all that is kept carries it, except what is appended
\* after its stamp; and so does any upload once its record is written, of what is left.
Covers == upload.pc \in {"archive", "truncate"} \/ (upload.pc \in {"get", "guard", "put"} /\ upload.whole)
CoverInv == Covers => backedUp \ taken \subseteq upload.bodies \cup Late
KeptInv == backedUp \ taken \subseteq Restorable

KbInv == KbTypes /\ UploadInv /\ CoverInv /\ KeptInv

LEMMA UploadAdvances ==
    ASSUME KbTypes, NEW pc \in {"idle", "export", "get", "guard", "put", "archive", "truncate"}, Goto(pc)
    PROVE  /\ upload' \in UploadRow /\ upload'.pc = pc /\ upload'.through = upload.through
           /\ upload'.bodies = upload.bodies /\ upload'.whole = upload.whole
BY DEF KbTypes, Goto, UploadRow

LEMMA RestingUpload ==
    ASSUME KeyBackupAssumption
    PROVE  Resting \in UploadRow /\ Resting.pc = "idle" /\ Resting.through = 0
BY DEF Resting, UploadRow, Backup

\* Reading, restoring, unlocking and starting over change only the device.
LEMMA DeviceKeepsKb ==
    ASSUME KeyBackupAssumption, KbInv,
           \/ KbTick \/ Reload \/ Reinstall \/ unlockBackupWithCode \/ UNCHANGED kbVars
           \/ \E got \in {Restorable, Opens(live), InTail, {}} : Restore(got)
           \/ \E b \in Bodies : appendBodyToTail(b)
    PROVE  KbInv'
<1> USE DEF KbInv
<1>1. UNCHANGED <<live, blobs, tail, upload, uploads, backedUp, taken>>
  BY DEF KbTick, Reload, Reinstall, unlockBackupWithCode, Restore, appendBodyToTail, kbVars, kbDevice, kbServer, kbGhosts
<1>2. Restorable \subseteq Bodies /\ Opens(live) \subseteq Bodies /\ InTail \subseteq Bodies
  BY DEF Restorable, Opens, InTail, KbTypes, Backup, MLSKeyBackup
<1>3. clock' \in 0 .. MaxClock /\ clock <= clock'
  BY DEF KbTick, Reload, Reinstall, unlockBackupWithCode, Restore, appendBodyToTail, kbVars, KbTypes, KeyBackupAssumption
<1>4. cache' \subseteq Bodies /\ pending' \subseteq Bodies
  <2>1. CASE \E b \in Bodies : appendBodyToTail(b)
    BY <2>1 DEF appendBodyToTail, KbTypes
  <2>2. CASE \E got \in {Restorable, Opens(live), InTail, {}} : Restore(got)
    BY <1>2, <2>2 DEF Restore, KbTypes
  <2>3. CASE KbTick \/ Reload \/ Reinstall \/ unlockBackupWithCode \/ UNCHANGED kbVars
    BY <2>3 DEF KbTick, Reload, Reinstall, unlockBackupWithCode, kbVars, kbDevice, KbTypes
  <2> QED BY <2>1, <2>2, <2>3
<1>5. InTail' = InTail /\ Late' = Late /\ Restorable' = Restorable /\ (Covers' <=> Covers)
  BY <1>1 DEF InTail, Late, Restorable, Opens, Covers
<1>6. KbTypes'
  BY <1>1, <1>3, <1>4 DEF KbTypes, At, UploadRow
<1> QED BY <1>1, <1>5, <1>6 DEF UploadInv, CoverInv, KeptInv

\* An append reaches the tail no earlier than the stamp of the upload under way.
LEMMA AppendKeepsKb ==
    ASSUME KeyBackupAssumption, KbInv, NEW written \in SUBSET pending, appendKeyBackupTail(written)
    PROVE  KbInv'
<1> USE DEF KbInv
<1>1. /\ UNCHANGED <<clock, cache, live, blobs, upload, uploads>>
      /\ pending' \subseteq pending /\ tail' = AppendTail(written)
      /\ backedUp' \ taken' \subseteq (backedUp \ taken) \cup written
  BY DEF appendKeyBackupTail
<1>2. clock \in Nat /\ clock # Never /\ clock \in 0 .. MaxClock + 1
  BY DEF KbTypes, Never, KeyBackupAssumption
<1>3. /\ \A b \in Bodies : tail'[b] = IF b \in written THEN clock ELSE tail[b]
      /\ tail' \in MLSKeyBackupTailEntry
  BY <1>1, <1>2 DEF AppendTail, KbTypes, MLSKeyBackupTailEntry
<1>4. written \subseteq Bodies /\ upload.through <= clock /\ upload.through \in Nat
  BY DEF KbTypes, UploadRow
<1>5. InTail' = InTail \cup written
  BY <1>2, <1>3, <1>4 DEF InTail
<1>6. Late \cup written \subseteq Late'
  <2>1. InTail \subseteq Bodies
    BY DEF InTail
  <2>2. \A b \in Late \cup written : tail'[b] >= upload.through
    BY <1>2, <1>3, <1>4, <2>1 DEF Late
  <2> QED BY <1>1, <1>5, <2>2 DEF Late
<1>7. Restorable \cup written \subseteq Restorable' /\ (Covers' <=> Covers)
  BY <1>1, <1>5 DEF Restorable, Opens, Covers
<1>8. KbTypes'
  BY <1>1, <1>3 DEF KbTypes, At, UploadRow
<1>9. UploadInv'
  BY <1>1 DEF UploadInv
<1>10. CoverInv' /\ KeptInv'
  BY <1>1, <1>6, <1>7 DEF CoverInv, KeptInv
<1> QED BY <1>8, <1>9, <1>10

\* The upload rests, or a new one begins: it covers nothing yet.
LEMMA RestKeepsKb ==
    ASSUME KeyBackupAssumption, KbInv, UploadFails \/ \E force \in BOOLEAN : backupKeys(force)
    PROVE  KbInv'
<1> USE DEF KbInv
<1>1. UNCHANGED <<clock, cache, pending, live, blobs, tail, backedUp, taken>>
  BY DEF UploadFails, backupKeys, kbServer, kbGhosts, kbDevice
<1>2. /\ upload' \in UploadRow /\ upload'.through <= clock /\ upload'.pc \in {"idle", "export"}
      /\ uploads' \in 0 .. MaxUploads /\ (upload'.pc # "idle" => uploads' # 0)
  <2>1. CASE UploadFails
    BY <2>1, RestingUpload DEF UploadFails, KbTypes
  <2>2. ASSUME NEW force \in BOOLEAN, backupKeys(force)
        PROVE  /\ upload' \in UploadRow /\ upload'.through <= clock /\ upload'.pc \in {"idle", "export"}
               /\ uploads' \in 0 .. MaxUploads /\ (upload'.pc # "idle" => uploads' # 0)
    <3>1. upload' = [upload EXCEPT !.pc = "export", !.through = clock, !.force = force]
      BY <2>2 DEF backupKeys
    <3>2. clock \in Nat
      BY DEF KbTypes
    <3>3. upload' \in UploadRow /\ upload'.through = clock /\ upload'.pc = "export"
      BY <3>1, <3>2 DEF KbTypes, UploadRow
    <3>4. uploads' = uploads + 1 /\ uploads < MaxUploads
      BY <2>2 DEF backupKeys
    <3> QED BY <3>2, <3>3, <3>4 DEF KbTypes, KeyBackupAssumption
  <2> QED BY <2>1, <2>2
<1>3. Restorable' = Restorable /\ ~Covers'
  BY <1>1, <1>2 DEF InTail, Restorable, Opens, Covers
<1>4. KbTypes'
  BY <1>1, <1>2 DEF KbTypes, At
<1> QED BY <1>1, <1>2, <1>3, <1>4 DEF UploadInv, CoverInv, KeptInv

\* The cache is read after the stamp, and what the device is whole of is in the upload.
LEMMA ExportKeepsKb ==
    ASSUME KeyBackupAssumption, KbInv, NEW held \in {cache, {}}, exportAllContents(held)
    PROVE  KbInv'
<1> USE DEF KbInv
<1>1. UNCHANGED <<clock, cache, pending, live, blobs, tail, uploads, backedUp, taken>> /\ ~At("idle")
  BY DEF exportAllContents, kbDevice, kbServer, kbGhosts, At
<1>2. PICK w \in BOOLEAN : w = (backedUp \ taken \subseteq held)
  OBVIOUS
<1>3. upload' = [upload EXCEPT !.pc = "get", !.bodies = held, !.whole = w]
  BY <1>2 DEF exportAllContents
<1>4. /\ upload' \in UploadRow /\ upload'.through = upload.through /\ upload'.pc = "get"
      /\ upload'.bodies = held /\ upload'.whole = w
  BY <1>3 DEF KbTypes, UploadRow
<1>5. Restorable' = Restorable
  BY <1>1 DEF InTail, Restorable, Opens
<1>6. KbTypes'
  BY <1>1, <1>4 DEF KbTypes, At
<1>7. CoverInv'
  BY <1>1, <1>2, <1>4 DEF CoverInv, Covers
<1> QED BY <1>1, <1>4, <1>5, <1>6, <1>7 DEF UploadInv, KeptInv

\* Reading the stored backup, or failing to, and the guard: the upload goes on as it was, or
\* is refused.
LEMMA GuardKeepsKb ==
    ASSUME KeyBackupAssumption, KbInv, GetKeyBackup \/ GetKeyBackupFails \/ CountKeyBackupTail
    PROVE  KbInv'
<1> USE DEF KbInv
<1>1. /\ UNCHANGED <<clock, cache, pending, live, blobs, tail, uploads, backedUp, taken>>
      /\ upload.pc \in {"get", "guard"}
  BY DEF GetKeyBackup, GetKeyBackupFails, CountKeyBackupTail, kbDevice, kbServer, kbGhosts, At
<1>2. \/ /\ upload' \in UploadRow /\ upload'.pc \in {"guard", "put"} /\ upload'.through = upload.through
         /\ upload'.bodies = upload.bodies /\ upload'.whole = upload.whole
      \/ upload' = Resting
  <2>1. CASE GetKeyBackup \/ GetKeyBackupFails
    <3>1. PICK prev \in Backup : upload' = [upload EXCEPT !.pc = "guard", !.prev = prev]
      BY <2>1 DEF GetKeyBackup, GetKeyBackupFails, KbTypes, Backup
    <3> QED BY <3>1 DEF KbTypes, UploadRow
  <2>2. CASE CountKeyBackupTail
    BY <2>2, UploadAdvances DEF CountKeyBackupTail
  <2> QED BY <2>1, <2>2
<1>3. InTail' = InTail /\ Restorable' = Restorable
  BY <1>1 DEF InTail, Restorable, Opens
<1>4. upload' \in UploadRow /\ upload'.through <= clock /\ upload'.pc \in {"idle", "guard", "put"}
  BY <1>2, RestingUpload DEF KbTypes
<1>5. KbTypes'
  BY <1>1, <1>4 DEF KbTypes, At
<1>6. CoverInv'
  <2>1. CASE upload' = Resting
    BY <2>1, RestingUpload DEF CoverInv, Covers
  <2>2. CASE upload' # Resting
    <3>1. Late' = Late /\ (Covers' => Covers)
      BY <1>1, <1>2, <1>3, <2>2 DEF Late, Covers
    <3> QED BY <1>1, <1>2, <2>2, <3>1 DEF CoverInv
  <2> QED BY <2>1, <2>2
<1> QED BY <1>1, <1>3, <1>4, <1>5, <1>6 DEF UploadInv, KeptInv

LEMMA RecordIs ==
    ASSUME KeyBackupAssumption, KbTypes, ~At("idle")
    PROVE  /\ Record \in MLSKeyBackup /\ Record # NoBackup
           /\ Record.bodies = upload.bodies /\ Record.blob = uploads
<1>1. upload.bodies \subseteq Bodies /\ uploads \in 1 .. MaxUploads
  BY DEF KbTypes, UploadRow
<1>2. IsFiniteSet(upload.bodies) /\ Cardinality(upload.bodies) <= Cardinality(Bodies)
  BY <1>1, FS_Subset DEF KeyBackupAssumption
<1>3. Cardinality(upload.bodies) \in Nat /\ Cardinality(Bodies) \in Nat
  BY <1>2, FS_CardinalityType DEF KeyBackupAssumption
<1>4. Record \in MLSKeyBackup
  BY <1>1, <1>2, <1>3 DEF Record, MLSKeyBackup
<1> QED BY <1>4 DEF Record, KeyBackupAssumption

\* The record is stored: what is left of what is kept is in it or appended since its stamp.
LEMMA PutKeepsKb ==
    ASSUME KeyBackupAssumption, KbInv, PutKeyBackup
    PROVE  KbInv'
<1> USE DEF KbInv
<1> DEFINE held == upload.bodies
<1>1. /\ UNCHANGED <<clock, cache, pending, tail, uploads>>
      /\ upload.pc = "put" /\ Goto("archive") /\ uploads \in blobs' /\ live' = Record
      /\ backedUp' = backedUp \cup held
      /\ taken' = (taken \cup IF upload.whole THEN {} ELSE backedUp \ Late) \ held
  BY DEF PutKeyBackup, kbDevice, At
<1>2. /\ upload' \in UploadRow /\ upload'.pc = "archive" /\ upload'.through = upload.through
      /\ upload'.bodies = held
  BY <1>1, UploadAdvances
<1>3. live' \in MLSKeyBackup /\ live' # NoBackup /\ live'.bodies = held /\ live'.blob = uploads
  BY <1>1, RecordIs DEF At
<1>4. InTail' = InTail /\ Late' = Late /\ Restorable' = held \cup InTail
  BY <1>1, <1>2, <1>3 DEF InTail, Late, Restorable, Opens
<1>5. backedUp' \ taken' \subseteq held \cup Late
  <2>1. CASE upload.whole
    BY <1>1, <2>1 DEF CoverInv, Covers
  <2>2. CASE ~upload.whole
    BY <1>1, <2>2
  <2> QED BY <2>1, <2>2
<1>6. KbTypes'
  BY <1>1, <1>2, <1>3 DEF KbTypes, At, Backup
<1>7. UploadInv'
  BY <1>1, <1>2, <1>3 DEF UploadInv
<1>8. CoverInv'
  BY <1>2, <1>4, <1>5 DEF CoverInv
<1>9. KeptInv'
  BY <1>4, <1>5 DEF KeptInv, Late
<1> QED BY <1>6, <1>7, <1>8, <1>9

\* The record is stored and its blobs are not: the tail is what is left.
LEMMA UnansweredKeepsKb ==
    ASSUME KeyBackupAssumption, KbInv, PutKeyBackupUnanswered
    PROVE  KbInv'
<1> USE DEF KbInv
<1>1. /\ UNCHANGED <<clock, cache, pending, tail, uploads, backedUp>>
      /\ upload.pc = "put" /\ upload' = Resting /\ live' = Record
      /\ taken' = taken \cup (backedUp \ InTail)
  BY DEF PutKeyBackupUnanswered, kbDevice, At
<1>2. upload' \in UploadRow /\ upload'.pc = "idle" /\ upload'.through = 0
  BY <1>1, RestingUpload
<1>3. live' \in Backup
  BY <1>1, RecordIs DEF At, Backup
<1>4. InTail' = InTail /\ InTail' \subseteq Restorable'
  BY <1>1 DEF InTail, Restorable
<1>5. KbTypes'
  BY <1>1, <1>2, <1>3 DEF KbTypes, At
<1>6. UploadInv' /\ CoverInv'
  BY <1>2 DEF UploadInv, CoverInv, Covers
<1>7. KeptInv'
  BY <1>1, <1>4 DEF KeptInv
<1> QED BY <1>5, <1>6, <1>7

\* The archive prunes blobs of superseded versions, never the one just stored.
LEMMA ArchiveKeepsKb ==
    ASSUME KeyBackupAssumption, KbInv, ArchiveKeyBackup \/ SkipArchive
    PROVE  KbInv'
<1> USE DEF KbInv
<1>1. /\ UNCHANGED <<clock, cache, pending, live, tail, uploads, backedUp, taken>>
      /\ upload.pc = "archive" /\ Goto("truncate")
      /\ uploads \in blobs => uploads \in blobs'
  BY DEF ArchiveKeyBackup, SkipArchive, kbDevice, kbServer, kbGhosts, At
<1>2. /\ upload' \in UploadRow /\ upload'.pc = "truncate" /\ upload'.through = upload.through
      /\ upload'.bodies = upload.bodies
  BY <1>1, UploadAdvances
<1>3. live # NoBackup /\ live.bodies = upload.bodies /\ live.blob = uploads /\ uploads \in blobs /\ uploads \in blobs'
  BY <1>1 DEF UploadInv
<1>4. InTail' = InTail /\ Late' = Late /\ Restorable' = Restorable
  BY <1>1, <1>2, <1>3 DEF InTail, Late, Restorable, Opens
<1>5. KbTypes'
  BY <1>1, <1>2 DEF KbTypes, At
<1>6. UploadInv'
  BY <1>1, <1>2, <1>3 DEF UploadInv
<1>7. CoverInv' /\ KeptInv'
  BY <1>1, <1>2, <1>4 DEF CoverInv, Covers, KeptInv
<1> QED BY <1>5, <1>6, <1>7

\* What goes from the tail is in the snapshot.
LEMMA TruncateKeepsKb ==
    ASSUME KeyBackupAssumption, KbInv, NEW fails \in BOOLEAN, TruncateKeyBackupTail(fails)
    PROVE  KbInv'
<1> USE DEF KbInv
<1>1. /\ UNCHANGED <<clock, cache, pending, live, blobs, uploads, backedUp, taken>>
      /\ upload.pc = "truncate" /\ upload' = Resting
      /\ tail' = tail \/ tail' = Truncated(upload.through)
  BY DEF TruncateKeyBackupTail, kbGhosts, At
<1>2. upload' \in UploadRow /\ upload'.pc = "idle" /\ upload'.through = 0
  BY <1>1, RestingUpload
<1>3. /\ live # NoBackup /\ live.bodies = upload.bodies /\ live.blob \in blobs
      /\ backedUp \ taken \subseteq upload.bodies \cup Late
  BY <1>1 DEF UploadInv, CoverInv, Covers
<1>4. /\ tail' \in MLSKeyBackupTailEntry
      /\ \A b \in Bodies : tail[b] >= upload.through => tail'[b] = tail[b]
  <2>1. \A b \in Bodies : tail[b] \in 0 .. MaxClock + 1
    BY DEF KbTypes, MLSKeyBackupTailEntry
  <2>2. upload.through \in Nat /\ Never \in 0 .. MaxClock + 1
    BY DEF KbTypes, UploadRow, Never, KeyBackupAssumption
  <2>3. CASE tail' = tail
    BY <2>3 DEF KbTypes
  <2>4. CASE tail' = Truncated(upload.through)
    BY <2>1, <2>2, <2>4 DEF Truncated, MLSKeyBackupTailEntry
  <2> QED BY <1>1, <2>3, <2>4
<1>5. Late \subseteq InTail'
  BY <1>4 DEF Late, InTail
<1>6. KbTypes'
  BY <1>1, <1>2, <1>4 DEF KbTypes, At
<1>7. UploadInv' /\ CoverInv'
  BY <1>2 DEF UploadInv, CoverInv, Covers
<1>8. KeptInv'
  BY <1>1, <1>3, <1>5 DEF KeptInv, Restorable, Opens
<1> QED BY <1>6, <1>7, <1>8

LEMMA KbStarts == ASSUME KeyBackupAssumption, KbInit PROVE KbInv
<1>1. upload \in UploadRow /\ upload.pc = "idle" /\ upload.through = 0
  BY RestingUpload DEF KbInit
<1>2. tail \in MLSKeyBackupTailEntry
  BY DEF KbInit, MLSKeyBackupTailEntry, Never, KeyBackupAssumption
<1>3. clock \in 0 .. MaxClock /\ uploads \in 0 .. MaxUploads /\ upload.through <= clock
  BY <1>1 DEF KbInit, KeyBackupAssumption
<1>4. live \in Backup /\ cache = {} /\ pending = {} /\ backedUp = {}
  BY DEF KbInit, Backup
<1> QED BY <1>1, <1>2, <1>3, <1>4 DEF KbInv, KbTypes, UploadInv, CoverInv, Covers, KeptInv, At

\* Whatever the appends race with, wherever an upload stops, whatever of it fails, a read of
\* the stored backup included, and however often the device starts from nothing, the bodies
\* the server said it keeps are in the snapshot or the tail; the superseded versions are not
\* needed.  A body goes only with an upload of a device that did not hold it, or with a
\* record written and reported as failed (backupKeys, putKeyBackup, appendKeyBackupTail).
THEOREM HistoryIsKept == ASSUME KeyBackupAssumption PROVE KbSpec => []BackedUpIsKept
<1>1. KbInit => KbInv
  BY KbStarts
<1>2. KbInv /\ [KbNext]_kbVars => KbInv'
  BY DeviceKeepsKb, AppendKeepsKb, RestKeepsKb, ExportKeepsKb, GuardKeepsKb, PutKeepsKb,
     UnansweredKeepsKb, ArchiveKeepsKb, TruncateKeepsKb DEF KbNext
<1>3. KbInv => BackedUpIsKept
  BY DEF KbInv, KeptInv, BackedUpIsKept
<1> QED BY <1>1, <1>2, <1>3, PTL DEF KbSpec
=============================================================================
