----------------------------- MODULE KeyPackages -----------------------------
(***************************************************************************)
(* The KeyPackage directory and the device registry of one user: a device  *)
(* publishes single-use KeyPackages and one last-resort KeyPackage, other  *)
(* members and peer hosts claim them, the user terminates a device, and    *)
(* co-members read which devices exist and which are terminated.           *)
(*                                                                         *)
(*   tab        has -> add -> upsert                                       *)
(*   claimer    one device after another: take -> fall back                *)
(*   terminator list -> tombstone -> delete                                *)
(*   lister     packages -> tombstones                                     *)
(***************************************************************************)
EXTENDS Naturals, FiniteSets

CONSTANTS Devices, Tabs, Claimers,
          MaxBatch,   \* single-use packages in one batch
          kpStores    \* which of the two stores runs: "mongo", "memory"

\* Any number of devices, tabs and claimers.
KeyPackagesAssumption == MaxBatch \in Nat

VARIABLES kpStore,     \* the store of this run
          packages,    \* single-use packages stored
          lastResort,  \* device -> last-resort packages stored
          registry,    \* device -> "absent", "live" or "revoked"
          tab,         \* tab -> where publishKeyPackages is, for which device
          claimer,     \* claimer -> where its claim is
          terminator,  \* where terminateDevice is
          lister,      \* where listDevices is, with what it has read
          handed,      \* ghost: claims answered with a single-use package
          offered      \* ghost: devices whose last-resort package was stored

kpDirectory == <<packages, lastResort, registry>>
kpVars == <<kpStore, kpDirectory, tab, claimer, terminator, lister, handed, offered>>

MLSKeyPackage == [device : Devices, id : Tabs \X (1 .. MaxBatch)]
MLSDevice == {"absent", "live", "revoked"}

KpInit ==
    /\ kpStore \in kpStores
    /\ packages = {} /\ lastResort = [d \in Devices |-> 0] /\ registry = [d \in Devices |-> "absent"]
    /\ tab \in [Tabs -> [pc : {"idle"}, device : Devices, resort : {FALSE}]]
    /\ claimer = [c \in Claimers |-> [pc |-> "idle", todo |-> {}, got |-> {}]]
    /\ terminator \in [pc : {"idle"}, device : Devices]
    /\ lister = [pc |-> "idle", devices |-> {}, revoked |-> {}, due |-> {}]
    /\ handed = {} /\ offered = {}

OfDevice(d) == {p \in packages : p.device = d}
HasLastResortKeyPackage(d) == lastResort[d] > 0
DevicesWithKeyPackages == {d \in Devices : OfDevice(d) # {} \/ HasLastResortKeyPackage(d)}
RevokedDeviceIDs == {d \in Devices : registry[d] = "revoked"}

(***************************************************************************)
(* publishKeyPackages: one handler per open tab of a device.               *)
(***************************************************************************)
publishKeyPackages(t, resort) ==
    /\ tab[t].pc = "idle"
    /\ tab' = [tab EXCEPT ![t].pc = "add",
                          ![t].resort = resort /\ ~HasLastResortKeyPackage(tab[t].device)]
    /\ UNCHANGED <<kpStore, kpDirectory, claimer, terminator, lister, handed, offered>>

\* The partial unique index drops the second last-resort package of a device and keeps the
\* rest of the batch; the memory store looks for it under its lock.
AddKeyPackages(t, n) ==
    LET d == tab[t].device
    IN  /\ tab[t].pc = "add" /\ (n > 0 \/ tab[t].resort)
        /\ packages' = packages \cup {[device |-> d, id |-> <<t, i>>] : i \in 1 .. n}
        /\ lastResort' = [lastResort EXCEPT ![d] = IF tab[t].resort THEN 1 ELSE @]
        /\ offered' = IF tab[t].resort THEN offered \cup {d} ELSE offered
        /\ tab' = [tab EXCEPT ![t].pc = "upsert"]
        /\ UNCHANGED <<kpStore, registry, claimer, terminator, lister, handed>>

\* The row of a device is made or refreshed; a tombstone stays what it is.
Upserted(d) == [registry EXCEPT ![d] = IF @ = "absent" THEN "live" ELSE @]

UpsertMLSDevice(t) ==
    /\ tab[t].pc = "upsert"
    /\ registry' = Upserted(tab[t].device)
    /\ tab' = [tab EXCEPT ![t].pc = "done"]
    /\ UNCHANGED <<kpStore, packages, lastResort, claimer, terminator, lister, handed, offered>>

\* registerDevice writes the same row without publishing anything.
registerDevice(d) ==
    /\ registry[d] = "absent"
    /\ registry' = Upserted(d)
    /\ UNCHANGED <<kpStore, packages, lastResort, tab, claimer, terminator, lister, handed, offered>>

(***************************************************************************)
(* claimKeyPackages, for the devices the caller names, or for all devices  *)
(* of the user when a peer host claims.                                    *)
(***************************************************************************)
claimKeyPackages(c, ds) ==
    /\ claimer[c].pc = "idle" /\ ds # {}
    /\ claimer' = [claimer EXCEPT ![c].pc = "take", ![c].todo = ds]
    /\ UNCHANGED <<kpStore, kpDirectory, tab, terminator, lister, handed, offered>>

claimForPeer(c) == claimKeyPackages(c, DevicesWithKeyPackages)

Answered(c, d, got) ==
    [claimer EXCEPT ![c] = [pc |-> IF @.todo = {d} THEN "done" ELSE "take",
                            todo |-> @.todo \ {d}, got |-> @.got \cup got]]

\* Mutant: the package is read and not deleted.
FindOneAndKeep(c, d) ==
    /\ claimer[c].pc = "take" /\ d \in claimer[c].todo
    /\ \E p \in OfDevice(d) :
          /\ handed' = handed \cup {[by |-> c, package |-> p]}
          /\ claimer' = Answered(c, d, {"single"})
    /\ UNCHANGED <<kpStore, packages, lastResort, registry, tab, terminator, lister, offered>>

\* FindOneAndDelete of a package that is not the last-resort one.
MongoClaimSingle(c, d) ==
    /\ claimer[c].pc = "take" /\ d \in claimer[c].todo
    /\ \E p \in OfDevice(d) :
          /\ packages' = packages \ {p}
          /\ handed' = handed \cup {[by |-> c, package |-> p]}
          /\ claimer' = Answered(c, d, {"single"})
    /\ UNCHANGED <<kpStore, lastResort, registry, tab, terminator, lister, offered>>

\* It found none: the last-resort package is looked up in a second call, or, in the memory
\* store, under the lock that is still held.
MongoClaimExhausted(c, d) ==
    /\ kpStore = "mongo" /\ claimer[c].pc = "take"
    /\ d \in claimer[c].todo /\ OfDevice(d) = {}
    /\ claimer' = [claimer EXCEPT ![c].pc = "fallback"]
    /\ UNCHANGED <<kpStore, kpDirectory, tab, terminator, lister, handed, offered>>

ClaimLastResort(c, d) ==
    /\ d \in claimer[c].todo
    /\ claimer' = Answered(c, d, IF HasLastResortKeyPackage(d) THEN {"resort"} ELSE {})
    /\ UNCHANGED <<kpStore, kpDirectory, tab, terminator, lister, handed, offered>>

MongoClaimLastResort(c, d) == claimer[c].pc = "fallback" /\ ClaimLastResort(c, d)

MemoryClaimKeyPackage(c, d) ==
    /\ kpStore = "memory" /\ claimer[c].pc = "take" /\ OfDevice(d) = {}
    /\ ClaimLastResort(c, d)

(***************************************************************************)
(* terminateDevice: the tombstone, then the packages; the session and the  *)
(* push addresses that follow are in Sessions and PushAddresses.  A call   *)
(* that errs ends the request where it is.                                 *)
(***************************************************************************)
terminateDevice(d) ==
    /\ terminator = [pc |-> "idle", device |-> d] /\ registry[d] # "absent"
    /\ terminator' = [terminator EXCEPT !.pc = "tombstone"]
    /\ UNCHANGED <<kpStore, kpDirectory, tab, claimer, lister, handed, offered>>

RevokeMLSDevice(d) ==
    /\ terminator.pc = "tombstone" /\ terminator.device = d
    /\ registry' = [registry EXCEPT ![d] = "revoked"]
    /\ terminator' = [terminator EXCEPT !.pc = "delete"]
    /\ UNCHANGED <<kpStore, packages, lastResort, tab, claimer, lister, handed, offered>>

\* Mutant: no tombstone: the packages go and the device stays listed.
DeletePackagesFirst(d) ==
    /\ terminator.pc \in {"tombstone", "delete"} /\ terminator.device = d
    /\ packages' = packages \ OfDevice(d) /\ lastResort' = [lastResort EXCEPT ![d] = 0]
    /\ terminator' = [terminator EXCEPT !.pc = IF @ = "delete" THEN "done" ELSE @]
    /\ UNCHANGED <<kpStore, registry, tab, claimer, lister, handed, offered>>

DeleteKeyPackages(d) ==
    /\ terminator.pc = "delete" /\ terminator.device = d
    /\ packages' = packages \ OfDevice(d) /\ lastResort' = [lastResort EXCEPT ![d] = 0]
    /\ terminator' = [terminator EXCEPT !.pc = "done"]
    /\ UNCHANGED <<kpStore, registry, tab, claimer, lister, handed, offered>>

TerminateFails ==
    /\ terminator.pc \in {"tombstone", "delete"}
    /\ terminator' = [terminator EXCEPT !.pc = "failed"]
    /\ UNCHANGED <<kpStore, kpDirectory, tab, claimer, lister, handed, offered>>

\* A device that starts afresh withdraws what it published, without a tombstone.
deleteKeyPackages(d) ==
    /\ d \in DevicesWithKeyPackages
    /\ packages' = packages \ OfDevice(d) /\ lastResort' = [lastResort EXCEPT ![d] = 0]
    /\ offered' = offered \ {d} /\ lister' = [lister EXCEPT !.due = @ \ {d}]
    /\ UNCHANGED <<kpStore, registry, tab, claimer, terminator, handed>>

(***************************************************************************)
(* listDevices: what a co-member reconciles its group with.                *)
(***************************************************************************)
listDevices ==
    /\ lister.pc = "idle"
    /\ lister' = [pc |-> "tombstones", devices |-> DevicesWithKeyPackages, revoked |-> {},
                  due |-> offered]
    /\ UNCHANGED <<kpStore, kpDirectory, tab, claimer, terminator, handed, offered>>

ListRevoked ==
    /\ lister.pc = "tombstones"
    /\ lister' = [lister EXCEPT !.pc = "done", !.revoked = RevokedDeviceIDs]
    /\ UNCHANGED <<kpStore, kpDirectory, tab, claimer, terminator, handed, offered>>

\* The tombstones cannot be read: the answer goes out without them.
ListRevokedFails ==
    /\ lister.pc = "tombstones"
    /\ lister' = [lister EXCEPT !.pc = "done", !.due = {}]
    /\ UNCHANGED <<kpStore, kpDirectory, tab, claimer, terminator, handed, offered>>

KpNext ==
    \/ \E t \in Tabs, resort \in BOOLEAN : publishKeyPackages(t, resort)
    \/ \E t \in Tabs, n \in 0 .. MaxBatch : AddKeyPackages(t, n)
    \/ \E t \in Tabs : UpsertMLSDevice(t)
    \/ \E d \in Devices : registerDevice(d) \/ deleteKeyPackages(d)
    \/ \E c \in Claimers : claimForPeer(c) \/ claimKeyPackages(c, Devices)
    \/ \E c \in Claimers, d \in Devices :
          \/ MongoClaimSingle(c, d) \/ MongoClaimExhausted(c, d)
          \/ MongoClaimLastResort(c, d) \/ MemoryClaimKeyPackage(c, d)
    \/ \E d \in Devices : terminateDevice(d) \/ RevokeMLSDevice(d) \/ DeleteKeyPackages(d)
    \/ TerminateFails \/ listDevices \/ ListRevoked \/ ListRevokedFails

KpSpec == KpInit /\ [][KpNext]_kpVars

\* A single-use KeyPackage is handed to one claimer only, and claiming never takes away the
\* last-resort package a device that was not terminated has published (ClaimKeyPackage).
ClaimsConsumeSinglesOnce ==
    /\ \A g, h \in handed : g.package = h.package => g = h
    /\ \A d \in offered : registry[d] # "revoked" => HasLastResortKeyPackage(d)

\* A co-member that lists the devices after a device had published learns of that device one
\* way or the other: it still has packages, or it is among the terminated ones, whatever point
\* terminateDevice has reached or failed at (the reason for "Tombstone FIRST").
TerminationIsSeen ==
    lister.pc = "done" => lister.due \subseteq lister.devices \cup lister.revoked

=============================================================================
