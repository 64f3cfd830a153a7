---------------------------- MODULE PushAddresses ----------------------------
(***************************************************************************)
(* Push addresses of handsets: accounts register a handset's address,      *)
(* before or after the device on it has an MLS identity; a device is       *)
(* terminated; a fan-out reads the addresses and decides which of them get *)
(* the ciphertext.  The device of an account on a handset is <<u, a>>.     *)
(*                                                                         *)
(*   register   release -> find -> insert                                  *)
(*   terminate  revoke -> delete addresses                                 *)
(*   fan-out    load -> send -> prune                                      *)
(***************************************************************************)
EXTENDS Naturals, FiniteSets

CONSTANTS Accounts, Handsets, Registrations, Unknown

\* No device is the device nobody knows.
PushAddressesAssumption == Unknown \notin Accounts \X Handsets

VARIABLES paStore,     \* "mongo" or "memory"
          rows,        \* device rows stored: account, address, MLS identity or Unknown
          reg,         \* registration -> where CreateDevice is, with what it carries
          revoked,     \* devices whose session is revoked
          severed,     \* revoked devices whose addresses terminateDevice has deleted
          terminating, \* the device being terminated, or Unknown
          fanout,      \* where deliverPush is, with the rows it has read
          excused      \* ghost: rows a registration under way at the termination may write

paVars == <<paStore, rows, reg, revoked, severed, terminating, fanout, excused>>

MLSDevices == Accounts \X Handsets
Device == [user : Accounts, addr : Handsets, mls : MLSDevices \cup {Unknown}]
DeviceOf(row) == <<row.user, row.addr>>

\* Rows left by a build that registered before it had an identity are there from the start.
PaInit ==
    /\ paStore \in {"mongo", "memory"}
    /\ rows \in {{}} \cup {{d} : d \in {e \in Device : e.mls = Unknown}}
    /\ reg = [r \in Registrations |-> [pc |-> "idle", row |-> Unknown]]
    /\ revoked = {} /\ severed = {} /\ terminating = Unknown
    /\ fanout = [pc |-> "idle", rows |-> {}, severed |-> {}] /\ excused = {}

RowsAt(a) == {x \in rows : x.addr = a}
Same(row) == {x \in RowsAt(row.addr) : x.user = row.user}
RegGoes(r, from, to) == reg[r].pc = from /\ reg' = [reg EXCEPT ![r].pc = to]

(***************************************************************************)
(* createDevice and CreateDevice                                           *)
(***************************************************************************)
createDevice(r, row) ==
    /\ reg[r].pc = "idle" /\ DeviceOf(row) \notin revoked
    /\ row.mls \in {Unknown, DeviceOf(row)}
    /\ reg' = [reg EXCEPT ![r] = [pc |-> "release", row |-> row]]
    /\ UNCHANGED <<paStore, rows, revoked, severed, terminating, fanout, excused>>

releasePushAddress(r) ==
    /\ paStore = "mongo" /\ RegGoes(r, "release", "find")
    /\ rows' = {x \in rows : x.addr = reg[r].row.addr => x.user = reg[r].row.user}
    /\ UNCHANGED <<paStore, revoked, severed, terminating, fanout, excused>>

\* A row that is found is updated in a second call; an identity is never erased.
FindDevice(r) ==
    /\ RegGoes(r, "find", IF Same(reg[r].row) = {} THEN "insert" ELSE "update")
    /\ UNCHANGED <<paStore, rows, revoked, severed, terminating, fanout, excused>>

UpdateDevice(r) ==
    LET row == reg[r].row
        mls(x) == IF row.mls = Unknown THEN x.mls ELSE row.mls
    IN  /\ RegGoes(r, "update", "done")
        /\ rows' = (rows \ Same(row)) \cup {[x EXCEPT !.mls = mls(x)] : x \in Same(row)}
        /\ UNCHANGED <<paStore, revoked, severed, terminating, fanout, excused>>

\* The address is unique: who finds it taken keeps the row that is there.
InsertDevice(r) ==
    /\ RegGoes(r, "insert", "done")
    /\ rows' = IF RowsAt(reg[r].row.addr) = {} THEN rows \cup {reg[r].row} ELSE rows
    /\ UNCHANGED <<paStore, revoked, severed, terminating, fanout, excused>>

\* The memory store does all of it under its lock.
MemoryCreateDevice(r) ==
    LET row == reg[r].row
        mls == IF row.mls = Unknown /\ Same(row) # {}
               THEN (CHOOSE x \in Same(row) : TRUE).mls ELSE row.mls
    IN  /\ paStore = "memory" /\ RegGoes(r, "release", "done")
        /\ rows' = (rows \ RowsAt(row.addr)) \cup {[row EXCEPT !.mls = mls]}
        /\ UNCHANGED <<paStore, revoked, severed, terminating, fanout, excused>>

(***************************************************************************)
(* terminateDevice, from the revocation of the session on                  *)
(***************************************************************************)
\* The session the device's row names, or every session of the account when it names none.
RevokeLogin(d) ==
    /\ terminating = Unknown /\ d \notin severed
    /\ \E ended \in {{d}, {d[1]} \X Handsets} : revoked' = revoked \cup ended
    /\ terminating' = d
    /\ UNCHANGED <<paStore, rows, reg, severed, fanout, excused>>

\* There is no revoker, or it errs: that is logged, and the termination goes on.
RevokeLoginFails(d) ==
    /\ terminating = Unknown /\ d \notin severed
    /\ terminating' = d
    /\ UNCHANGED <<paStore, rows, reg, revoked, severed, fanout, excused>>

DeletePushDevicesForMLSDevice(d) ==
    /\ terminating = d /\ terminating' = Unknown
    /\ rows' = {x \in rows : ~(x.user = d[1] /\ x.mls = d)}
    /\ severed' = severed \cup ({d} \cap revoked)
    /\ excused' = excused \cup
           {reg[r].row : r \in {q \in Registrations :
                                  reg[q].pc \notin {"idle", "done"} /\ DeviceOf(reg[q].row) = d}}
    /\ UNCHANGED <<paStore, reg, revoked, fanout>>

\* The delete fails: the device keeps its addresses.
DeletePushDevicesFails(d) ==
    /\ terminating = d /\ terminating' = Unknown
    /\ UNCHANGED <<paStore, rows, reg, revoked, severed, fanout, excused>>

(***************************************************************************)
(* deliverPush                                                             *)
(***************************************************************************)
DevicesForUsers ==
    /\ fanout.pc = "idle"
    /\ fanout' = [pc |-> "send", rows |-> rows, severed |-> severed]
    /\ UNCHANGED <<paStore, rows, reg, revoked, severed, terminating, excused>>

\* Mutant: any address gets the ciphertext.
rendersPreviewUnaccounted(x) == TRUE

\* An address that no MLS device accounts for gets no ciphertext.
rendersPreview(x) == x.mls # Unknown

\* The send, and what the push service says of an address that is gone.
SendChat(gone) ==
    /\ fanout.pc = "send" /\ gone \subseteq fanout.rows
    /\ rows' = rows \ gone
    /\ fanout' = [pc |-> "idle", rows |-> {}, severed |-> {}]
    /\ UNCHANGED <<paStore, reg, revoked, severed, terminating, excused>>

PaNext ==
    \/ \E r \in Registrations, row \in Device : createDevice(r, row)
    \/ \E r \in Registrations :
          \/ releasePushAddress(r) \/ FindDevice(r) \/ UpdateDevice(r) \/ InsertDevice(r)
          \/ MemoryCreateDevice(r)
    \/ \E d \in MLSDevices :
          RevokeLogin(d) \/ RevokeLoginFails(d) \/ DeletePushDevicesForMLSDevice(d) \/ DeletePushDevicesFails(d)
    \/ DevicesForUsers
    \/ \E gone \in SUBSET rows : SendChat(gone)

PaSpec == PaInit /\ [][PaNext]_paVars

\* A fan-out that starts after the addresses of a device whose login was revoked were deleted
\* hands that device no ciphertext, whatever rows without an identity it has left behind,
\* whoever has used the handset in between and however often the termination was tried
\* before; only a registration that was already past the session check when the addresses
\* went can bring one back (devicesByPrivacy: "ciphertext delivered to a device that was
\* revoked").  A device whose login could not be revoked keeps its session and registers
\* again; nothing is said of it.
RevokedGetsNoCiphertext ==
    \A x \in fanout.rows :
        (DeviceOf(x) \in fanout.severed /\ rendersPreview(x)) =>
            \E y \in excused : DeviceOf(y) = DeviceOf(x)

=============================================================================
