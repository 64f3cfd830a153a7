------------------------------ MODULE KeyBackup ------------------------------
(***************************************************************************)
(* The sealed backup of one user's history: a snapshot in the blob store,  *)
(* the versions it replaced, and the tail of bodies appended one by one.   *)
(* A device reads bodies, appends them to the tail, and now and then       *)
(* uploads everything it holds and lets the server drop the older tail.    *)
(* One device at a time; its clock and the server's are taken to agree.    *)
(*                                                                         *)
(*   upload   stamp -> export -> get -> guard -> put -> archive -> truncate*)
(***************************************************************************)
EXTENDS Naturals, Sequences, FiniteSets

CONSTANTS Bodies, NoBackup,
          KeptVersions,   \* superseded backups kept
          MaxClock, MaxUploads, MaxReinstalls

VARIABLES clock,
          cache, pending, armed,  \* the device: bodies read, bodies to append, code known
          live, versions, blobs,  \* the stored backup, superseded ones, blobs in the store
          tail,                   \* body -> when it was appended, for the bodies appended
          upload,                 \* where the upload under way is, with what it carries
          uploads,                \* uploads begun
          reinstalls,
          backedUp,               \* ghost: bodies the server has said it keeps
          taken                   \* ghost: of these, the ones an upload took away: one from a
                                  \* device that did not hold them, or one whose record was
                                  \* written and reported as failed

kbDevice == <<cache, pending, armed>>
kbServer == <<live, versions, blobs, tail>>
kbGhosts == <<backedUp, taken>>
kbVars == <<clock, kbDevice, kbServer, upload, uploads, reinstalls, kbGhosts>>

\* An upload's blob is named after its number.
MLSKeyBackup == [bodies : SUBSET Bodies, messages : 0 .. Cardinality(Bodies), blob : 1 .. MaxUploads]
MLSKeyBackupTailEntry == [Bodies -> 0 .. MaxClock + 1]
Never == MaxClock + 1

\* A backup that is not there is no backup.
KeyBackupAssumption ==
    /\ IsFiniteSet(Bodies) /\ MaxClock \in Nat /\ MaxUploads \in Nat
    /\ NoBackup \notin MLSKeyBackup

\* whole, a ghost: the device held all that is kept when it read its cache.
Resting == [pc |-> "idle", through |-> 0, bodies |-> {}, whole |-> FALSE, force |-> FALSE, prev |-> NoBackup]

KbInit ==
    /\ clock = 0 /\ cache = {} /\ pending = {} /\ armed = FALSE
    /\ live = NoBackup /\ versions = <<>> /\ blobs = {}
    /\ tail = [b \in Bodies |-> Never]
    /\ upload = Resting /\ uploads = 0
    /\ reinstalls = 0 /\ backedUp = {} /\ taken = {}

InTail == {b \in Bodies : tail[b] # Never}
Opens(v) == IF v # NoBackup /\ v.blob \in blobs THEN v.bodies ELSE {}
Restorable == Opens(live) \cup InTail
Recoverable == Restorable \cup UNION {Opens(versions[i]) : i \in DOMAIN versions}

At(pc) == upload.pc = pc
Goto(pc) == upload' = [upload EXCEPT !.pc = pc]

KbTick ==
    /\ clock < MaxClock
    /\ clock' = clock + 1
    /\ UNCHANGED <<kbDevice, kbServer, upload, uploads, reinstalls, kbGhosts>>

(***************************************************************************)
(* The device                                                              *)
(***************************************************************************)
\* A body is in the cache before it is queued for the tail, and queued only while the
\* device is armed; reading asks for neither a restore nor a code.
appendBodyToTail(b) ==
    /\ b \notin cache
    /\ cache' = cache \cup {b} /\ pending' = IF armed THEN pending \cup {b} ELSE pending
    /\ UNCHANGED <<clock, armed, kbServer, upload, uploads, reinstalls, kbGhosts>>

\* An entry is replaced by its id: a body appended again counts once, with its latest time.
AppendTail(bodies) == [b \in Bodies |-> IF b \in bodies THEN clock ELSE tail[b]]

\* The queue is emptied when the server answers; a request that fails may have written any
\* of its entries and leaves the queue, and the same bodies are appended again later.
appendKeyBackupTail(written) ==
    LET answered == written = pending
    IN  /\ pending # {}
        /\ tail' = AppendTail(written)
        /\ \/ /\ answered /\ pending' = {}
              /\ backedUp' = backedUp \cup pending /\ taken' = taken \ pending
           \/ UNCHANGED <<pending, backedUp, taken>>
        /\ UNCHANGED <<clock, cache, armed, live, versions, blobs, upload, uploads, reinstalls>>

\* The code and the queue are in memory; the cache is on the disk.
Reload ==
    /\ reinstalls < MaxReinstalls /\ At("idle")
    /\ pending' = {} /\ armed' = FALSE /\ reinstalls' = reinstalls + 1
    /\ UNCHANGED <<clock, cache, kbServer, upload, uploads, kbGhosts>>

Reinstall ==
    /\ reinstalls < MaxReinstalls /\ At("idle")
    /\ cache' = {} /\ pending' = {} /\ armed' = FALSE /\ reinstalls' = reinstalls + 1
    /\ UNCHANGED <<clock, kbServer, upload, uploads, kbGhosts>>

\* A record whose blob is gone is no backup to a client.
BackupHeld == live # NoBackup /\ live.blob \in blobs

\* restoreKeys: the snapshot's history, then the tail on top of it; either may fail to
\* arrive, and the device comes up with the other.
Restore(got) ==
    /\ ~armed /\ BackupHeld
    /\ cache' = cache \cup got /\ armed' = TRUE
    /\ UNCHANGED <<clock, pending, kbServer, upload, uploads, reinstalls, kbGhosts>>

\* unlockBackupWithCode proves the code against the stored backup and restores nothing; a
\* reload that finds the code on the disk does the same.
unlockBackupWithCode ==
    /\ ~armed /\ BackupHeld
    /\ armed' = TRUE
    /\ UNCHANGED <<clock, cache, pending, kbServer, upload, uploads, reinstalls, kbGhosts>>

\* backupKeys stamps first and reads the cache afterwards.
backupKeys(force) ==
    /\ At("idle") /\ uploads < MaxUploads
    /\ upload' = [upload EXCEPT !.pc = "export", !.through = clock, !.force = force]
    /\ uploads' = uploads + 1
    /\ UNCHANGED <<clock, kbDevice, kbServer, reinstalls, kbGhosts>>

\* A transcript that cannot be gathered does not stop the upload: it carries none.
exportAllContents(held) ==
    /\ At("export") /\ held \in {cache, {}}
    /\ upload' = [upload EXCEPT !.pc = "get", !.bodies = held, !.whole = backedUp \ taken \subseteq held]
    /\ UNCHANGED <<clock, kbDevice, kbServer, uploads, reinstalls, kbGhosts>>

(***************************************************************************)
(* putKeyBackup                                                            *)
(***************************************************************************)
GetKeyBackup ==
    /\ At("get")
    /\ upload' = [upload EXCEPT !.pc = "guard", !.prev = live]
    /\ UNCHANGED <<clock, kbDevice, kbServer, uploads, reinstalls, kbGhosts>>

\* Any error is taken for a first backup: nothing to compare with, nothing to archive.
GetKeyBackupFails ==
    /\ At("get")
    /\ upload' = [upload EXCEPT !.pc = "guard", !.prev = NoBackup]
    /\ UNCHANGED <<clock, kbDevice, kbServer, uploads, reinstalls, kbGhosts>>

\* The shrink guard: what is stored is the snapshot's count and the length of the tail.
Shrinks ==
    LET prev == upload.prev
    IN  /\ prev # NoBackup /\ ~upload.force
        /\ Cardinality(upload.bodies) < prev.messages + Cardinality(InTail)

CountKeyBackupTail ==
    /\ At("guard")
    /\ IF Shrinks THEN upload' = Resting ELSE Goto("put")
    /\ UNCHANGED <<clock, kbDevice, kbServer, uploads, reinstalls, kbGhosts>>

\* What the truncation will leave.
Late == {b \in InTail : tail[b] >= upload.through}
Record == [bodies |-> upload.bodies, messages |-> Cardinality(upload.bodies), blob |-> uploads]

\* The blobs are stored before the record that names them.  A device that did not hold all
\* that is kept takes away what it neither held nor has appended since.
PutKeyBackup ==
    LET held == upload.bodies
        lost == IF upload.whole THEN {} ELSE backedUp \ Late
    IN  /\ At("put")
        /\ blobs' = blobs \cup {uploads}
        /\ live' = Record
        /\ backedUp' = backedUp \cup held
        /\ taken' = (taken \cup lost) \ held
        /\ Goto("archive")
        /\ UNCHANGED <<clock, kbDevice, versions, tail, uploads, reinstalls>>

\* The record was written and the answer lost: the blobs it names are deleted again.
PutKeyBackupUnanswered ==
    /\ At("put")
    /\ live' = Record
    /\ taken' = taken \cup (backedUp \ InTail)
    /\ upload' = Resting
    /\ UNCHANGED <<clock, kbDevice, versions, blobs, tail, uploads, reinstalls, backedUp>>

\* The newest KeptVersions versions stay; the others are handed back.
Archived(prev) ==
    LET all == <<prev>> \o versions
        n == IF Len(all) < KeptVersions THEN Len(all) ELSE KeptVersions
    IN  [kept |-> SubSeq(all, 1, n), pruned |-> SubSeq(all, n + 1, Len(all))]

\* The blobs of the versions that fell out go.
ArchiveKeyBackup ==
    LET archived == Archived(upload.prev)
    IN  /\ At("archive") /\ upload.prev # NoBackup
        /\ versions' = archived.kept
        /\ blobs' = blobs \ ({archived.pruned[i].blob : i \in DOMAIN archived.pruned} \ {uploads})
        /\ Goto("truncate")
        /\ UNCHANGED <<clock, kbDevice, live, tail, uploads, reinstalls, kbGhosts>>

\* The first backup replaces nothing; and an archive that cannot be written is passed over.
SkipArchive ==
    /\ At("archive")
    /\ Goto("truncate")
    /\ UNCHANGED <<clock, kbDevice, kbServer, uploads, reinstalls, kbGhosts>>

\* Mutant: the stamp's own instant is cut away too.
TruncatedThrough(t) == [b \in Bodies |-> IF tail[b] <= t THEN Never ELSE tail[b]]

\* Strictly before the stamp.
Truncated(t) == [b \in Bodies |-> IF tail[b] < t THEN Never ELSE tail[b]]

\* A truncation that fails is passed over too.
TruncateKeyBackupTail(fails) ==
    /\ At("truncate")
    /\ tail' = IF fails THEN tail ELSE Truncated(upload.through)
    /\ armed' = TRUE /\ upload' = Resting
    /\ UNCHANGED <<clock, cache, pending, live, versions, blobs, uploads, reinstalls, kbGhosts>>

\* The count, a blob or the record cannot be written, or the request is cut off.
UploadFails ==
    /\ upload.pc \in {"get", "guard", "put", "archive", "truncate"}
    /\ upload' = Resting
    /\ UNCHANGED <<clock, kbDevice, kbServer, uploads, reinstalls, kbGhosts>>

KbNext ==
    \/ KbTick \/ Reload \/ Reinstall \/ unlockBackupWithCode
    \/ \E got \in {Restorable, Opens(live), InTail, {}} : Restore(got)
    \/ \E b \in Bodies : appendBodyToTail(b)
    \/ \E written \in SUBSET pending : appendKeyBackupTail(written)
    \/ \E force \in BOOLEAN : backupKeys(force)
    \/ \E held \in {cache, {}} : exportAllContents(held)
    \/ GetKeyBackup \/ GetKeyBackupFails \/ CountKeyBackupTail
    \/ PutKeyBackup \/ PutKeyBackupUnanswered
    \/ ArchiveKeyBackup \/ SkipArchive \/ UploadFails
    \/ \E fails \in BOOLEAN : TruncateKeyBackupTail(fails)

KbSpec == KbInit /\ [][KbNext]_kbVars

\* What the server has said it keeps can be restored from the snapshot and the tail,
\* whatever an append raced with, wherever an upload stopped and whatever of it failed; a
\* snapshot counts only if its blob is there (putKeyBackup: "truncating first would open a
\* window in which the bodies exist in neither place").  What goes, goes to a device that
\* did not hold it when it read its cache, or with a record whose write was reported as
\* failed.
BackedUpIsKept == backedUp \ taken \subseteq Restorable

\* "replacing a transcript with a smaller one now takes saying so" (putKeyBackup,
\* keypackages.go:603-604): an upload the guard has let through without force is no smaller
\* than the snapshot it is about to replace.  Does not hold: a read of the stored backup
\* that fails is taken for a first backup.
SmallerTakesForce ==
    At("put") /\ ~upload.force /\ BackupHeld => Cardinality(upload.bodies) >= live.messages

\* A backup that carries everything the server holds is not refused for holding less
\* (putKeyBackup: the shrink guard).
HonestBackupPasses == At("guard") /\ Shrinks /\ BackupHeld => ~(Restorable \subseteq upload.bodies)

=============================================================================
