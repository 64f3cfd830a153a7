---------------------------- MODULE Conversations ----------------------------
(***************************************************************************)
(* The life of a conversation: a direct chat created from either end, on   *)
(* one host or across two, a group and its roster, messages and their      *)
(* numbers, receipts carried between hosts, encrypted attachments, and     *)
(* deletion (chat.go, messages.go, attachments.go and the parts of         *)
(* convfed.go that ConvFederation leaves out).  Requests run concurrently, *)
(* one action per call; a request to another host is one action there.     *)
(*                                                                         *)
(*   direct   find -> insert -> members -> provision -> (undo: delete)     *)
(*            insert, members -> winner                                    *)
(*   group    insert -> members                                            *)
(*   add      joinSeq -> insertMember -> provision -> number -> store      *)
(*   remove   removeMember -> number -> store                              *)
(*   post     number -> store                                              *)
(*   receipt  receipt -> forward                                           *)
(*   upload   put -> record -> (unput)                                     *)
(*   delete   blobs -> records -> delete, one step per element of todo     *)
(*            -> propagate                                                 *)
(***************************************************************************)
EXTENDS ConversationStore

CONSTANTS Home,         \* user -> the host of their account
          Founder, Chat,  \* who begins with a group, and the pair that begins with a direct chat
          Procs,
          Backends,     \* the stores the hosts may be running on
          Reports,      \* the <<delivered, read>> positions clients report
          MaxRequests,  \* bound on the requests ever begun
          MaxFaults     \* bound on failed calls and calls to the other host

ASSUME ConversationsAssumption ==
    /\ Home \in [Users -> Hosts] /\ Chat \in Pairs /\ Founder \in Chat /\ Backends \subseteq {"mongo", "memory"}
    /\ None \notin Pairs /\ None \notin Conversation /\ None \notin ConversationMember
    /\ Convs \subseteq Nat /\ 1 \in Convs /\ Reports \subseteq Nat \X Nat /\ MaxRequests \in Nat /\ MaxFaults \in Nat

VARIABLES backend, db, req, begun, faults,
          ids,       \* conversation ids given out
          told,      \* ghost: <<u, c>> where u was answered with conversation c
          parted,    \* ghost: <<u, c>> where u was removed from c
          broken,    \* ghost: conversations a create or a delete of which was cut short
          erased,    \* ghost: <<h, c>> where deleteConversation on h has run to the end
          late,      \* ghost: what was being added to a conversation as it was deleted, or after,
                     \* photos whose upload was given up, and "landfill": photos whose delete
                     \* failed, which the handler only logs
          reported   \* ghost: user -> conversation -> the furthest position reported or joined at

ghosts == <<told, parted, broken, erased, late, reported>>
vars == <<backend, db, req, begun, faults, ids, ghosts>>

Idle == [pc |-> "idle", op |-> None, u |-> None, v |-> None, c |-> None, h |-> None,
         arg |-> None, todo |-> <<>>]
NewRequest(pc, op, u, v, c, arg) ==
    [pc |-> pc, op |-> op, u |-> u, v |-> v, c |-> c, h |-> Home[u], arg |-> arg, todo |-> <<>>]
At(p, pc) == req[p].pc = pc
Goto(p, pc) == req' = [req EXCEPT ![p].pc = pc]
Finish(p) == req' = [req EXCEPT ![p] = Idle]
Mongo == backend = "mongo"

Begin(p, r) ==
    /\ At(p, "idle") /\ begun < MaxRequests
    /\ begun' = begun + 1
    /\ req' = [req EXCEPT ![p] = r]
    /\ UNCHANGED <<backend, db, faults, ids, ghosts>>

Fault == faults < MaxFaults /\ faults' = faults + 1

Deleting(h, c) == \E p \in Procs : req[p].op = "delete" /\ req[p].h = h /\ req[p].c = c
Uploading(h, c) == \E p \in Procs : req[p].op = "upload" /\ req[p].h = h /\ req[p].c = c

Write(h, d) == db' = [db EXCEPT ![h] = d] /\ UNCHANGED late

\* A write that adds a member, a message or a photo to a conversation.
AddRow(h, d, c, kind) ==
    /\ db' = [db EXCEPT ![h] = d]
    /\ late' = IF Deleting(h, c) \/ <<h, c>> \in erased THEN late \cup {<<h, c, kind>>} ELSE late

\* Conversations the hosts may start with: none, or a pair's group or direct chat across
\* their hosts with two messages in it, relayed to the mirror.
Started(start) ==
    LET roster(h) ==
            [u \in Users |->
               IF u \notin Chat THEN None
               ELSE Joining(IF <<start, u, h>> = <<"group", Founder, Home[u]>> THEN "admin" ELSE "user", 0)]
        row(h) == [kind |-> start, pair |-> IF start = "group" THEN None ELSE Chat,
                   hub |-> Home[Founder], seq |-> IF h = Home[Founder] THEN 2 ELSE 0]
        msgs == {[conv |-> 1, seq |-> n, by |-> Founder] : n \in 1 .. 2}
    IN [h \in Hosts |->
          IF start = "none" \/ h \notin {Home[u] : u \in Chat} THEN EmptyDB
          ELSE [MemoryCreateConversation(EmptyDB, 1, row(h), roster(h)) EXCEPT !.msgs = msgs]]

Init ==
    /\ backend \in Backends
    /\ \E start \in {"none", "group", "direct"} :
          db = Started(start) /\ ids = IF start = "none" THEN {} ELSE {1}
    /\ req = [p \in Procs |-> Idle]
    /\ begun = 0 /\ faults = 0
    /\ told = {} /\ parted = {} /\ broken = {} /\ erased = {} /\ late = {}
    /\ reported = [u \in Users |-> [c \in Convs |-> 0]]

(***************************************************************************)
(* Reads the handlers share                                                *)
(***************************************************************************)
requireMember(u, c) == db[Home[u]].members[c][u] # None
IsAdmin(u, c) == requireMember(u, c) /\ db[Home[u]].members[c][u].role = "admin"
IsMirror(h, c) == db[h].rows[c].hub # h
Exists(h, c) == db[h].rows[c] # None

\* The other hosts with a member in the conversation.
participantHosts(h, c) == {Home[u] : u \in {x \in Users : db[h].members[c][x] # None}} \ {h}

(***************************************************************************)
(* Creating a direct chat or a group                                       *)
(***************************************************************************)
createDirect(p, u, v) ==
    /\ u # v
    /\ Begin(p, NewRequest("find", "direct", u, v, None, None))

createGroup(p, u) ==
    /\ Begin(p, NewRequest("insert", "group", u, None, None, None))

Answer(p, c) == told' = told \cup {<<req[p].u, c>>}

FindDirect(p) ==
    LET found == ConversationByDirectKey(db[req[p].h], {req[p].u, req[p].v})
    IN /\ At(p, "find")
       /\ \/ \E c \in found : Answer(p, c) /\ Finish(p)
          \/ found = {} /\ Goto(p, "insert") /\ UNCHANGED told
       /\ UNCHANGED <<backend, db, begun, faults, ids, parted, broken, erased, late, reported>>

NewRow(r) ==
    [kind |-> IF r.op = "group" THEN "group" ELSE "direct",
     pair |-> IF r.op = "group" THEN None ELSE {r.u, r.v}, hub |-> r.h, seq |-> 0]
\* Mutant: only the creator is made a member.
NewMembersCreatorOnly(r) == [u \in Users |-> IF u = r.u THEN Joining("user", 0) ELSE None]
NewMembers(r) ==
    [u \in Users |-> IF u = r.u THEN Joining(IF r.op = "group" THEN "admin" ELSE "user", 0)
                     ELSE IF u = r.v THEN Joining("user", 0) ELSE None]

AfterCreate(p, c) ==
    IF req[p].op = "direct" /\ Home[req[p].v] # req[p].h
    THEN req' = [req EXCEPT ![p].pc = "provision", ![p].c = c] /\ UNCHANGED told
    ELSE Answer(p, c) /\ Finish(p)

InsertConversation(p) ==
    LET h == req[p].h
        c == Cardinality(ids) + 1
    IN /\ At(p, "insert")
       /\ IF Mongo /\ DuplicateKey(db[h], NewRow(req[p]))
          THEN Goto(p, "winner") /\ UNCHANGED <<db, ids, told, late>>
          ELSE /\ c \in Convs
               /\ ids' = ids \cup {c}
               /\ IF Mongo
                  THEN /\ Write(h, MongoInsertConversation(db[h], c, NewRow(req[p])))
                       /\ req' = [req EXCEPT ![p].pc = "members", ![p].c = c] /\ UNCHANGED told
                  ELSE /\ Write(h, MemoryCreateConversation(db[h], c, NewRow(req[p]), NewMembers(req[p])))
                       /\ AfterCreate(p, c)
       /\ UNCHANGED <<backend, begun, faults, parted, broken, erased, reported>>

InsertMembers(p) ==
    LET h == req[p].h
    IN /\ At(p, "members")
       /\ AddRow(h, MongoInsertMembers(db[h], req[p].c, NewMembers(req[p])), req[p].c, "member")
       /\ AfterCreate(p, req[p].c)
       /\ UNCHANGED <<backend, begun, faults, ids, parted, broken, erased, reported>>

\* createDirect takes any error for a lost race and looks the winner up, which may be the
\* row it has just inserted itself.
InsertMembersFails(p) ==
    /\ At(p, "members") /\ Fault
    /\ broken' = broken \cup {req[p].c}
    /\ IF req[p].op = "direct" THEN Goto(p, "winner") ELSE Finish(p)
    /\ UNCHANGED <<backend, db, begun, ids, told, parted, erased, late, reported>>

Winner(p) ==
    LET found == ConversationByDirectKey(db[req[p].h], {req[p].u, req[p].v})
    IN /\ At(p, "winner")
       /\ \/ \E c \in found : Answer(p, c)
          \/ found = {} /\ UNCHANGED told
       /\ Finish(p)
       /\ UNCHANGED <<backend, db, begun, faults, ids, parted, broken, erased, late, reported>>

(***************************************************************************)
(* ProvisionMirrorOn and, on the other host, ProvisionMirror               *)
(***************************************************************************)
\* The caller must have a member of its own in the conversation it asks to be mirrored.
checkMirrorSpec(h, c, v) == \E u \in Users \ {v} : Home[u] = h /\ db[h].members[c][u] # None

Mirrored(d, h, c, row, v) ==
    MemoryCreateConversation(d, c, [row EXCEPT !.hub = h, !.seq = 0],
        [u \in Users |-> IF u = v \/ db[h].members[c][u] # None THEN Joining("user", 0) ELSE None])

\* The row the handler holds is the one it created or read, whatever became of it since.
ProvisionMirror(p, row) ==
    LET r == req[p]
        peer == Home[r.v]
        refused == \/ ~checkMirrorSpec(r.h, r.c, r.v)
                   \/ Mongo /\ DuplicateKey(db[peer], row)
    IN IF Exists(peer, r.c) THEN UNCHANGED <<db, late>>
       ELSE ~refused /\ AddRow(peer, Mirrored(db[peer], r.h, r.c, row, r.v), r.c, "member")

ProvisionRefused(p, row) ==
    LET r == req[p]
    IN /\ ~Exists(Home[r.v], r.c)
       /\ ~checkMirrorSpec(r.h, r.c, r.v) \/ (Mongo /\ DuplicateKey(db[Home[r.v]], row))

DeleteTodo == IF Mongo THEN MongoDeleteConversation ELSE MemoryDeleteConversation
GroupRow(h) == [kind |-> "group", pair |-> None, hub |-> h, seq |-> 0]
SpecRow(r) == IF r.op = "direct" THEN NewRow(r) ELSE GroupRow(r.h)

Provision(p) ==
    /\ At(p, "provision")
    /\ ProvisionMirror(p, SpecRow(req[p]))
    /\ IF req[p].op = "direct" THEN Answer(p, req[p].c) /\ Finish(p)
       ELSE Goto(p, "number") /\ UNCHANGED told
    /\ UNCHANGED <<backend, begun, faults, ids, parted, broken, erased, reported>>

\* A direct chat that could not be mirrored is undone; a member added to a group stays.
GiveUp(p) ==
    IF req[p].op = "direct"
    THEN req' = [req EXCEPT ![p].pc = "delete", ![p].op = "undo", ![p].todo = DeleteTodo]
    ELSE Finish(p)

\* Refused, lost on the way, or carried out and its answer lost.
ProvisionFails(p) ==
    /\ At(p, "provision")
    /\ \/ ProvisionRefused(p, SpecRow(req[p])) /\ UNCHANGED <<db, faults, late, broken>>
       \/ Fault /\ UNCHANGED <<db, late, broken>>
       \/ Fault /\ ProvisionMirror(p, SpecRow(req[p])) /\ broken' = broken \cup {req[p].c}
    /\ GiveUp(p)
    /\ UNCHANGED <<backend, begun, ids, told, parted, erased, reported>>

(***************************************************************************)
(* The roster                                                              *)
(***************************************************************************)
\* Groups only, by an administrator, and somebody of another host only on the hub.
addMember(p, u, v, c) ==
    /\ IsAdmin(u, c) /\ Exists(Home[u], c) /\ db[Home[u]].rows[c].kind = "group"
    /\ Home[v] # Home[u] => ~IsMirror(Home[u], c)
    /\ Begin(p, NewRequest("joinSeq", "add", u, v, c, None))

AfterAdd(p) == IF Home[req[p].v] = req[p].h THEN "number" ELSE "provision"
JoinedAt(u, c, n) == reported' = [reported EXCEPT ![u][c] = Later(@, n)]

JoinSeq(p) ==
    LET h == req[p].h
        c == req[p].c
    IN /\ At(p, "joinSeq")
       /\ IF Mongo
          THEN /\ IF db[h].members[c][req[p].v] # None THEN Goto(p, AfterAdd(p))
                  ELSE req' = [req EXCEPT ![p].pc = "insertMember", ![p].arg = MongoJoinSeq(db[h], c)]
               /\ UNCHANGED <<db, late, reported>>
          ELSE /\ AddRow(h, MemoryAddConversationMember(db[h], c, req[p].v), c, "member")
               /\ JoinedAt(req[p].v, c, MemoryJoinSeq(db[h], c))
               /\ Goto(p, AfterAdd(p))
       /\ UNCHANGED <<backend, begun, faults, ids, told, parted, broken, erased>>

InsertMember(p) ==
    LET h == req[p].h
    IN /\ At(p, "insertMember")
       /\ AddRow(h, AddConversationMember(db[h], req[p].c, req[p].v, req[p].arg), req[p].c, "member")
       /\ JoinedAt(req[p].v, req[p].c, req[p].arg)
       /\ Goto(p, AfterAdd(p))
       /\ UNCHANGED <<backend, begun, faults, ids, told, parted, broken, erased>>

\* Oneself, or by an administrator; the kind of the conversation is not looked at.
removeMember(p, u, v, c) ==
    /\ requireMember(u, c) /\ (u = v \/ IsAdmin(u, c))
    /\ Begin(p, NewRequest("removeMember", "remove", u, v, c, None))

RemoveMember(p) ==
    LET h == req[p].h
        c == req[p].c
    IN /\ At(p, "removeMember")
       /\ IF db[h].members[c][req[p].v] = None
          THEN Finish(p) /\ UNCHANGED <<db, late, parted>>
          ELSE /\ Write(h, RemoveConversationMember(db[h], c, req[p].v))
               /\ parted' = parted \cup {<<req[p].v, c>>}
               /\ Goto(p, "number")
       /\ UNCHANGED <<backend, begun, faults, ids, told, broken, erased, reported>>

setMemberRole(u, v, c, role) ==
    LET h == Home[u]
    IN /\ IsAdmin(u, c) /\ Exists(h, c) /\ db[h].rows[c].kind = "group"
       /\ db[h].members[c][v] # None /\ db[h].members[c][v].role # role
       /\ begun < MaxRequests /\ begun' = begun + 1
       /\ Write(h, SetConversationMemberRole(db[h], c, v, role))
       /\ UNCHANGED <<backend, req, faults, ids, told, parted, broken, erased, reported>>

(***************************************************************************)
(* Messages, and the notes recordMembershipChange leaves                   *)
(***************************************************************************)
\* On the conversation's own host; a mirror forwards (ConvFederation).
postMessage(p, u, c) ==
    /\ requireMember(u, c) /\ Exists(Home[u], c) /\ ~IsMirror(Home[u], c)
    /\ Begin(p, NewRequest("number", "post", u, None, c, None))

TakeNumber(p) ==
    LET h == req[p].h
        c == req[p].c
        taken == MongoTakeNumber(db[h], c)
    IN /\ At(p, "number")
       /\ IF Mongo
          THEN /\ Write(h, taken)
               /\ req' = [req EXCEPT ![p].pc = "store", ![p].arg = MongoJoinSeq(taken, c)]
          ELSE AddRow(h, MemoryAppendChatMessage(db[h], c, req[p].u), c, "message") /\ Finish(p)
       /\ UNCHANGED <<backend, begun, faults, ids, told, parted, broken, erased, reported>>

StoreMessage(p) ==
    LET h == req[p].h
    IN /\ At(p, "store")
       /\ AddRow(h, MongoInsertMessage(db[h], [conv |-> req[p].c, seq |-> req[p].arg, by |-> req[p].u]),
                 req[p].c, "message")
       /\ Finish(p)
       /\ UNCHANGED <<backend, begun, faults, ids, told, parted, broken, erased, reported>>

(***************************************************************************)
(* Receipts                                                                *)
(***************************************************************************)
\* Mutant: a read leaves delivered where it was.
ReceiptReadOnly(delivered, read) == delivered
\* A read carries delivered up with it.
ReceiptDelivered(delivered, read) == Later(delivered, read)

Receipt(d, c, u, delivered, read) ==
    IF Mongo THEN MongoSetConversationReceipt(d, c, u, delivered, read)
    ELSE MemorySetConversationReceipt(d, c, u, delivered, read)

\* A client reports numbers of messages it has been given.
reportReceipt(p, u, c, delivered, read) ==
    LET h == Home[u]
        d == Receipt(db[h], c, u, ReceiptDelivered(delivered, read), read)
    IN /\ requireMember(u, c) /\ delivered + read > 0
       /\ {delivered, read} \subseteq {0} \cup {m.seq : m \in db[h].msgs}
       /\ At(p, "idle") /\ begun < MaxRequests /\ begun' = begun + 1
       /\ Write(h, d)
       /\ reported' = [reported EXCEPT ![u][c] = Later(@, Later(delivered, read))]
       /\ req' = [req EXCEPT ![p] = NewRequest("forward", "receipt", u, None, c,
                                 <<d.members[c][u].delivered, d.members[c][u].read>>)]
       /\ UNCHANGED <<backend, faults, ids, told, parted, broken, erased>>

\* SubmitReceipt on the hub, DeliverReceipt on a mirror.
isMemberFromHost(h, c, u) == db[h].members[c][u] # None
AcceptsReceipt(h, c, u, from) ==
    /\ Exists(h, c) /\ isMemberFromHost(h, c, u)
    /\ db[h].rows[c].hub \in {h, from}

ForwardReceipt(p) ==
    LET r == req[p]
        peers == IF ~Exists(r.h, r.c) THEN {}
                 ELSE IF IsMirror(r.h, r.c) THEN {db[r.h].rows[r.c].hub}
                 ELSE participantHosts(r.h, r.c)
    IN /\ At(p, "forward")
       /\ \/ \E h \in peers :
                /\ AcceptsReceipt(h, r.c, r.u, r.h)
                /\ Write(h, Receipt(db[h], r.c, r.u, r.arg[1], r.arg[2]))
          \/ /\ \A h \in peers : ~AcceptsReceipt(h, r.c, r.u, r.h)
             /\ UNCHANGED <<db, late>>
       /\ Finish(p)
       /\ UNCHANGED <<backend, begun, faults, ids, told, parted, broken, erased, reported>>

(***************************************************************************)
(* Attachments                                                             *)
(***************************************************************************)
uploadAttachment(p, u, c) ==
    /\ requireMember(u, c)
    /\ Begin(p, NewRequest("put", "upload", u, None, c, None))

PutBlob(p) ==
    LET h == req[p].h
    IN /\ At(p, "put")
       /\ req[p].c \notin db[h].blobs
       /\ AddRow(h, [db[h] EXCEPT !.blobs = @ \cup {req[p].c}], req[p].c, "photo")
       /\ Goto(p, "record")
       /\ UNCHANGED <<backend, begun, faults, ids, told, parted, broken, erased, reported>>

RecordAttachment(p) ==
    LET h == req[p].h
    IN /\ At(p, "record")
       /\ AddRow(h, CreateAttachment(db[h], req[p].c), req[p].c, "photo")
       /\ Finish(p)
       /\ UNCHANGED <<backend, begun, faults, ids, told, parted, broken, erased, reported>>

RecordFails(p) ==
    /\ At(p, "record") /\ Fault
    /\ Goto(p, "unput")
    /\ UNCHANGED <<backend, db, begun, ids, ghosts>>

UnputBlob(p) ==
    LET h == req[p].h
    IN /\ At(p, "unput")
       /\ Write(h, [db[h] EXCEPT !.blobs = @ \ {req[p].c}])
       /\ Finish(p)
       /\ UNCHANGED <<backend, begun, faults, ids, told, parted, broken, erased, reported>>

(***************************************************************************)
(* Deleting                                                                *)
(***************************************************************************)
deleteConversation(p, u, c) ==
    LET h == Home[u]
    IN /\ requireMember(u, c) /\ Exists(h, c)
       /\ db[h].rows[c].kind = "group" => IsAdmin(u, c)
       /\ Begin(p, NewRequest("blobs", "delete", u, None, c,
                           (participantHosts(h, c) \cup {db[h].rows[c].hub}) \ {h}))

\* Mutant: the blobs are skipped.
DeleteRecordsOnly(p) ==
    /\ At(p, "blobs")
    /\ Goto(p, "records")
    /\ UNCHANGED <<backend, db, begun, faults, ids, ghosts>>

\* deleteConversationAttachments: the blobs of the attachments recorded, then the records.
DeleteBlobs(p) ==
    LET h == req[p].h
    IN /\ At(p, "blobs")
       /\ db' = [db EXCEPT ![h].blobs = @ \ ListAttachmentIDs(db[h], req[p].c)]
       /\ late' = IF Uploading(h, req[p].c) THEN late \cup {<<h, req[p].c, "photo">>} ELSE late
       /\ Goto(p, "records")
       /\ UNCHANGED <<backend, begun, faults, ids, told, parted, broken, erased, reported>>

DeleteRecords(p) ==
    LET h == req[p].h
    IN /\ At(p, "records")
       /\ Write(h, DeleteAttachments(db[h], req[p].c))
       /\ req' = [req EXCEPT ![p].pc = "delete", ![p].todo = DeleteTodo]
       /\ UNCHANGED <<backend, begun, faults, ids, told, parted, broken, erased, reported>>

\* deleteConversationAttachments only logs what fails: a blob that was not deleted, records
\* that were not, or, when the list could not be read, both; the delete goes on.
BlobsFail(p) ==
    /\ At(p, "blobs") /\ Fault
    /\ late' = late \cup {<<req[p].h, req[p].c, kind>> : kind \in {"landfill"} \cup
                            IF Uploading(req[p].h, req[p].c) THEN {"photo"} ELSE {}}
    /\ \/ Goto(p, "records")
       \/ req' = [req EXCEPT ![p].pc = "delete", ![p].todo = DeleteTodo]
    /\ UNCHANGED <<backend, db, begun, ids, told, parted, broken, erased, reported>>

RecordsFail(p) ==
    /\ At(p, "records") /\ Fault
    /\ late' = late \cup {<<req[p].h, req[p].c, "landfill">>}
    /\ req' = [req EXCEPT ![p].pc = "delete", ![p].todo = DeleteTodo]
    /\ UNCHANGED <<backend, db, begun, ids, told, parted, broken, erased, reported>>

DeleteStep(p) ==
    LET r == req[p]
        last == Len(r.todo) = 1
    IN /\ At(p, "delete")
       /\ db' = [db EXCEPT ![r.h] = Without(@, Head(r.todo), r.c)]
       /\ req' = [req EXCEPT ![p] = IF ~last THEN [r EXCEPT !.todo = Tail(r.todo)]
                                    ELSE IF r.op = "undo" THEN Idle ELSE [r EXCEPT !.pc = "propagate"]]
       /\ erased' = IF last /\ r.op = "delete" THEN erased \cup {<<r.h, r.c>>} ELSE erased
       /\ UNCHANGED <<backend, begun, faults, ids, told, parted, broken, late, reported>>

\* DeleteMirror on the other host: its hub, or the home of a member, may ask for it.
peerInConversation(h, c, peer) ==
    db[h].rows[c].hub = peer \/ \E u \in Users : db[h].members[c][u] # None /\ Home[u] = peer

DeleteMirror(p) ==
    LET r == req[p]
    IN /\ At(p, "propagate")
       /\ db' = [h \in Hosts |->
                   IF h \in r.arg /\ Exists(h, r.c) /\ peerInConversation(h, r.c, r.h)
                   THEN Without(db[h], {"rows", "members", "msgs"}, r.c) ELSE db[h]]
       /\ Finish(p)
       /\ UNCHANGED <<backend, begun, faults, ids, ghosts>>

\* The call a request is at fails, or the process dies there; a create or a delete that
\* had begun to write is left half done.
CallFails(p) ==
    /\ req[p].pc \notin {"idle", "members", "provision", "record"} /\ Fault
    /\ Finish(p)
    /\ broken' = IF req[p].op \in {"delete", "undo"} THEN broken \cup {req[p].c} ELSE broken
    /\ late' = IF At(p, "unput") THEN late \cup {<<req[p].h, req[p].c, "photo">>} ELSE late
    /\ UNCHANGED <<backend, db, begun, ids, told, parted, erased, reported>>

\* The processes free to take a request.
Waiting == {p \in Procs : At(p, "idle") /\ begun < MaxRequests}

Next ==
    \/ \E c \in ids, u, v \in Users, role \in Roles : setMemberRole(u, v, c, role)
    \/ \E p \in Waiting :
        \/ \E u \in Users : createGroup(p, u) \/ \E v \in Users : createDirect(p, u, v)
        \/ \E c \in ids, u \in Users :
              \/ \E v \in Users : addMember(p, u, v, c) \/ removeMember(p, u, v, c)
              \/ postMessage(p, u, c) \/ uploadAttachment(p, u, c) \/ deleteConversation(p, u, c)
              \/ \E x \in Reports : reportReceipt(p, u, c, x[1], x[2])
    \/ \E p \in Procs :
        \/ FindDirect(p) \/ InsertConversation(p) \/ InsertMembers(p) \/ InsertMembersFails(p)
        \/ Winner(p) \/ Provision(p) \/ ProvisionFails(p)
        \/ JoinSeq(p) \/ InsertMember(p) \/ RemoveMember(p)
        \/ TakeNumber(p) \/ StoreMessage(p) \/ ForwardReceipt(p)
        \/ PutBlob(p) \/ RecordAttachment(p) \/ RecordFails(p) \/ UnputBlob(p)
        \/ DeleteBlobs(p) \/ DeleteRecords(p) \/ DeleteStep(p) \/ DeleteMirror(p)
        \/ BlobsFail(p) \/ RecordsFail(p) \/ CallFails(p)

Spec == Init /\ [][Next]_vars
-----------------------------------------------------------------------------
(* Correctness *)

Quiet == \A p \in Procs : At(p, "idle")

\* However many ends create the direct chat of a pair at once, on one host or on both, one
\* conversation comes out of it: never two on a MongoDB host, and once the requests have
\* ended with nothing cut short, the two hosts have the same one (createDirect, the unique
\* index, ProvisionMirror and the undo).
OneChatPerPair ==
    Mongo => \A h, k \in Hosts : \A c \in ids, d \in ids :
        /\ c # d /\ Exists(h, c) /\ Exists(k, d) /\ db[h].rows[c].pair # None
        /\ h = k \/ (Quiet /\ broken = {})
        => db[h].rows[c].pair # db[k].rows[d].pair

\* Whoever was answered with a conversation is a member of it once the requests have ended,
\* unless they were removed, the conversation was deleted, or a write was cut short.
AnsweredIsMember ==
    Quiet => \A u \in Users, c \in ids : <<u, c>> \in told =>
        \/ <<u, c>> \in parted \/ c \in broken
        \/ ~Exists(Home[u], c) \/ requireMember(u, c)

\* A member's ticks say what the member reported, or a position they joined at, on every
\* host and through every duplicate, late or relayed report; and nothing is read that was
\* not delivered (reportReceipt, SetConversationReceipt, SubmitReceipt, DeliverReceipt).
TicksAreTrue ==
    \A h \in Hosts, c \in Convs, u \in Users :
        LET m == db[h].members[c][u]
        IN m # None => m.read <= m.delivered /\ m.delivered <= reported[u][c]

\* After deleteConversation has run to the end, what is left of the conversation on that
\* host was being written as it was deleted: no message, membership, attachment record or
\* photo from before survives it, however often the delete was cut short and repeated,
\* except the photos of a conversation whose attachments could not all be deleted: the
\* handler logs that and deletes the rest (messages.go:788-845, attachments.go:135-153).
NothingOldSurvivesDelete ==
    \A h \in Hosts, c \in ids : <<h, c>> \in erased =>
        /\ <<h, c, "message">> \in late \/ \A m \in db[h].msgs : m.conv # c
        /\ <<h, c, "member">> \in late \/ db[h].members[c] = NoMembers
        /\ \/ {<<h, c, "photo">>, <<h, c, "landfill">>} \cap late # {}
           \/ c \notin db[h].records \cup db[h].blobs

\* deleteConversation: "The photos go with the messages. Their keys lived inside the
\* messages, so a blob left behind is not merely orphaned - it is landfill nobody,
\* including us, will ever be able to open" (messages.go:817-818).  Does not hold: an error
\* on the way is logged, the messages go, and the photos stay.
PhotosGoWithMessages ==
    \A h \in Hosts, c \in ids : <<h, c>> \in erased =>
        <<h, c, "photo">> \in late \/ c \notin db[h].records \cup db[h].blobs
=============================================================================
