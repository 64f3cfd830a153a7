--------------------------- MODULE ConversationStore ---------------------------
(***************************************************************************)
(* The rows of conversations on one host in the two implementations of     *)
(* store.Store, and the calls that change them.  A database db is a record *)
(*                                                                         *)
(*   rows      conversation id -> its row, or None                         *)
(*   members   conversation id -> user -> the membership row, or None      *)
(*   msgs      messages stored                                             *)
(*   records   conversations with an attachment record                     *)
(*   blobs     conversations with an encrypted photo in the blob store     *)
(*                                                                         *)
(* A conversation has at most one attachment here, named after it.         *)
(***************************************************************************)
EXTENDS Naturals, Sequences, FiniteSets, FiniteSetsExt

CONSTANTS None, Hosts, Users, Convs

Pairs == {{u, v} : u, v \in Users}
Roles == {"user", "admin"}

\* pair stands for the directKey, which a group does not have.
Conversation == [kind : {"direct", "group"}, pair : Pairs \cup {None}, hub : Hosts, seq : Nat]
ConversationMember == [role : Roles, join : Nat, delivered : Nat, read : Nat]
ChatMessage == [conv : Convs, seq : Nat, by : Users]

NoMembers == [u \in Users |-> None]
EmptyDB == [rows |-> [c \in Convs |-> None], members |-> [c \in Convs |-> NoMembers],
            msgs |-> {}, records |-> {}, blobs |-> {}]

Later(i, j) == IF i > j THEN i ELSE j

\* A member's watermarks start at the number the conversation had when they joined.
withReceiptFloor(m) ==
    [m EXCEPT !.delivered = Later(@, m.join), !.read = Later(@, m.join)]
Joining(role, join) == withReceiptFloor([role |-> role, join |-> join, delivered |-> 0, read |-> 0])

(***************************************************************************)
(* Conversations                                                           *)
(***************************************************************************)
ConversationByDirectKey(db, pair) == {c \in Convs : db.rows[c] # None /\ db.rows[c].pair = pair}

\* Mutant: no unique index on directKey.
DuplicateKeyUnindexed(db, row) == FALSE
\* The unique partial index on directKey, in MongoDB only.
DuplicateKey(db, row) == row.pair # None /\ ConversationByDirectKey(db, row.pair) # {}

MongoInsertConversation(db, c, row) == [db EXCEPT !.rows[c] = row]
MongoInsertMembers(db, c, mems) == [db EXCEPT !.members[c] = mems]
MemoryCreateConversation(db, c, row, mems) ==
    [db EXCEPT !.rows[c] = row, !.members[c] = mems]

\* MongoDB reads the conversation's counter, Memory the highest number stored.
MongoJoinSeq(db, c) == IF db.rows[c] = None THEN 0 ELSE db.rows[c].seq
MemoryJoinSeq(db, c) == Max({0} \cup {m.seq : m \in {x \in db.msgs : x.conv = c}})

\* One membership per conversation and user: a row that is there is kept.
AddConversationMember(db, c, u, join) ==
    IF db.members[c][u] # None THEN db
    ELSE [db EXCEPT !.members[c][u] = Joining("user", join)]
MemoryAddConversationMember(db, c, u) == AddConversationMember(db, c, u, MemoryJoinSeq(db, c))

RemoveConversationMember(db, c, u) == [db EXCEPT !.members[c][u] = None]
SetConversationMemberRole(db, c, u, role) == [db EXCEPT !.members[c][u].role = role]

\* A watermark only moves forward.
MongoForward(m, delivered, read) ==
    [m EXCEPT !.delivered = Later(@, delivered), !.read = Later(@, read)]
MemoryForward(m, delivered, read) ==
    [m EXCEPT !.delivered = IF delivered > @ THEN delivered ELSE @, !.read = IF read > @ THEN read ELSE @]
MongoSetConversationReceipt(db, c, u, delivered, read) ==
    [db EXCEPT !.members[c][u] = MongoForward(@, delivered, read)]
MemorySetConversationReceipt(db, c, u, delivered, read) ==
    [db EXCEPT !.members[c][u] = MemoryForward(@, delivered, read)]

\* The collections each step of the delete empties of the conversation.
MongoDeleteConversation == <<{"msgs"}, {"members"}, {"rows"}>>
MemoryDeleteConversation == <<{"rows", "members", "msgs"}>>

Without(db, tables, c) ==
    [db EXCEPT !.rows[c] = IF "rows" \in tables THEN None ELSE @,
               !.members[c] = IF "members" \in tables THEN NoMembers ELSE @,
               !.msgs = IF "msgs" \in tables THEN {m \in @ : m.conv # c} ELSE @]

(***************************************************************************)
(* Messages.  MongoDB takes the number in one call and stores the message  *)
(* in the next; a conversation that is gone by then gives the number 0.    *)
(***************************************************************************)
MongoTakeNumber(db, c) == IF db.rows[c] = None THEN db ELSE [db EXCEPT !.rows[c].seq = @ + 1]
MongoInsertMessage(db, m) == [db EXCEPT !.msgs = @ \cup {m}]
MemoryAppendChatMessage(db, c, u) ==
    [db EXCEPT !.msgs = @ \cup {[conv |-> c, seq |-> MemoryJoinSeq(db, c) + 1, by |-> u]}]

(***************************************************************************)
(* Attachments                                                             *)
(***************************************************************************)
CreateAttachment(db, c) == [db EXCEPT !.records = @ \cup {c}]
ListAttachmentIDs(db, c) == db.records \cap {c}
DeleteAttachments(db, c) == [db EXCEPT !.records = @ \ {c}]
=============================================================================
