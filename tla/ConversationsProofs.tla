---------------------- MODULE ConversationsProofs -----------------------
(***************************************************************************)
(* What Conversations promises, for every number of hosts, users,          *)
(* conversations and requests, on either store: the types, the ticks, what *)
(* a delete leaves behind, that whoever was answered is a member, and, on  *)
(* MongoDB, that one chat comes out of a pair.                             *)
(*                                                                         *)
(* The proofs are in layers.  First what each call does to each table,     *)
(* stated once (RowsKept, MemSet, MessageAdded...) and proved of the       *)
(* store's operators; then which of these effects a step of Next has; then *)
(* one inductive invariant per promise, kept by every such effect:         *)
(*   TickInv    the ticks, and the positions a forwarded receipt carries   *)
(*   EraseInv   how far a delete has come, and photos without a record     *)
(*   MemberInv  one creator per conversation, hosts that agree on its hub  *)
(*              and pair, and where everybody's membership is while a      *)
(*              create or a delete is under way                            *)
(*   PairInv    on MongoDB: one chat of a pair per host, and where its     *)
(*              rows and memberships are at each call (ChatWhole)          *)
(***************************************************************************)
EXTENDS Conversations, FiniteSetTheorems, TLAPS

(***************************************************************************)
(* The tables of a host, and requests                                      *)
(***************************************************************************)
Database ==
    [rows : [Convs -> Conversation \cup {None}],
     members : [Convs -> [Users -> ConversationMember \cup {None}]],
     msgs : SUBSET ChatMessage, records : SUBSET Convs, blobs : SUBSET Convs]

Row(h, c) == db[h].rows[c]
Mem(h, c, u) == db[h].members[c][u]
Msgs(h) == db[h].msgs
Records(h) == db[h].records
Blobs(h) == db[h].blobs
\* ... and after the step.
RowNext(h, c) == db'[h].rows[c]
MemNext(h, c, u) == db'[h].members[c][u]
MsgsNext(h) == db'[h].msgs
RecordsNext(h) == db'[h].records
BlobsNext(h) == db'[h].blobs

\* What a step does to the tables.
RowsKept == \A k \in Hosts, x \in Convs : RowNext(k, x) = Row(k, x)
RowSet(h, c, row) ==
    RowNext(h, c) = row /\ \A k \in Hosts, x \in Convs : k # h \/ x # c => RowNext(k, x) = Row(k, x)
MemsKept == \A k \in Hosts, x \in Convs, w \in Users : MemNext(k, x, w) = Mem(k, x, w)
MemsSet(h, c, f) ==
    /\ \A w \in Users : MemNext(h, c, w) = f[w]
    /\ \A k \in Hosts, x \in Convs, w \in Users : k # h \/ x # c => MemNext(k, x, w) = Mem(k, x, w)
MemSet(h, c, u, m) ==
    /\ MemNext(h, c, u) = m
    /\ \A k \in Hosts, x \in Convs, w \in Users :
          k # h \/ x # c \/ w # u => MemNext(k, x, w) = Mem(k, x, w)
MsgsKept == \A k \in Hosts : MsgsNext(k) = Msgs(k)
MsgsSet(h, S) == MsgsNext(h) = S /\ \A k \in Hosts : k # h => MsgsNext(k) = Msgs(k)
RecordsKept == \A k \in Hosts : RecordsNext(k) = Records(k)
RecordsSet(h, S) == RecordsNext(h) = S /\ \A k \in Hosts : k # h => RecordsNext(k) = Records(k)
BlobsKept == \A k \in Hosts : BlobsNext(k) = Blobs(k)
BlobsSet(h, S) == BlobsNext(h) = S /\ \A k \in Hosts : k # h => BlobsNext(k) = Blobs(k)
PhotosKept == RecordsKept /\ BlobsKept
DbTyped == db \in [Hosts -> Database]

LEMMA TableTypes ==
    ASSUME DbTyped
    PROVE  /\ \A h \in Hosts, c \in Convs : Row(h, c) # None => Row(h, c) \in Conversation
           /\ \A h \in Hosts, c \in Convs, u \in Users : Mem(h, c, u) # None => Mem(h, c, u) \in ConversationMember
           /\ \A h \in Hosts : Msgs(h) \subseteq ChatMessage /\ Records(h) \subseteq Convs /\ Blobs(h) \subseteq Convs
BY DEF DbTyped, Database, Row, Mem, Msgs, Records, Blobs

LEMMA DbStays ==
    ASSUME DbTyped, db' = db
    PROVE  DbTyped' /\ RowsKept /\ MemsKept /\ MsgsKept /\ PhotosKept
BY DEF DbTyped, RowsKept, MemsKept, MsgsKept, PhotosKept, RecordsKept, BlobsKept, Row, Mem, Msgs, Records, Blobs,
       RowNext, MemNext, MsgsNext, RecordsNext, BlobsNext

LEMMA NextTables ==
    /\ \A h \in Hosts, c \in Convs : Row(h, c)' = RowNext(h, c)
    /\ \A h \in Hosts, c \in Convs, u \in Users : Mem(h, c, u)' = MemNext(h, c, u)
    /\ \A h \in Hosts : /\ Msgs(h)' = MsgsNext(h) /\ Records(h)' = RecordsNext(h)
                         /\ Blobs(h)' = BlobsNext(h)
BY DEF Row, Mem, Msgs, Records, Blobs, RowNext, MemNext, MsgsNext, RecordsNext, BlobsNext

LEMMA DatabaseParts ==
    ASSUME NEW d \in Database
    PROVE  /\ d.rows \in [Convs -> Conversation \cup {None}]
           /\ d.members \in [Convs -> [Users -> ConversationMember \cup {None}]]
           /\ d.msgs \in SUBSET ChatMessage /\ d.records \in SUBSET Convs /\ d.blobs \in SUBSET Convs
           /\ d = [rows |-> d.rows, members |-> d.members, msgs |-> d.msgs, records |-> d.records,
                   blobs |-> d.blobs]
BY DEF Database

\* A write of the tables e on one host whose tables were d.
Rewritten(h, d, e) ==
    /\ \A x \in Convs : RowNext(h, x) = e.rows[x] /\ Row(h, x) = d.rows[x]
    /\ \A k \in Hosts, x \in Convs : k # h => RowNext(k, x) = Row(k, x)
    /\ \A x \in Convs, w \in Users :
          MemNext(h, x, w) = e.members[x][w] /\ Mem(h, x, w) = d.members[x][w]
    /\ \A k \in Hosts, x \in Convs, w \in Users : k # h => MemNext(k, x, w) = Mem(k, x, w)
    /\ MsgsSet(h, e.msgs) /\ RecordsSet(h, e.records) /\ BlobsSet(h, e.blobs)
    /\ Msgs(h) = d.msgs /\ Records(h) = d.records /\ Blobs(h) = d.blobs

LEMMA DbWrite ==
    ASSUME DbTyped, NEW h \in Hosts, NEW d \in Database, d = db[h],
           NEW e \in Database, db' = [db EXCEPT ![h] = e]
    PROVE  DbTyped' /\ Rewritten(h, d, e)
<1>1. db' \in [Hosts -> Database] /\ db'[h] = e /\ \A k \in Hosts : k # h => db'[k] = db[k]
  BY DEF DbTyped
<1> QED BY <1>1 DEF DbTyped, Rewritten, Row, Mem, MsgsSet, Msgs, RecordsSet, Records, BlobsSet, Blobs,
       RowNext, MemNext, MsgsNext, RecordsNext, BlobsNext

LEMMA PutRow ==
    ASSUME NEW d \in Database, NEW c \in Convs, NEW row
    PROVE  [d EXCEPT !.rows[c] = row]
           = [rows |-> [d.rows EXCEPT ![c] = row], members |-> d.members, msgs |-> d.msgs,
            records |-> d.records, blobs |-> d.blobs]
<1>1. PICK rows, members, msgs, records, blobs :
        d = [rows |-> rows, members |-> members, msgs |-> msgs, records |-> records, blobs |-> blobs]
  BY DatabaseParts
<1>2. d.rows = rows /\ d.members = members /\ d.msgs = msgs /\ d.records = records /\ d.blobs = blobs
  BY <1>1
<1>3. [d EXCEPT !.rows[c] = row]
      = [rows |-> [rows EXCEPT ![c] = row], members |-> members, msgs |-> msgs,
            records |-> records, blobs |-> blobs]
  BY <1>1
<1> QED BY <1>2, <1>3

LEMMA WriteRow ==
    ASSUME DbTyped, NEW h \in Hosts, NEW c \in Convs, NEW row \in Conversation \cup {None},
           db' = [db EXCEPT ![h] = [db[h] EXCEPT !.rows[c] = row]]
    PROVE  DbTyped' /\ RowSet(h, c, row) /\ MemsKept /\ MsgsKept /\ PhotosKept
<1>1. PICK d \in Database : d = db[h]
  BY DEF DbTyped
<1>2. PICK e : e = [d EXCEPT !.rows[c] = row]
  OBVIOUS
<1>3. e = [rows |-> [d.rows EXCEPT ![c] = row], members |-> d.members, msgs |-> d.msgs,
            records |-> d.records, blobs |-> d.blobs]
  BY <1>2, PutRow
<1>4. /\ e.rows = [d.rows EXCEPT ![c] = row] /\ e.members = d.members
      /\ e.msgs = d.msgs /\ e.records = d.records /\ e.blobs = d.blobs
  BY <1>3
<1>5. /\ [d.rows EXCEPT ![c] = row] \in [Convs -> Conversation \cup {None}]
      /\ [d.rows EXCEPT ![c] = row][c] = row
      /\ \A x \in Convs : x # c => [d.rows EXCEPT ![c] = row][x] = d.rows[x]
  BY <1>1, DatabaseParts
<1>6. e \in Database
  BY <1>3, <1>5, DatabaseParts DEF Database
<1>7. db' = [db EXCEPT ![h] = e]
  BY <1>1, <1>2
<1>8. DbTyped' /\ Rewritten(h, d, e)
  BY <1>1, <1>6, <1>7, DbWrite
<1> QED BY <1>4, <1>5, <1>8 DEF Rewritten, RowsKept, RowSet, MemsKept, MemSet, MemsSet, MsgsKept, MsgsSet,
        RecordsKept, RecordsSet, BlobsKept, BlobsSet, PhotosKept

LEMMA PutMembers ==
    ASSUME NEW d \in Database, NEW c \in Convs, NEW f
    PROVE  [d EXCEPT !.members[c] = f]
           = [rows |-> d.rows, members |-> [d.members EXCEPT ![c] = f], msgs |-> d.msgs,
            records |-> d.records, blobs |-> d.blobs]
<1>1. PICK rows, members, msgs, records, blobs :
        d = [rows |-> rows, members |-> members, msgs |-> msgs, records |-> records, blobs |-> blobs]
  BY DatabaseParts
<1>2. d.rows = rows /\ d.members = members /\ d.msgs = msgs /\ d.records = records /\ d.blobs = blobs
  BY <1>1
<1>3. [d EXCEPT !.members[c] = f]
      = [rows |-> rows, members |-> [members EXCEPT ![c] = f], msgs |-> msgs,
            records |-> records, blobs |-> blobs]
  BY <1>1
<1> QED BY <1>2, <1>3

LEMMA WriteMembers ==
    ASSUME DbTyped, NEW h \in Hosts, NEW c \in Convs, NEW f \in [Users -> ConversationMember \cup {None}],
           db' = [db EXCEPT ![h] = [db[h] EXCEPT !.members[c] = f]]
    PROVE  DbTyped' /\ RowsKept /\ MemsSet(h, c, f) /\ MsgsKept /\ PhotosKept
<1>1. PICK d \in Database : d = db[h]
  BY DEF DbTyped
<1>2. PICK e : e = [d EXCEPT !.members[c] = f]
  OBVIOUS
<1>3. e = [rows |-> d.rows, members |-> [d.members EXCEPT ![c] = f], msgs |-> d.msgs,
            records |-> d.records, blobs |-> d.blobs]
  BY <1>2, PutMembers
<1>4. /\ e.rows = d.rows /\ e.members = [d.members EXCEPT ![c] = f]
      /\ e.msgs = d.msgs /\ e.records = d.records /\ e.blobs = d.blobs
  BY <1>3
<1>5. /\ [d.members EXCEPT ![c] = f] \in [Convs -> [Users -> ConversationMember \cup {None}]]
      /\ [d.members EXCEPT ![c] = f][c] = f
      /\ \A x \in Convs : x # c => [d.members EXCEPT ![c] = f][x] = d.members[x]
  BY <1>1, DatabaseParts
<1>6. e \in Database
  BY <1>3, <1>5, DatabaseParts DEF Database
<1>7. db' = [db EXCEPT ![h] = e]
  BY <1>1, <1>2
<1>8. DbTyped' /\ Rewritten(h, d, e)
  BY <1>1, <1>6, <1>7, DbWrite
<1> QED BY <1>4, <1>5, <1>8 DEF Rewritten, RowsKept, RowSet, MemsKept, MemSet, MemsSet, MsgsKept, MsgsSet,
        RecordsKept, RecordsSet, BlobsKept, BlobsSet, PhotosKept

LEMMA PutBoth ==
    ASSUME NEW d \in Database, NEW c \in Convs, NEW row \in Conversation \cup {None}, NEW f
    PROVE  [d EXCEPT !.rows[c] = row, !.members[c] = f]
           = [rows |-> [d.rows EXCEPT ![c] = row], members |-> [d.members EXCEPT ![c] = f],
              msgs |-> d.msgs, records |-> d.records, blobs |-> d.blobs]
<1>1. PICK rows, members, msgs, records, blobs :
        d = [rows |-> rows, members |-> members, msgs |-> msgs, records |-> records, blobs |-> blobs]
  BY DatabaseParts
<1>2. d.rows = rows /\ d.members = members /\ d.msgs = msgs /\ d.records = records /\ d.blobs = blobs
  BY <1>1
<1>3. [d EXCEPT !.rows[c] = row, !.members[c] = f] = [[d EXCEPT !.rows[c] = row] EXCEPT !.members[c] = f]
  BY <1>1
<1>4. PICK e \in Database : e = [d EXCEPT !.rows[c] = row]
  <2>1. [d.rows EXCEPT ![c] = row] \in [Convs -> Conversation \cup {None}]
    BY DatabaseParts
  <2> QED BY <2>1, PutRow, DatabaseParts DEF Database
<1>5. /\ e.rows = [d.rows EXCEPT ![c] = row] /\ e.members = d.members
      /\ e.msgs = d.msgs /\ e.records = d.records /\ e.blobs = d.blobs
  BY <1>4, PutRow
<1>6. [e EXCEPT !.members[c] = f]
      = [rows |-> e.rows, members |-> [e.members EXCEPT ![c] = f],
         msgs |-> e.msgs, records |-> e.records, blobs |-> e.blobs]
  BY PutMembers
<1> QED BY <1>3, <1>4, <1>5, <1>6

LEMMA WriteBoth ==
    ASSUME DbTyped, NEW h \in Hosts, NEW c \in Convs, NEW row \in Conversation \cup {None},
           NEW f \in [Users -> ConversationMember \cup {None}],
           db' = [db EXCEPT ![h] = [db[h] EXCEPT !.rows[c] = row, !.members[c] = f]]
    PROVE  DbTyped' /\ RowSet(h, c, row) /\ MemsSet(h, c, f) /\ MsgsKept /\ PhotosKept
<1>1. PICK d \in Database : d = db[h]
  BY DEF DbTyped
<1>2. PICK e : e = [d EXCEPT !.rows[c] = row, !.members[c] = f]
  OBVIOUS
<1>3. e = [rows |-> [d.rows EXCEPT ![c] = row], members |-> [d.members EXCEPT ![c] = f], msgs |-> d.msgs,
            records |-> d.records, blobs |-> d.blobs]
  BY <1>2, PutBoth
<1>4. /\ e.rows = [d.rows EXCEPT ![c] = row] /\ e.members = [d.members EXCEPT ![c] = f]
      /\ e.msgs = d.msgs /\ e.records = d.records /\ e.blobs = d.blobs
  BY <1>3
<1>5. /\ [d.rows EXCEPT ![c] = row] \in [Convs -> Conversation \cup {None}]
      /\ [d.rows EXCEPT ![c] = row][c] = row
      /\ \A x \in Convs : x # c => [d.rows EXCEPT ![c] = row][x] = d.rows[x]
      /\ [d.members EXCEPT ![c] = f] \in [Convs -> [Users -> ConversationMember \cup {None}]]
      /\ [d.members EXCEPT ![c] = f][c] = f
      /\ \A x \in Convs : x # c => [d.members EXCEPT ![c] = f][x] = d.members[x]
  BY <1>1, DatabaseParts
<1>6. e \in Database
  BY <1>3, <1>5, DatabaseParts DEF Database
<1>7. db' = [db EXCEPT ![h] = e]
  BY <1>1, <1>2
<1>8. DbTyped' /\ Rewritten(h, d, e)
  BY <1>1, <1>6, <1>7, DbWrite
<1> QED BY <1>4, <1>5, <1>8 DEF Rewritten, RowsKept, RowSet, MemsKept, MemSet, MemsSet, MsgsKept, MsgsSet,
        RecordsKept, RecordsSet, BlobsKept, BlobsSet, PhotosKept

LEMMA PutMember ==
    ASSUME NEW d \in Database, NEW c \in Convs, NEW u \in Users,
           NEW m
    PROVE  [d EXCEPT !.members[c][u] = m]
           = [rows |-> d.rows, members |-> [d.members EXCEPT ![c][u] = m], msgs |-> d.msgs,
            records |-> d.records, blobs |-> d.blobs]
<1>1. PICK rows, members, msgs, records, blobs :
        d = [rows |-> rows, members |-> members, msgs |-> msgs, records |-> records, blobs |-> blobs]
  BY DatabaseParts
<1>2. d.rows = rows /\ d.members = members /\ d.msgs = msgs /\ d.records = records /\ d.blobs = blobs
  BY <1>1
<1>3. [d EXCEPT !.members[c][u] = m]
      = [rows |-> rows, members |-> [members EXCEPT ![c][u] = m], msgs |-> msgs,
            records |-> records, blobs |-> blobs]
  BY <1>1
<1> QED BY <1>2, <1>3

LEMMA WriteMember ==
    ASSUME DbTyped, NEW h \in Hosts, NEW c \in Convs, NEW u \in Users,
           NEW m \in ConversationMember \cup {None},
           db' = [db EXCEPT ![h] = [db[h] EXCEPT !.members[c][u] = m]]
    PROVE  DbTyped' /\ RowsKept /\ MemSet(h, c, u, m) /\ MsgsKept /\ PhotosKept
<1>1. PICK d \in Database : d = db[h]
  BY DEF DbTyped
<1>2. PICK e : e = [d EXCEPT !.members[c][u] = m]
  OBVIOUS
<1>3. e = [rows |-> d.rows, members |-> [d.members EXCEPT ![c][u] = m], msgs |-> d.msgs,
            records |-> d.records, blobs |-> d.blobs]
  BY <1>2, PutMember
<1>4. /\ e.rows = d.rows /\ e.members = [d.members EXCEPT ![c][u] = m]
      /\ e.msgs = d.msgs /\ e.records = d.records /\ e.blobs = d.blobs
  BY <1>3
<1>5. /\ [d.members EXCEPT ![c][u] = m] \in [Convs -> [Users -> ConversationMember \cup {None}]]
      /\ [d.members EXCEPT ![c][u] = m][c][u] = m
      /\ \A x \in Convs, w \in Users :
            x # c \/ w # u => [d.members EXCEPT ![c][u] = m][x][w] = d.members[x][w]
  BY <1>1, DatabaseParts
<1>6. e \in Database
  BY <1>3, <1>5, DatabaseParts DEF Database
<1>7. db' = [db EXCEPT ![h] = e]
  BY <1>1, <1>2
<1>8. DbTyped' /\ Rewritten(h, d, e)
  BY <1>1, <1>6, <1>7, DbWrite
<1> QED BY <1>4, <1>5, <1>8 DEF Rewritten, RowsKept, RowSet, MemsKept, MemSet, MemsSet, MsgsKept, MsgsSet,
        RecordsKept, RecordsSet, BlobsKept, BlobsSet, PhotosKept

LEMMA PutMsgs ==
    ASSUME NEW d \in Database, NEW S
    PROVE  [d EXCEPT !.msgs = S]
           = [rows |-> d.rows, members |-> d.members, msgs |-> S,
            records |-> d.records, blobs |-> d.blobs]
<1>1. PICK rows, members, msgs, records, blobs :
        d = [rows |-> rows, members |-> members, msgs |-> msgs, records |-> records, blobs |-> blobs]
  BY DatabaseParts
<1>2. d.rows = rows /\ d.members = members /\ d.msgs = msgs /\ d.records = records /\ d.blobs = blobs
  BY <1>1
<1>3. [d EXCEPT !.msgs = S]
      = [rows |-> rows, members |-> members, msgs |-> S,
            records |-> records, blobs |-> blobs]
  BY <1>1
<1> QED BY <1>2, <1>3

LEMMA WriteMsgs ==
    ASSUME DbTyped, NEW h \in Hosts, NEW S \in SUBSET ChatMessage,
           db' = [db EXCEPT ![h] = [db[h] EXCEPT !.msgs = S]]
    PROVE  DbTyped' /\ RowsKept /\ MemsKept /\ MsgsSet(h, S) /\ PhotosKept
<1>1. PICK d \in Database : d = db[h]
  BY DEF DbTyped
<1>2. PICK e : e = [d EXCEPT !.msgs = S]
  OBVIOUS
<1>3. e = [rows |-> d.rows, members |-> d.members, msgs |-> S,
            records |-> d.records, blobs |-> d.blobs]
  BY <1>2, PutMsgs
<1>4. /\ e.rows = d.rows /\ e.members = d.members
      /\ e.msgs = S /\ e.records = d.records /\ e.blobs = d.blobs
  BY <1>3
<1>6. e \in Database
  BY <1>3, DatabaseParts DEF Database
<1>7. db' = [db EXCEPT ![h] = e]
  BY <1>1, <1>2
<1>8. DbTyped' /\ Rewritten(h, d, e)
  BY <1>1, <1>6, <1>7, DbWrite
<1> QED BY <1>4, <1>8 DEF Rewritten, RowsKept, RowSet, MemsKept, MemSet, MemsSet, MsgsKept, MsgsSet,
        RecordsKept, RecordsSet, BlobsKept, BlobsSet, PhotosKept

LEMMA PutRecords ==
    ASSUME NEW d \in Database, NEW S
    PROVE  [d EXCEPT !.records = S]
           = [rows |-> d.rows, members |-> d.members, msgs |-> d.msgs,
            records |-> S, blobs |-> d.blobs]
<1>1. PICK rows, members, msgs, records, blobs :
        d = [rows |-> rows, members |-> members, msgs |-> msgs, records |-> records, blobs |-> blobs]
  BY DatabaseParts
<1>2. d.rows = rows /\ d.members = members /\ d.msgs = msgs /\ d.records = records /\ d.blobs = blobs
  BY <1>1
<1>3. [d EXCEPT !.records = S]
      = [rows |-> rows, members |-> members, msgs |-> msgs,
            records |-> S, blobs |-> blobs]
  BY <1>1
<1> QED BY <1>2, <1>3

LEMMA WriteRecords ==
    ASSUME DbTyped, NEW h \in Hosts, NEW S \in SUBSET Convs,
           db' = [db EXCEPT ![h] = [db[h] EXCEPT !.records = S]]
    PROVE  DbTyped' /\ RowsKept /\ MemsKept /\ MsgsKept /\ RecordsSet(h, S) /\ BlobsKept
<1>1. PICK d \in Database : d = db[h]
  BY DEF DbTyped
<1>2. PICK e : e = [d EXCEPT !.records = S]
  OBVIOUS
<1>3. e = [rows |-> d.rows, members |-> d.members, msgs |-> d.msgs,
            records |-> S, blobs |-> d.blobs]
  BY <1>2, PutRecords
<1>4. /\ e.rows = d.rows /\ e.members = d.members
      /\ e.msgs = d.msgs /\ e.records = S /\ e.blobs = d.blobs
  BY <1>3
<1>6. e \in Database
  BY <1>3, DatabaseParts DEF Database
<1>7. db' = [db EXCEPT ![h] = e]
  BY <1>1, <1>2
<1>8. DbTyped' /\ Rewritten(h, d, e)
  BY <1>1, <1>6, <1>7, DbWrite
<1> QED BY <1>4, <1>8 DEF Rewritten, RowsKept, RowSet, MemsKept, MemSet, MemsSet, MsgsKept, MsgsSet,
        RecordsKept, RecordsSet, BlobsKept, BlobsSet, PhotosKept

LEMMA PutBlobs ==
    ASSUME NEW d \in Database, NEW S
    PROVE  [d EXCEPT !.blobs = S]
           = [rows |-> d.rows, members |-> d.members, msgs |-> d.msgs,
            records |-> d.records, blobs |-> S]
<1>1. PICK rows, members, msgs, records, blobs :
        d = [rows |-> rows, members |-> members, msgs |-> msgs, records |-> records, blobs |-> blobs]
  BY DatabaseParts
<1>2. d.rows = rows /\ d.members = members /\ d.msgs = msgs /\ d.records = records /\ d.blobs = blobs
  BY <1>1
<1>3. [d EXCEPT !.blobs = S]
      = [rows |-> rows, members |-> members, msgs |-> msgs,
            records |-> records, blobs |-> S]
  BY <1>1
<1> QED BY <1>2, <1>3

LEMMA WriteBlobs ==
    ASSUME DbTyped, NEW h \in Hosts, NEW S \in SUBSET Convs,
           db' = [db EXCEPT ![h] = [db[h] EXCEPT !.blobs = S]]
    PROVE  DbTyped' /\ RowsKept /\ MemsKept /\ MsgsKept /\ RecordsKept /\ BlobsSet(h, S)
<1>1. PICK d \in Database : d = db[h]
  BY DEF DbTyped
<1>2. PICK e : e = [d EXCEPT !.blobs = S]
  OBVIOUS
<1>3. e = [rows |-> d.rows, members |-> d.members, msgs |-> d.msgs,
            records |-> d.records, blobs |-> S]
  BY <1>2, PutBlobs
<1>4. /\ e.rows = d.rows /\ e.members = d.members
      /\ e.msgs = d.msgs /\ e.records = d.records /\ e.blobs = S
  BY <1>3
<1>6. e \in Database
  BY <1>3, DatabaseParts DEF Database
<1>7. db' = [db EXCEPT ![h] = e]
  BY <1>1, <1>2
<1>8. DbTyped' /\ Rewritten(h, d, e)
  BY <1>1, <1>6, <1>7, DbWrite
<1> QED BY <1>4, <1>8 DEF Rewritten, RowsKept, RowSet, MemsKept, MemSet, MemsSet, MsgsKept, MsgsSet,
        RecordsKept, RecordsSet, BlobsKept, BlobsSet, PhotosKept

\* The tables e are d without the conversation in some of them.
IsWithout(e, d, tables, c) ==
    /\ e \in Database
    /\ e.rows[c] = (IF "rows" \in tables THEN None ELSE d.rows[c])
    /\ \A x \in Convs : x # c => e.rows[x] = d.rows[x]
    /\ e.members[c] = (IF "members" \in tables THEN NoMembers ELSE d.members[c])
    /\ \A x \in Convs : x # c => e.members[x] = d.members[x]
    /\ e.msgs = (IF "msgs" \in tables THEN {m \in d.msgs : m.conv # c} ELSE d.msgs)
    /\ e.records = d.records /\ e.blobs = d.blobs

LEMMA PutNothing ==
    ASSUME NEW d \in Database, NEW c \in Convs, NEW tables
    PROVE  IsWithout(Without(d, tables, c), d, tables, c)
<1>0. PICK e : e = Without(d, tables, c)
  OBVIOUS
<1>1. PICK rows, members, msgs, records, blobs :
        d = [rows |-> rows, members |-> members, msgs |-> msgs, records |-> records, blobs |-> blobs]
  BY DatabaseParts
<1>2. PICK row, f, S : /\ row = (IF "rows" \in tables THEN None ELSE d.rows[c])
                       /\ f = (IF "members" \in tables THEN NoMembers ELSE d.members[c])
                       /\ S = (IF "msgs" \in tables THEN {m \in d.msgs : m.conv # c} ELSE d.msgs)
  OBVIOUS
<1>3. e = [[[d EXCEPT !.rows[c] = row] EXCEPT !.members[c] = f] EXCEPT !.msgs = S]
  BY <1>0, <1>1, <1>2 DEF Without
<1>4. row \in Conversation \cup {None} /\ f \in [Users -> ConversationMember \cup {None}] /\ S \in SUBSET ChatMessage
  BY <1>2, DatabaseParts DEF NoMembers
<1>5. PICK e1 : e1 = [d EXCEPT !.rows[c] = row]
  OBVIOUS
<1>6. e1 = [rows |-> [d.rows EXCEPT ![c] = row], members |-> d.members, msgs |-> d.msgs,
            records |-> d.records, blobs |-> d.blobs]
  BY <1>5, PutRow
<1>7. e1 \in Database
  <2>1. [d.rows EXCEPT ![c] = row] \in [Convs -> Conversation \cup {None}]
    BY <1>4, DatabaseParts
  <2> QED BY <1>6, <2>1, DatabaseParts DEF Database
<1>8. PICK e2 : e2 = [e1 EXCEPT !.members[c] = f]
  OBVIOUS
<1>9. e2 = [rows |-> e1.rows, members |-> [e1.members EXCEPT ![c] = f], msgs |-> e1.msgs,
            records |-> e1.records, blobs |-> e1.blobs]
  BY <1>7, <1>8, PutMembers
<1>10. e2 \in Database
  <2>1. [e1.members EXCEPT ![c] = f] \in [Convs -> [Users -> ConversationMember \cup {None}]]
    BY <1>4, <1>7, DatabaseParts
  <2> QED BY <1>7, <1>9, <2>1, DatabaseParts DEF Database
<1>11. e = [rows |-> e2.rows, members |-> e2.members, msgs |-> S, records |-> e2.records, blobs |-> e2.blobs]
  BY <1>3, <1>5, <1>8, <1>10, PutMsgs
<1>12. e \in Database
  BY <1>4, <1>10, <1>11, DatabaseParts DEF Database
<1>13. e.rows = [d.rows EXCEPT ![c] = row] /\ e.members = [d.members EXCEPT ![c] = f]
       /\ e.msgs = S /\ e.records = d.records /\ e.blobs = d.blobs
  BY <1>6, <1>9, <1>11
<1>14. IsWithout(e, d, tables, c)
  BY <1>2, <1>12, <1>13, DatabaseParts DEF IsWithout
<1> QED BY <1>0, <1>14

LEMMA WriteWithout ==
    ASSUME DbTyped, NEW h \in Hosts, NEW c \in Convs, NEW tables,
           db' = [db EXCEPT ![h] = Without(@, tables, c)]
    PROVE  /\ DbTyped' /\ PhotosKept
           /\ RowSet(h, c, IF "rows" \in tables THEN None ELSE Row(h, c))
           /\ IF "members" \in tables THEN MemsSet(h, c, NoMembers) ELSE MemsKept
           /\ MsgsSet(h, IF "msgs" \in tables THEN {m \in Msgs(h) : m.conv # c} ELSE Msgs(h))
<1>1. PICK d \in Database : d = db[h]
  BY DEF DbTyped
<1>2. PICK e : e = Without(d, tables, c)
  OBVIOUS
<1>3. IsWithout(e, d, tables, c)
  BY <1>2, PutNothing
<1>4. db' = [db EXCEPT ![h] = e]
  BY <1>1, <1>2
<1>5. DbTyped' /\ Rewritten(h, d, e)
  BY <1>1, <1>3, <1>4, DbWrite DEF IsWithout
<1> QED BY <1>3, <1>5 DEF IsWithout, Rewritten, RowSet, MemsKept, MemsSet, MsgsSet, RecordsKept, RecordsSet,
        BlobsKept, BlobsSet, PhotosKept
\* What is left of MongoDeleteConversation, step by step, and MemoryDeleteConversation.
Todo3 == <<{"msgs"}, {"members"}, {"rows"}>>
Todo2 == <<{"members"}, {"rows"}>>
Todo1 == <<{"rows"}>>
TodoAll == <<{"rows", "members", "msgs"}>>
Todos == {<<>>, Todo1, Todo2, Todo3, TodoAll}

LEMMA TodoSteps ==
    /\ MongoDeleteConversation = Todo3 /\ MemoryDeleteConversation = TodoAll
    /\ Len(Todo3) = 3 /\ Head(Todo3) = {"msgs"} /\ Tail(Todo3) = Todo2
    /\ Len(Todo2) = 2 /\ Head(Todo2) = {"members"} /\ Tail(Todo2) = Todo1
    /\ Len(Todo1) = 1 /\ Head(Todo1) = {"rows"}
    /\ Len(TodoAll) = 1 /\ Head(TodoAll) = {"rows", "members", "msgs"}
    /\ Todo1 # Todo2 /\ Todo1 # Todo3 /\ Todo2 # Todo3 /\ TodoAll # Todo1 /\ TodoAll # Todo2
    /\ Todo1 \in Todos /\ Todo2 \in Todos /\ Todo3 \in Todos /\ TodoAll \in Todos
<1>1. MongoDeleteConversation = Todo3 /\ MemoryDeleteConversation = TodoAll
  BY DEF MongoDeleteConversation, MemoryDeleteConversation, Todo3, TodoAll
<1>2. Len(Todo3) = 3 /\ Head(Todo3) = {"msgs"} /\ Tail(Todo3) = Todo2
  BY DEF Todo3, Todo2
<1>3. Len(Todo2) = 2 /\ Head(Todo2) = {"members"} /\ Tail(Todo2) = Todo1
  BY DEF Todo1, Todo2
<1>4. /\ Len(Todo1) = 1 /\ Head(Todo1) = {"rows"}
      /\ Len(TodoAll) = 1 /\ Head(TodoAll) = {"rows", "members", "msgs"}
  BY DEF Todo1, TodoAll
<1>5. "msgs" \notin Head(Todo1) /\ "msgs" \in Head(TodoAll)
  BY <1>4
<1> QED BY <1>1, <1>2, <1>3, <1>4, <1>5 DEF Todos

Pcs == {"idle", "find", "insert", "members", "winner", "provision", "joinSeq", "insertMember",
        "removeMember", "number", "store", "forward", "put", "record", "unput",
        "blobs", "records", "delete", "propagate"}
Ops == {"direct", "group", "undo", "add", "remove", "post", "receipt", "upload", "delete"}
Args == {None} \cup Nat \cup (Nat \X Nat) \cup SUBSET Hosts
Requests ==
    [pc : Pcs, op : Ops \cup {None}, u : Users \cup {None}, v : Users \cup {None},
     c : Convs \cup {None}, h : Hosts \cup {None}, arg : Args, todo : Todos]
ReqTyped == req \in [Procs -> Requests]

\* What a step does to the requests.
OthersWait(p) == \A q \in Procs : q # p => req'[q] = req[q]
Same(s, r) == s.op = r.op /\ s.u = r.u /\ s.v = r.v /\ s.c = r.c /\ s.h = r.h
Ended(p) == req'[p] = Idle /\ OthersWait(p) /\ ReqTyped'
\* The request moves on, carrying what it carried.
Moved(p, pc) ==
    /\ req'[p].pc = pc /\ Same(req'[p], req[p])
    /\ req'[p].arg = req[p].arg /\ req'[p].todo = req[p].todo
    /\ OthersWait(p) /\ ReqTyped'
MovedWith(p, pc, arg) ==
    /\ req'[p].pc = pc /\ Same(req'[p], req[p]) /\ req'[p].arg = arg /\ OthersWait(p) /\ ReqTyped'

LEMMA RequestParts ==
    ASSUME NEW r \in Requests
    PROVE  /\ r.pc \in Pcs /\ r.op \in Ops \cup {None} /\ r.u \in Users \cup {None} /\ r.v \in Users \cup {None}
           /\ r.c \in Convs \cup {None} /\ r.h \in Hosts \cup {None} /\ r.arg \in Args /\ r.todo \in Todos
           /\ r = [pc |-> r.pc, op |-> r.op, u |-> r.u, v |-> r.v, c |-> r.c, h |-> r.h, arg |-> r.arg,
                   todo |-> r.todo]
BY DEF Requests

LEMMA RequestMade ==
    ASSUME NEW pc \in Pcs, NEW op \in Ops \cup {None}, NEW u \in Users \cup {None},
           NEW v \in Users \cup {None}, NEW c \in Convs \cup {None}, NEW h \in Hosts \cup {None},
           NEW arg \in Args, NEW todo \in Todos
    PROVE  [pc |-> pc, op |-> op, u |-> u, v |-> v, c |-> c, h |-> h, arg |-> arg, todo |-> todo] \in Requests
BY DEF Requests

LEMMA ReqPut ==
    ASSUME ReqTyped, NEW p \in Procs, NEW s \in Requests, req' = [req EXCEPT ![p] = s]
    PROVE  ReqTyped' /\ req'[p] = s /\ OthersWait(p)
BY DEF ReqTyped, OthersWait

LEMMA ReqEnd ==
    ASSUME ReqTyped, NEW p \in Procs, Finish(p)
    PROVE  Ended(p) /\ req'[p].pc = "idle"
<1>1. Idle \in Requests /\ Idle.pc = "idle"
  BY DEF Idle, Requests, Pcs, Args, Todos
<1> QED BY <1>1, ReqPut DEF Finish, Ended

LEMMA ReqGoto ==
    ASSUME ReqTyped, NEW p \in Procs, NEW pc \in Pcs, Goto(p, pc)
    PROVE  Moved(p, pc)
<1>1. PICK r \in Requests : r = req[p]
  BY DEF ReqTyped
<1>2. PICK s : s = [pc |-> pc, op |-> r.op, u |-> r.u, v |-> r.v, c |-> r.c, h |-> r.h, arg |-> r.arg,
                    todo |-> r.todo]
  OBVIOUS
<1>3. s = [r EXCEPT !.pc = pc]
  BY <1>2, RequestParts
<1>4. s \in Requests
  BY <1>2, RequestMade, RequestParts
<1>5. req' = [req EXCEPT ![p] = s]
  BY <1>1, <1>3 DEF Goto, ReqTyped
<1>6. ReqTyped' /\ req'[p] = s /\ OthersWait(p)
  BY <1>4, <1>5, ReqPut
<1>7. s.pc = pc /\ Same(s, r) /\ s.arg = r.arg /\ s.todo = r.todo
  BY <1>2 DEF Same
<1> QED BY <1>1, <1>6, <1>7 DEF Moved

LEMMA ReqGotoC ==
    ASSUME ReqTyped, NEW p \in Procs, NEW pc \in Pcs, NEW x \in Convs,
           req' = [req EXCEPT ![p].pc = pc, ![p].c = x]
    PROVE  /\ req'[p].pc = pc /\ req'[p].c = x /\ req'[p].op = req[p].op /\ req'[p].u = req[p].u
           /\ req'[p].v = req[p].v /\ req'[p].h = req[p].h /\ OthersWait(p) /\ ReqTyped'
<1>1. PICK r \in Requests : r = req[p]
  BY DEF ReqTyped
<1>2. PICK t : t = [pc |-> pc, op |-> r.op, u |-> r.u, v |-> r.v, c |-> r.c, h |-> r.h, arg |-> r.arg, todo |-> r.todo]
  OBVIOUS
<1>3. PICK s : s = [pc |-> pc, op |-> r.op, u |-> r.u, v |-> r.v, c |-> x, h |-> r.h, arg |-> r.arg, todo |-> r.todo]
  OBVIOUS
<1>4. t = [r EXCEPT !.pc = pc]
  BY <1>2, RequestParts
<1>5. s = [t EXCEPT !.c = x]
  BY <1>2, <1>3
<1>6. s \in Requests
  BY <1>3, RequestMade, RequestParts
<1>7. req' = [req EXCEPT ![p] = s]
  <2>1. req' = [[req EXCEPT ![p] = t] EXCEPT ![p] = [[req EXCEPT ![p] = t][p] EXCEPT !.c = x]]
    BY <1>1, <1>4 DEF ReqTyped
  <2> QED BY <1>5, <2>1 DEF ReqTyped
<1>8. ReqTyped' /\ req'[p] = s /\ OthersWait(p)
  BY <1>6, <1>7, ReqPut
<1>9. s.pc = pc /\ s.op = r.op /\ s.u = r.u /\ s.v = r.v /\ s.c = x /\ s.h = r.h /\ s.arg = r.arg /\ s.todo = r.todo
  BY <1>3
<1> QED BY <1>1, <1>8, <1>9 DEF MovedWith, Same

LEMMA ReqGotoArg ==
    ASSUME ReqTyped, NEW p \in Procs, NEW pc \in Pcs, NEW x \in Args,
           req' = [req EXCEPT ![p].pc = pc, ![p].arg = x]
    PROVE  MovedWith(p, pc, x)
<1>1. PICK r \in Requests : r = req[p]
  BY DEF ReqTyped
<1>2. PICK t : t = [pc |-> pc, op |-> r.op, u |-> r.u, v |-> r.v, c |-> r.c, h |-> r.h, arg |-> r.arg, todo |-> r.todo]
  OBVIOUS
<1>3. PICK s : s = [pc |-> pc, op |-> r.op, u |-> r.u, v |-> r.v, c |-> r.c, h |-> r.h, arg |-> x, todo |-> r.todo]
  OBVIOUS
<1>4. t = [r EXCEPT !.pc = pc]
  BY <1>2, RequestParts
<1>5. s = [t EXCEPT !.arg = x]
  BY <1>2, <1>3
<1>6. s \in Requests
  BY <1>3, RequestMade, RequestParts
<1>7. req' = [req EXCEPT ![p] = s]
  <2>1. req' = [[req EXCEPT ![p] = t] EXCEPT ![p] = [[req EXCEPT ![p] = t][p] EXCEPT !.arg = x]]
    BY <1>1, <1>4 DEF ReqTyped
  <2> QED BY <1>5, <2>1 DEF ReqTyped
<1>8. ReqTyped' /\ req'[p] = s /\ OthersWait(p)
  BY <1>6, <1>7, ReqPut
<1>9. s.pc = pc /\ s.op = r.op /\ s.u = r.u /\ s.v = r.v /\ s.c = r.c /\ s.h = r.h /\ s.arg = x /\ s.todo = r.todo
  BY <1>3
<1> QED BY <1>1, <1>8, <1>9 DEF MovedWith, Same

LEMMA ReqGotoTodo ==
    ASSUME ReqTyped, NEW p \in Procs, NEW pc \in Pcs, NEW x \in Todos,
           req' = [req EXCEPT ![p].pc = pc, ![p].todo = x]
    PROVE  MovedWith(p, pc, req[p].arg) /\ req'[p].todo = x
<1>1. PICK r \in Requests : r = req[p]
  BY DEF ReqTyped
<1>2. PICK t : t = [pc |-> pc, op |-> r.op, u |-> r.u, v |-> r.v, c |-> r.c, h |-> r.h, arg |-> r.arg, todo |-> r.todo]
  OBVIOUS
<1>3. PICK s : s = [pc |-> pc, op |-> r.op, u |-> r.u, v |-> r.v, c |-> r.c, h |-> r.h, arg |-> r.arg, todo |-> x]
  OBVIOUS
<1>4. t = [r EXCEPT !.pc = pc]
  BY <1>2, RequestParts
<1>5. s = [t EXCEPT !.todo = x]
  BY <1>2, <1>3
<1>6. s \in Requests
  BY <1>3, RequestMade, RequestParts
<1>7. req' = [req EXCEPT ![p] = s]
  <2>1. req' = [[req EXCEPT ![p] = t] EXCEPT ![p] = [[req EXCEPT ![p] = t][p] EXCEPT !.todo = x]]
    BY <1>1, <1>4 DEF ReqTyped
  <2> QED BY <1>5, <2>1 DEF ReqTyped
<1>8. ReqTyped' /\ req'[p] = s /\ OthersWait(p)
  BY <1>6, <1>7, ReqPut
<1>9. s.pc = pc /\ s.op = r.op /\ s.u = r.u /\ s.v = r.v /\ s.c = r.c /\ s.h = r.h /\ s.arg = r.arg /\ s.todo = x
  BY <1>3
<1> QED BY <1>1, <1>8, <1>9 DEF MovedWith, Same
(***************************************************************************)
(* Types                                                                   *)
(***************************************************************************)
\* Which requests are at a call, and what they carry there.
InOrder(r) ==
    /\ r.pc \in {"find", "winner"} => r.op = "direct"
    /\ r.pc \in {"insert", "members"} => r.op \in {"direct", "group"}
    /\ r.pc = "provision" => r.op \in {"direct", "add"}
    /\ r.pc \in {"joinSeq", "insertMember"} => r.op = "add"
    /\ r.pc = "removeMember" => r.op = "remove"
    /\ r.pc \in {"number", "store"} => r.op \in {"add", "remove", "post"}
    /\ r.pc = "forward" => r.op = "receipt"
    /\ r.pc \in {"put", "record", "unput"} => r.op = "upload"
    /\ r.pc \in {"blobs", "records", "propagate"} => r.op = "delete"
    /\ r.pc = "delete" => r.op \in {"delete", "undo"}
    /\ r.pc # "idle" => r.op \in Ops /\ r.u \in Users /\ r.h = Home[r.u] /\ r.h \in Hosts
    /\ r.pc # "idle" /\ r.op \in {"direct", "undo", "add", "remove"} => r.v \in Users
    /\ r.pc # "idle" /\ r.op \in {"direct", "undo"} => r.u # r.v
    /\ r.pc \notin {"idle", "find", "insert", "winner"} => r.c \in ids
    /\ r.pc \in {"insertMember", "store"} => r.arg \in Nat
    /\ r.pc = "forward" => r.arg \in Nat \X Nat
    /\ r.pc \in {"blobs", "records", "delete", "propagate"} /\ r.op = "delete" => r.arg \subseteq Hosts
    /\ r.pc = "delete" => r.todo \in IF Mongo THEN {Todo1, Todo2, Todo3} ELSE {TodoAll}

IdsInOrder == ids \subseteq Convs /\ \E n \in Nat : ids = 1 .. n

\* Messages are numbered, and there is a highest number.
Numbered == \E n \in Nat : \A h \in Hosts : \A m \in Msgs(h) : m.seq <= n

\* A row is of a conversation whose id was given out.
RowsKnown == \A h \in Hosts, c \in Convs : Row(h, c) # None => c \in ids

CvTypes ==
    /\ backend \in {"mongo", "memory"} /\ DbTyped /\ ReqTyped /\ Numbered
    /\ \A p \in Procs : InOrder(req[p])
    /\ IdsInOrder /\ RowsKnown
    /\ told \subseteq Users \X ids /\ erased \subseteq Hosts \X ids
    /\ reported \in [Users -> [Convs -> Nat]]

LEMMA AtWork ==
    ASSUME CvTypes, NEW p \in Procs, req[p].pc # "idle"
    PROVE  /\ req[p] \in Requests /\ req[p].u \in Users /\ req[p].h \in Hosts /\ req[p].h = Home[req[p].u]
           /\ req[p].op \in Ops
           /\ req[p].pc \notin {"idle", "find", "insert", "winner"} => req[p].c \in ids /\ req[p].c \in Convs
           /\ req[p].op \in {"direct", "undo", "add", "remove"} => req[p].v \in Users
<1>1. InOrder(req[p]) /\ req[p] \in Requests /\ ids \subseteq Convs
  BY DEF CvTypes, ReqTyped, IdsInOrder
<1> QED BY <1>1 DEF InOrder

DbKept == RowsKept /\ MemsKept /\ MsgsKept /\ PhotosKept

\* What was added as the conversation was deleted is late.
Marked(h, c, kind) ==
    /\ late \subseteq late'
    /\ (\E p \in Procs : req[p].op = "delete" /\ req[p].h = h /\ req[p].c = c) \/ <<h, c>> \in erased
          => <<h, c, kind>> \in late'

LEMMA AddRowMarks ==
    ASSUME NEW h, NEW c, NEW kind, NEW d, AddRow(h, d, c, kind)
    PROVE  Marked(h, c, kind) /\ db' = [db EXCEPT ![h] = d]
BY DEF AddRow, Marked, Deleting

(***************************************************************************)
(* What each action does                                                   *)
(***************************************************************************)
BeginDoes(p, r) ==
    /\ req[p].pc = "idle" /\ req'[p] = r /\ OthersWait(p) /\ ReqTyped'
    /\ DbTyped' /\ DbKept /\ UNCHANGED <<backend, ids, told, parted, broken, erased, late, reported>>

LEMMA BeginEffect ==
    ASSUME CvTypes, NEW p \in Procs, NEW r \in Requests, Begin(p, r)
    PROVE  BeginDoes(p, r)
<1>1. req[p].pc = "idle" /\ req' = [req EXCEPT ![p] = r] /\ db' = db
      /\ UNCHANGED <<backend, ids, told, parted, broken, erased, late, reported>>
  BY DEF Begin, At, ghosts
<1> QED BY <1>1, ReqPut, DbStays DEF BeginDoes, CvTypes, DbKept

FindDirectDoes(p) ==
    /\ req[p].pc = "find" /\ DbTyped' /\ DbKept
    /\ UNCHANGED <<backend, ids, parted, broken, erased, late, reported>>
    /\ \/ \E c \in Convs : /\ Row(req[p].h, c) # None /\ Row(req[p].h, c).pair = {req[p].u, req[p].v}
                           /\ told' = told \cup {<<req[p].u, c>>} /\ Ended(p)
       \/ told' = told /\ Moved(p, "insert")

LEMMA FindDirectEffect ==
    ASSUME CvTypes, NEW p \in Procs, FindDirect(p)
    PROVE  FindDirectDoes(p)
<1>1. req[p].pc = "find" /\ db' = db /\ UNCHANGED <<backend, ids, parted, broken, erased, late, reported>>
  BY DEF FindDirect, At
<1>2. DbTyped' /\ DbKept
  BY <1>1, DbStays DEF CvTypes, DbKept
<1>3. \/ \E c \in Convs : /\ Row(req[p].h, c) # None /\ Row(req[p].h, c).pair = {req[p].u, req[p].v}
                          /\ told' = told \cup {<<req[p].u, c>>} /\ Finish(p)
      \/ told' = told /\ Goto(p, "insert")
  BY DEF FindDirect, ConversationByDirectKey, Answer, Row
<1>4. (Finish(p) => Ended(p)) /\ (Goto(p, "insert") => Moved(p, "insert"))
  BY ReqEnd, ReqGoto DEF CvTypes, Pcs
<1> HIDE DEF Row, Finish, Goto, Ended, Moved
<1> QED BY <1>1, <1>2, <1>3, <1>4 DEF FindDirectDoes

WinnerDoes(p) ==
    /\ req[p].pc = "winner" /\ DbTyped' /\ DbKept /\ Ended(p)
    /\ UNCHANGED <<backend, ids, parted, broken, erased, late, reported>>
    /\ \/ \E c \in Convs : /\ Row(req[p].h, c) # None /\ Row(req[p].h, c).pair = {req[p].u, req[p].v}
                           /\ told' = told \cup {<<req[p].u, c>>}
       \/ told' = told

LEMMA WinnerEffect ==
    ASSUME CvTypes, NEW p \in Procs, Winner(p)
    PROVE  WinnerDoes(p)
<1>1. req[p].pc = "winner" /\ db' = db /\ UNCHANGED <<backend, ids, parted, broken, erased, late, reported>>
      /\ Finish(p)
  BY DEF Winner, At
<1>2. DbTyped' /\ DbKept /\ Ended(p)
  BY <1>1, DbStays, ReqEnd DEF CvTypes, DbKept
<1>3. \/ \E c \in Convs : /\ Row(req[p].h, c) # None /\ Row(req[p].h, c).pair = {req[p].u, req[p].v}
                          /\ told' = told \cup {<<req[p].u, c>>}
      \/ told' = told
  BY DEF Winner, ConversationByDirectKey, Answer, Row
<1> QED BY <1>1, <1>2, <1>3 DEF WinnerDoes
\* The request has its conversation.
Created(p, pc, c) ==
    /\ req'[p].pc = pc /\ req'[p].c = c /\ req'[p].op = req[p].op /\ req'[p].u = req[p].u
    /\ req'[p].v = req[p].v /\ req'[p].h = req[p].h /\ OthersWait(p) /\ ReqTyped'

AfterCreateDoes(p, c) ==
    IF req[p].op = "direct" /\ Home[req[p].v] # req[p].h
    THEN Created(p, "provision", c) /\ told' = told
    ELSE Ended(p) /\ told' = told \cup {<<req[p].u, c>>}

LEMMA AfterCreateEffect ==
    ASSUME ReqTyped, NEW p \in Procs, NEW c \in Convs, AfterCreate(p, c)
    PROVE  AfterCreateDoes(p, c)
<1>1. CASE req[p].op = "direct" /\ Home[req[p].v] # req[p].h
  <2>1. req' = [req EXCEPT ![p].pc = "provision", ![p].c = c] /\ told' = told
    BY <1>1 DEF AfterCreate
  <2>2. Created(p, "provision", c)
    BY <2>1, ReqGotoC DEF Created, Pcs
  <2> QED BY <1>1, <2>1, <2>2 DEF AfterCreateDoes
<1>2. CASE ~(req[p].op = "direct" /\ Home[req[p].v] # req[p].h)
  <2>1. Finish(p) /\ told' = told \cup {<<req[p].u, c>>}
    BY <1>2 DEF AfterCreate, Answer
  <2>2. Ended(p)
    BY <2>1, ReqEnd
  <2> QED BY <1>2, <2>1, <2>2 DEF AfterCreateDoes
<1> QED BY <1>1, <1>2

LEMMA FreshId ==
    ASSUME IdsInOrder, NEW c, c = Cardinality(ids) + 1, c \in Convs
    PROVE  c \notin ids /\ (ids' = ids \cup {c} => IdsInOrder')
<1>1. PICK n \in Nat : ids = 1 .. n
  BY DEF IdsInOrder
<1>2. Cardinality(1 .. n) = n
  BY FS_Interval
<1>3. c = n + 1
  BY <1>1, <1>2
<1>4. (1 .. n) \cup {n + 1} = 1 .. (n + 1) /\ n + 1 \notin 1 .. n
  OBVIOUS
<1>5. (ids \cup {c}) = 1 .. (n + 1) /\ n + 1 \in Nat
  BY <1>1, <1>3, <1>4
<1> QED BY <1>1, <1>3, <1>4, <1>5 DEF IdsInOrder

LEMMA JoiningIs ==
    ASSUME NEW role \in Roles, NEW join \in Nat
    PROVE  /\ Joining(role, join) = [role |-> role, join |-> join, delivered |-> join, read |-> join]
           /\ Joining(role, join) \in ConversationMember
<1>1. PICK m : m = [role |-> role, join |-> join, delivered |-> 0, read |-> 0]
  OBVIOUS
<1>2. Later(0, join) = join
  BY DEF Later
<1>3. Joining(role, join) = [[m EXCEPT !.delivered = join] EXCEPT !.read = join]
  BY <1>1, <1>2 DEF Joining, withReceiptFloor
<1>4. [m EXCEPT !.delivered = join] = [role |-> role, join |-> join, delivered |-> join, read |-> 0]
  BY <1>1
<1>5. [[role |-> role, join |-> join, delivered |-> join, read |-> 0] EXCEPT !.read = join]
      = [role |-> role, join |-> join, delivered |-> join, read |-> join]
  OBVIOUS
<1>6. Joining(role, join) = [role |-> role, join |-> join, delivered |-> join, read |-> join]
  BY <1>3, <1>4, <1>5
<1> QED BY <1>6 DEF ConversationMember

\* A membership row nobody has reported for yet.
Fresh(m) == m \in ConversationMember /\ m # None /\ m.delivered = 0 /\ m.read = 0 /\ m.join = 0

LEMMA NewRowIs ==
    ASSUME ConversationsAssumption, NEW r \in Requests, r.op \in {"direct", "group"}, r.u \in Users, r.h \in Hosts,
           r.op = "direct" => r.v \in Users
    PROVE  /\ NewRow(r) \in Conversation /\ NewRow(r) # None /\ NewRow(r).hub = r.h
           /\ (r.op = "direct" => NewRow(r).pair = {r.u, r.v}) /\ (r.op = "group" => NewRow(r).pair = None)
           /\ (NewRow(r).kind = "group" <=> r.op = "group")
<1>1. NewRow(r) = [kind |-> IF r.op = "group" THEN "group" ELSE "direct",
                   pair |-> IF r.op = "group" THEN None ELSE {r.u, r.v}, hub |-> r.h, seq |-> 0]
  BY DEF NewRow
<1>2. (IF r.op = "group" THEN None ELSE {r.u, r.v}) \in Pairs \cup {None}
  BY DEF Pairs
<1>3. NewRow(r) \in Conversation
  BY <1>1, <1>2 DEF Conversation
<1>4. NewRow(r) # None
  BY <1>3 DEF ConversationsAssumption
<1> QED BY <1>1, <1>3, <1>4

LEMMA NewMembersAre ==
    ASSUME ConversationsAssumption, NEW r
    PROVE  /\ NewMembers(r) \in [Users -> ConversationMember \cup {None}]
           /\ \A u \in Users : IF u \in {r.u, r.v} THEN Fresh(NewMembers(r)[u]) ELSE NewMembers(r)[u] = None
           /\ r.op # "group" => \A u \in Users : NewMembers(r)[u] # None => NewMembers(r)[u].role = "user"
<1>1. \A role \in Roles : /\ Joining(role, 0) \in ConversationMember /\ Joining(role, 0).role = role
                          /\ Fresh(Joining(role, 0))
  <2> SUFFICES ASSUME NEW role \in Roles
               PROVE  /\ Joining(role, 0) \in ConversationMember /\ Joining(role, 0).role = role
                      /\ Fresh(Joining(role, 0))
    OBVIOUS
  <2>1. PICK m : m = Joining(role, 0)
    OBVIOUS
  <2>2. m = [role |-> role, join |-> 0, delivered |-> 0, read |-> 0] /\ m \in ConversationMember
    BY <2>1, JoiningIs
  <2>3. m # None
    BY <2>2 DEF ConversationsAssumption
  <2> QED BY <2>1, <2>2, <2>3 DEF Fresh
<1>2. "user" \in Roles /\ "admin" \in Roles
  BY DEF Roles
<1> QED BY <1>1, <1>2 DEF NewMembers

InsertConversationDoes(p) ==
    /\ req[p].pc = "insert" /\ DbTyped' /\ UNCHANGED <<backend, parted, broken, erased, late, reported>>
    /\ MsgsKept /\ PhotosKept
    /\ \/ /\ Mongo /\ RowsKept /\ MemsKept /\ ids' = ids /\ told' = told /\ Moved(p, "winner")
          /\ req[p].op = "direct"
       \/ \E c \in Convs \ ids :
             /\ ids' = ids \cup {c} /\ IdsInOrder' /\ RowSet(req[p].h, c, NewRow(req[p]))
             /\ \/ /\ Mongo /\ MemsKept /\ told' = told /\ Created(p, "members", c)
                   /\ NewRow(req[p]).pair # None => \A x \in Convs : Row(req[p].h, x) # None =>
                         Row(req[p].h, x).pair # NewRow(req[p]).pair
                \/ ~Mongo /\ MemsSet(req[p].h, c, NewMembers(req[p])) /\ AfterCreateDoes(p, c)

LEMMA InsertConversationEffect ==
    ASSUME ConversationsAssumption, CvTypes, NEW p \in Procs, InsertConversation(p)
    PROVE  InsertConversationDoes(p)
<1>1. req[p].pc = "insert" /\ UNCHANGED <<backend, parted, broken, erased, reported>>
  BY DEF InsertConversation, At
<1>2. /\ req[p] \in Requests /\ req[p].u \in Users /\ req[p].h \in Hosts /\ req[p].op \in {"direct", "group"}
      /\ req[p].op = "direct" => req[p].v \in Users
  BY <1>1, AtWork DEF CvTypes, InOrder
<1>3. NewRow(req[p]) \in Conversation /\ NewMembers(req[p]) \in [Users -> ConversationMember \cup {None}]
  BY <1>2, NewRowIs, NewMembersAre
<1>4. DbTyped /\ ReqTyped /\ IdsInOrder
  BY DEF CvTypes
<1>5. CASE Mongo /\ DuplicateKey(db[req[p].h], NewRow(req[p]))
  <2>1. Goto(p, "winner") /\ UNCHANGED <<db, ids, told, late>>
    BY <1>5 DEF InsertConversation
  <2>2. Moved(p, "winner") /\ DbTyped' /\ DbKept
    BY <1>4, <2>1, ReqGoto, DbStays DEF Pcs, DbKept
  <2>3. req[p].op = "direct"
    BY <1>2, <1>5, NewRowIs DEF DuplicateKey
  <2> QED BY <1>1, <1>5, <2>1, <2>2, <2>3 DEF InsertConversationDoes, DbKept
<1>6. CASE ~(Mongo /\ DuplicateKey(db[req[p].h], NewRow(req[p])))
  <2>1. PICK c : c = Cardinality(ids) + 1
    OBVIOUS
  <2>2. c \in Convs /\ ids' = ids \cup {c} /\ late' = late
    BY <1>6, <2>1 DEF InsertConversation, Write
  <2>3. c \notin ids /\ IdsInOrder'
    BY <1>4, <2>1, <2>2, FreshId
  <2>4. CASE Mongo
    <3>1. /\ db' = [db EXCEPT ![req[p].h] = MongoInsertConversation(db[req[p].h], c, NewRow(req[p]))]
          /\ req' = [req EXCEPT ![p].pc = "members", ![p].c = c] /\ told' = told
      BY <1>6, <2>1, <2>4 DEF InsertConversation, Write
    <3>2. DbTyped' /\ RowSet(req[p].h, c, NewRow(req[p])) /\ MemsKept /\ MsgsKept /\ PhotosKept
      BY <1>2, <1>3, <1>4, <2>2, <3>1, WriteRow DEF MongoInsertConversation
    <3>3. Created(p, "members", c)
      BY <1>4, <2>2, <3>1, ReqGotoC DEF Created, Pcs
    <3>4. NewRow(req[p]).pair # None => \A x \in Convs : Row(req[p].h, x) # None =>
              Row(req[p].h, x).pair # NewRow(req[p]).pair
      BY <1>6, <2>4 DEF DuplicateKey, ConversationByDirectKey, Row
    <3> QED BY <1>1, <2>2, <2>3, <2>4, <3>1, <3>2, <3>3, <3>4 DEF InsertConversationDoes
  <2>5. CASE ~Mongo
    <3>1. /\ db' = [db EXCEPT ![req[p].h] = MemoryCreateConversation(db[req[p].h], c, NewRow(req[p]), NewMembers(req[p]))]
          /\ AfterCreate(p, c)
      BY <1>6, <2>1, <2>5 DEF InsertConversation, Write
    <3>2. DbTyped' /\ RowSet(req[p].h, c, NewRow(req[p])) /\ MemsSet(req[p].h, c, NewMembers(req[p]))
          /\ MsgsKept /\ PhotosKept
      BY <1>2, <1>3, <1>4, <2>2, <3>1, WriteBoth DEF MemoryCreateConversation
    <3>3. AfterCreateDoes(p, c)
      BY <1>4, <2>2, <3>1, AfterCreateEffect
    <3> QED BY <1>1, <2>2, <2>3, <2>5, <3>2, <3>3 DEF InsertConversationDoes
  <2> QED BY <2>4, <2>5
<1> QED BY <1>5, <1>6
InsertMembersDoes(p) ==
    LET h == req[p].h
        c == req[p].c
    IN /\ req[p].pc = "members" /\ DbTyped' /\ UNCHANGED <<backend, ids, parted, broken, erased, reported>>
       /\ RowsKept /\ MemsSet(h, c, NewMembers(req[p])) /\ MsgsKept /\ PhotosKept
       /\ Marked(h, c, "member") /\ AfterCreateDoes(p, c)

LEMMA InsertMembersEffect ==
    ASSUME ConversationsAssumption, CvTypes, NEW p \in Procs, InsertMembers(p)
    PROVE  InsertMembersDoes(p)
<1>1. /\ req[p].pc = "members" /\ UNCHANGED <<backend, ids, parted, broken, erased, reported>>
      /\ AddRow(req[p].h, MongoInsertMembers(db[req[p].h], req[p].c, NewMembers(req[p])), req[p].c, "member")
      /\ AfterCreate(p, req[p].c)
  BY DEF InsertMembers, At
<1>2. req[p].h \in Hosts /\ req[p].c \in Convs
  BY <1>1, AtWork
<1>3. DbTyped /\ ReqTyped
  BY DEF CvTypes
<1>4. NewMembers(req[p]) \in [Users -> ConversationMember \cup {None}]
  BY NewMembersAre
<1>5. /\ Marked(req[p].h, req[p].c, "member")
      /\ db' = [db EXCEPT ![req[p].h] = MongoInsertMembers(db[req[p].h], req[p].c, NewMembers(req[p]))]
  BY <1>1, AddRowMarks
<1>6. DbTyped' /\ RowsKept /\ MemsSet(req[p].h, req[p].c, NewMembers(req[p])) /\ MsgsKept /\ PhotosKept
  BY <1>2, <1>3, <1>4, <1>5, WriteMembers DEF MongoInsertMembers
<1>7. AfterCreateDoes(p, req[p].c)
  BY <1>1, <1>2, <1>3, AfterCreateEffect
<1> QED BY <1>1, <1>5, <1>6, <1>7 DEF InsertMembersDoes

InsertMembersFailsDoes(p) ==
    /\ req[p].pc = "members" /\ DbTyped' /\ DbKept /\ broken' = broken \cup {req[p].c}
    /\ UNCHANGED <<backend, ids, told, parted, erased, late, reported>>
    /\ IF req[p].op = "direct" THEN Moved(p, "winner") ELSE Ended(p)

LEMMA InsertMembersFailsEffect ==
    ASSUME CvTypes, NEW p \in Procs, InsertMembersFails(p)
    PROVE  InsertMembersFailsDoes(p)
<1>1. /\ req[p].pc = "members" /\ db' = db /\ broken' = broken \cup {req[p].c}
      /\ UNCHANGED <<backend, ids, told, parted, erased, late, reported>>
      /\ IF req[p].op = "direct" THEN Goto(p, "winner") ELSE Finish(p)
  BY DEF InsertMembersFails, At
<1>2. ReqTyped /\ DbTyped
  BY DEF CvTypes
<1>3. IF req[p].op = "direct" THEN Moved(p, "winner") ELSE Ended(p)
  BY <1>1, <1>2, ReqGoto, ReqEnd DEF Pcs
<1> QED BY <1>1, <1>2, <1>3, DbStays DEF InsertMembersFailsDoes, DbKept

\* ProvisionMirror: the mirror is there, or is made from what the caller's host holds.
MirrorDoes(p) ==
    LET r == req[p]
        peer == Home[r.v]
    IN \/ DbKept /\ late' = late /\ Row(peer, r.c) # None
       \/ /\ Row(peer, r.c) = None /\ MsgsKept /\ PhotosKept /\ Marked(peer, r.c, "member")
          /\ \E u \in Users \ {r.v} : Home[u] = r.h /\ Mem(r.h, r.c, u) # None
          /\ Mongo /\ SpecRow(r).pair # None => \A x \in Convs : Row(peer, x) # None =>
                Row(peer, x).pair # SpecRow(r).pair
          /\ RowSet(peer, r.c, SpecRow(r))
          /\ \E f : /\ MemsSet(peer, r.c, f)
                    /\ \A u \in Users : IF u = r.v \/ Mem(r.h, r.c, u) # None
                                        THEN Fresh(f[u]) /\ f[u].role = "user" ELSE f[u] = None

LEMMA SpecRowIs ==
    ASSUME ConversationsAssumption, NEW r \in Requests, r.op \in {"direct", "add"}, r.u \in Users, r.h \in Hosts,
           r.v \in Users
    PROVE  /\ SpecRow(r) \in Conversation /\ SpecRow(r) # None /\ SpecRow(r).hub = r.h
           /\ (r.op = "direct" => SpecRow(r).pair = {r.u, r.v}) /\ (r.op = "add" => SpecRow(r).pair = None)
           /\ (SpecRow(r).kind = "group" <=> r.op = "add")
           /\ [SpecRow(r) EXCEPT !.hub = r.h, !.seq = 0] = SpecRow(r)
<1>1. SpecRow(r) = [kind |-> IF r.op = "add" THEN "group" ELSE "direct",
                    pair |-> IF r.op = "add" THEN None ELSE {r.u, r.v}, hub |-> r.h, seq |-> 0]
  BY DEF SpecRow, NewRow, GroupRow
<1>2. (IF r.op = "add" THEN None ELSE {r.u, r.v}) \in Pairs \cup {None}
  BY DEF Pairs
<1>3. SpecRow(r) \in Conversation
  BY <1>1, <1>2 DEF Conversation
<1>4. SpecRow(r) # None
  BY <1>3 DEF ConversationsAssumption
<1>5. PICK row, k, q : row = SpecRow(r) /\ row = [kind |-> k, pair |-> q, hub |-> r.h, seq |-> 0]
  BY <1>1
<1>6. [row EXCEPT !.hub = r.h, !.seq = 0] = [[row EXCEPT !.hub = r.h] EXCEPT !.seq = 0]
  BY <1>5
<1>7. [row EXCEPT !.hub = r.h] = row /\ [row EXCEPT !.seq = 0] = row
  BY <1>5
<1>8. [SpecRow(r) EXCEPT !.hub = r.h, !.seq = 0] = SpecRow(r)
  BY <1>5, <1>6, <1>7
<1>9. /\ SpecRow(r).hub = r.h /\ (r.op = "direct" => SpecRow(r).pair = {r.u, r.v})
      /\ (r.op = "add" => SpecRow(r).pair = None) /\ (SpecRow(r).kind = "group" <=> r.op = "add")
  BY <1>1
<1> QED BY <1>3, <1>4, <1>8, <1>9

LEMMA UserRowIs ==
    ASSUME ConversationsAssumption
    PROVE  Joining("user", 0) \in ConversationMember /\ Fresh(Joining("user", 0)) /\ Joining("user", 0).role = "user"
<1>1. PICK m : m = Joining("user", 0)
  OBVIOUS
<1>2. m = [role |-> "user", join |-> 0, delivered |-> 0, read |-> 0] /\ m \in ConversationMember
  BY <1>1, JoiningIs DEF Roles
<1>3. m # None
  BY <1>2 DEF ConversationsAssumption
<1> QED BY <1>1, <1>2, <1>3 DEF Fresh

LEMMA MirrorEffect ==
    ASSUME ConversationsAssumption, CvTypes, NEW p \in Procs, req[p].pc = "provision",
           ProvisionMirror(p, SpecRow(req[p]))
    PROVE  MirrorDoes(p) /\ DbTyped'
<1>1. /\ req[p] \in Requests /\ req[p].u \in Users /\ req[p].v \in Users /\ req[p].h \in Hosts
      /\ req[p].c \in Convs /\ req[p].op \in {"direct", "add"}
  BY AtWork DEF CvTypes, InOrder
<1>2. PICK peer \in Hosts : peer = Home[req[p].v]
  BY <1>1 DEF ConversationsAssumption
<1>3. DbTyped
  BY DEF CvTypes
<1>4. CASE Exists(peer, req[p].c)
  <2>1. UNCHANGED <<db, late>> /\ Row(peer, req[p].c) # None
    BY <1>2, <1>4 DEF ProvisionMirror, Exists, Row
  <2> QED BY <1>2, <1>3, <2>1, DbStays DEF MirrorDoes, DbKept
<1>5. CASE ~Exists(peer, req[p].c)
  <2>1. PICK f : f = [u \in Users |-> IF u = req[p].v \/ db[req[p].h].members[req[p].c][u] # None
                                     THEN Joining("user", 0) ELSE None]
    OBVIOUS
  <2>2. f \in [Users -> ConversationMember \cup {None}]
    BY <2>1, UserRowIs
  <2>3. \A u \in Users : IF u = req[p].v \/ Mem(req[p].h, req[p].c, u) # None
                         THEN Fresh(f[u]) /\ f[u].role = "user" ELSE f[u] = None
    BY <2>1, UserRowIs DEF Mem
  <2>4. /\ checkMirrorSpec(req[p].h, req[p].c, req[p].v)
        /\ ~(Mongo /\ DuplicateKey(db[peer], SpecRow(req[p])))
        /\ AddRow(peer, Mirrored(db[peer], req[p].h, req[p].c, SpecRow(req[p]), req[p].v), req[p].c, "member")
    BY <1>2, <1>5 DEF ProvisionMirror
  <2>5. Row(peer, req[p].c) = None
    BY <1>5 DEF Exists, Row
  <2>6. SpecRow(req[p]) \in Conversation /\ [SpecRow(req[p]) EXCEPT !.hub = req[p].h, !.seq = 0] = SpecRow(req[p])
    BY <1>1, SpecRowIs
  <2>7. Mirrored(db[peer], req[p].h, req[p].c, SpecRow(req[p]), req[p].v)
        = MemoryCreateConversation(db[peer], req[p].c, SpecRow(req[p]), f)
    BY <2>1, <2>6 DEF Mirrored
  <2>8. /\ Marked(peer, req[p].c, "member")
        /\ db' = [db EXCEPT ![peer] = MemoryCreateConversation(db[peer], req[p].c, SpecRow(req[p]), f)]
    BY <2>4, <2>7, AddRowMarks
  <2>9. DbTyped' /\ RowSet(peer, req[p].c, SpecRow(req[p])) /\ MemsSet(peer, req[p].c, f) /\ MsgsKept /\ PhotosKept
    BY <1>1, <1>3, <2>2, <2>6, <2>8, WriteBoth DEF MemoryCreateConversation
  <2>10. \E u \in Users \ {req[p].v} : Home[u] = req[p].h /\ Mem(req[p].h, req[p].c, u) # None
    BY <2>4 DEF checkMirrorSpec, Mem
  <2>11. Mongo /\ SpecRow(req[p]).pair # None => \A x \in Convs : Row(peer, x) # None =>
              Row(peer, x).pair # SpecRow(req[p]).pair
    BY <2>4 DEF DuplicateKey, ConversationByDirectKey, Row
  <2> QED BY <1>2, <2>3, <2>5, <2>8, <2>9, <2>10, <2>11 DEF MirrorDoes
<1> QED BY <1>4, <1>5
LEMMA ReqUndo ==
    ASSUME ReqTyped, NEW p \in Procs, NEW x \in Todos,
           req' = [req EXCEPT ![p].pc = "delete", ![p].op = "undo", ![p].todo = x]
    PROVE  /\ req'[p].pc = "delete" /\ req'[p].op = "undo" /\ req'[p].u = req[p].u /\ req'[p].v = req[p].v
           /\ req'[p].c = req[p].c /\ req'[p].h = req[p].h /\ req'[p].todo = x /\ OthersWait(p) /\ ReqTyped'
<1>1. PICK r \in Requests : r = req[p]
  BY DEF ReqTyped
<1>2. PICK t : t = [pc |-> "delete", op |-> r.op, u |-> r.u, v |-> r.v, c |-> r.c, h |-> r.h, arg |-> r.arg,
                    todo |-> r.todo]
  OBVIOUS
<1>3. PICK t2 : t2 = [pc |-> "delete", op |-> "undo", u |-> r.u, v |-> r.v, c |-> r.c, h |-> r.h, arg |-> r.arg,
                      todo |-> r.todo]
  OBVIOUS
<1>4. PICK s : s = [pc |-> "delete", op |-> "undo", u |-> r.u, v |-> r.v, c |-> r.c, h |-> r.h, arg |-> r.arg,
                    todo |-> x]
  OBVIOUS
<1>5. t = [r EXCEPT !.pc = "delete"]
  BY <1>2, RequestParts
<1>6. t2 = [t EXCEPT !.op = "undo"] /\ s = [t2 EXCEPT !.todo = x]
  BY <1>2, <1>3, <1>4
<1>7. s \in Requests
  BY <1>4, RequestMade, RequestParts DEF Pcs, Ops
<1>8. req' = [req EXCEPT ![p] = s]
  <2>1. PICK f : f = [req EXCEPT ![p] = t]
    OBVIOUS
  <2>2. PICK g : g = [req EXCEPT ![p] = t2]
    OBVIOUS
  <2>3. f = [req EXCEPT ![p].pc = "delete"]
    BY <1>1, <1>5, <2>1 DEF ReqTyped
  <2>4. g = [f EXCEPT ![p].op = "undo"]
    BY <1>6, <2>1, <2>2 DEF ReqTyped
  <2>5. req' = [g EXCEPT ![p].todo = x]
    BY <2>3, <2>4
  <2> QED BY <1>6, <2>2, <2>5 DEF ReqTyped
<1>9. ReqTyped' /\ req'[p] = s /\ OthersWait(p)
  BY <1>7, <1>8, ReqPut
<1>10. s.pc = "delete" /\ s.op = "undo" /\ s.u = r.u /\ s.v = r.v /\ s.c = r.c /\ s.h = r.h /\ s.todo = x
  BY <1>4
<1> QED BY <1>1, <1>9, <1>10

Undone(p) ==
    /\ req'[p].pc = "delete" /\ req'[p].op = "undo" /\ req'[p].u = req[p].u /\ req'[p].v = req[p].v
    /\ req'[p].c = req[p].c /\ req'[p].h = req[p].h /\ OthersWait(p) /\ ReqTyped'
    /\ req'[p].todo = IF Mongo THEN Todo3 ELSE TodoAll

ProvisionDoes(p) ==
    /\ req[p].pc = "provision" /\ DbTyped' /\ UNCHANGED <<backend, ids, parted, broken, erased, reported>>
    /\ MirrorDoes(p)
    /\ IF req[p].op = "direct" THEN told' = told \cup {<<req[p].u, req[p].c>>} /\ Ended(p)
       ELSE told' = told /\ Moved(p, "number")

LEMMA ProvisionEffect ==
    ASSUME ConversationsAssumption, CvTypes, NEW p \in Procs, Provision(p)
    PROVE  ProvisionDoes(p)
<1>1. /\ req[p].pc = "provision" /\ UNCHANGED <<backend, ids, parted, broken, erased, reported>>
      /\ ProvisionMirror(p, SpecRow(req[p]))
      /\ IF req[p].op = "direct" THEN told' = told \cup {<<req[p].u, req[p].c>>} /\ Finish(p)
         ELSE told' = told /\ Goto(p, "number")
  BY DEF Provision, At, Answer
<1>2. MirrorDoes(p) /\ DbTyped'
  BY <1>1, MirrorEffect
<1>3. (Finish(p) => Ended(p)) /\ (Goto(p, "number") => Moved(p, "number"))
  BY ReqEnd, ReqGoto DEF CvTypes, Pcs
<1> QED BY <1>1, <1>2, <1>3 DEF ProvisionDoes

ProvisionFailsDoes(p) ==
    /\ req[p].pc = "provision" /\ DbTyped' /\ UNCHANGED <<backend, ids, told, parted, erased, reported>>
    /\ IF req[p].op = "direct" THEN Undone(p) ELSE Ended(p)
    /\ \/ DbKept /\ late' = late /\ broken' = broken
       \/ MirrorDoes(p) /\ broken' = broken \cup {req[p].c}

LEMMA ProvisionFailsEffect ==
    ASSUME ConversationsAssumption, CvTypes, NEW p \in Procs, ProvisionFails(p)
    PROVE  ProvisionFailsDoes(p)
<1>1. /\ req[p].pc = "provision" /\ UNCHANGED <<backend, ids, told, parted, erased, reported>>
      /\ GiveUp(p)
      /\ \/ UNCHANGED <<db, late, broken>>
         \/ ProvisionMirror(p, SpecRow(req[p])) /\ broken' = broken \cup {req[p].c}
  BY DEF ProvisionFails, At
<1>2. ReqTyped /\ DbTyped
  BY DEF CvTypes
<1>3. DeleteTodo = (IF Mongo THEN Todo3 ELSE TodoAll) /\ DeleteTodo \in Todos
  BY TodoSteps DEF DeleteTodo
<1>4. IF req[p].op = "direct" THEN Undone(p) ELSE Ended(p)
  <2>1. CASE req[p].op = "direct"
    <3>1. PICK x \in Todos : x = DeleteTodo
      BY <1>3
    <3>2. req' = [req EXCEPT ![p].pc = "delete", ![p].op = "undo", ![p].todo = x]
      BY <1>1, <2>1, <3>1 DEF GiveUp
    <3> QED BY <1>2, <1>3, <2>1, <3>1, <3>2, ReqUndo DEF Undone
  <2>2. CASE req[p].op # "direct"
    BY <1>1, <1>2, <2>2, ReqEnd DEF GiveUp
  <2> QED BY <2>1, <2>2
<1>5. CASE UNCHANGED <<db, late, broken>>
  BY <1>1, <1>2, <1>4, <1>5, DbStays DEF ProvisionFailsDoes, DbKept
<1>6. CASE ProvisionMirror(p, SpecRow(req[p])) /\ broken' = broken \cup {req[p].c}
  <2>1. MirrorDoes(p) /\ DbTyped'
    BY <1>1, <1>6, MirrorEffect
  <2> QED BY <1>1, <1>4, <1>6, <2>1 DEF ProvisionFailsDoes
<1> QED BY <1>1, <1>5, <1>6

LEMMA HighestIs ==
    ASSUME NEW S \in SUBSET Nat, S # {}, NEW n \in Nat, \A x \in S : x <= n
    PROVE  Max(S) \in S
<1>1. PICK T : T = {k \in Nat : \E x \in S : x + k = n}
  OBVIOUS
<1>2. T # {}
  <2>1. PICK x \in S : TRUE
    OBVIOUS
  <2>2. PICK i \in Nat : i = x
    BY <2>1
  <2>3. i <= n
    BY <2>1, <2>2
  <2>4. PICK k \in Nat : i + k = n
    <3>1. n - i \in Nat /\ i + (n - i) = n
      BY <2>3
    <3> QED BY <3>1
  <2> QED BY <1>1, <2>1, <2>2, <2>4
<1>3. PICK R : IsWellFoundedOn(R, Nat) /\ R = {ss \in Nat \X Nat : ss[1] < ss[2]}
  BY NatLessThanWellFounded, Zenon DEF OpToRel
<1>4. \E m \in T : \A k \in T : m <= k
  <2>1. T \subseteq Nat
    BY <1>1
  <2>2. PICK m \in T : \A k \in T : ~(<<k, m>> \in R)
    BY <1>2, <1>3, <2>1, WFMin
  <2>3. \A k \in T : ~(k < m)
    BY <1>3, <2>1, <2>2
  <2> QED BY <2>1, <2>2, <2>3
<1>4a. PICK m \in T : \A k \in T : m <= k
  BY <1>4
<1>5. PICK x \in S : x + m = n
  BY <1>1
<1>6. \A y \in S : x >= y
  <2> SUFFICES ASSUME NEW y \in S PROVE x >= y
    OBVIOUS
  <2>1. PICK i \in Nat, j \in Nat, l \in Nat : i = x /\ j = y /\ l = m
    BY <1>1
  <2>2. j <= n /\ i + l = n
    BY <1>5, <2>1
  <2>3. n - j \in Nat /\ j + (n - j) = n
    BY <2>2
  <2>4. n - j \in T
    BY <1>1, <2>1, <2>3
  <2>5. l <= n - j
    BY <1>4a, <2>1, <2>4
  <2> QED BY <2>1, <2>2, <2>5
<1> QED BY <1>6 DEF Max

LEMMA JoinSeqTyped ==
    ASSUME CvTypes, NEW h \in Hosts, NEW c \in Convs
    PROVE  MemoryJoinSeq(db[h], c) \in Nat /\ MongoJoinSeq(db[h], c) \in Nat
<1>1. PICK n \in Nat : \A k \in Hosts : \A m \in Msgs(k) : m.seq <= n
  BY DEF CvTypes, Numbered
<1>2. PICK S : S = {0} \cup {m.seq : m \in {x \in db[h].msgs : x.conv = c}}
  OBVIOUS
<1>3. \A m \in db[h].msgs : m.seq \in Nat /\ m.seq <= n
  BY <1>1, TableTypes DEF CvTypes, Msgs, ChatMessage
<1>4. S \in SUBSET Nat /\ S # {} /\ \A x \in S : x <= n
  BY <1>2, <1>3
<1>5. Max(S) \in Nat
  BY <1>4, HighestIs
<1>6. MongoJoinSeq(db[h], c) \in Nat
  BY TableTypes DEF CvTypes, MongoJoinSeq, Conversation, Row
<1> QED BY <1>2, <1>5, <1>6 DEF MemoryJoinSeq

\* A write that makes somebody a member from the number n on, or finds that they are one.
JoinDoes(h, c, v, n) ==
    /\ DbTyped' /\ RowsKept /\ MsgsKept /\ PhotosKept /\ Marked(h, c, "member")
    /\ \/ Mem(h, c, v) # None /\ MemsKept
       \/ \E m \in ConversationMember :
             /\ m # None /\ m.role = "user" /\ m.delivered = n /\ m.read = n /\ MemSet(h, c, v, m)

LEMMA JoinEffect ==
    ASSUME ConversationsAssumption, CvTypes, NEW h \in Hosts, NEW c \in Convs, NEW v \in Users, NEW n \in Nat,
           AddRow(h, AddConversationMember(db[h], c, v, n), c, "member")
    PROVE  JoinDoes(h, c, v, n)
<1>1. DbTyped
  BY DEF CvTypes
<1>2. Marked(h, c, "member") /\ db' = [db EXCEPT ![h] = AddConversationMember(db[h], c, v, n)]
  BY AddRowMarks
<1>3. CASE Mem(h, c, v) # None
  <2>1. db' = [db EXCEPT ![h] = db[h]]
    BY <1>2, <1>3 DEF AddConversationMember, Mem
  <2>2. db' = db
    BY <1>1, <2>1 DEF DbTyped
  <2> QED BY <1>1, <1>2, <1>3, <2>2, DbStays DEF JoinDoes
<1>4. CASE Mem(h, c, v) = None
  <2>1. PICK m : m = Joining("user", n)
    OBVIOUS
  <2>2. m = [role |-> "user", join |-> n, delivered |-> n, read |-> n] /\ m \in ConversationMember
    BY <2>1, JoiningIs DEF Roles
  <2>3. m # None
    BY <2>2 DEF ConversationsAssumption
  <2>4. db' = [db EXCEPT ![h] = [db[h] EXCEPT !.members[c][v] = m]]
    BY <1>2, <1>4, <2>1 DEF AddConversationMember, Mem
  <2>5. DbTyped' /\ RowsKept /\ MemSet(h, c, v, m) /\ MsgsKept /\ PhotosKept
    BY <1>1, <2>2, <2>4, WriteMember
  <2>6. m.role = "user" /\ m.delivered = n /\ m.read = n
    BY <2>2
  <2> QED BY <1>2, <2>2, <2>3, <2>5, <2>6 DEF JoinDoes
<1> QED BY <1>3, <1>4

\* Nobody's position goes back, and theirs is at least n.
Reached(u, c, n) ==
    /\ reported' \in [Users -> [Convs -> Nat]] /\ n <= reported'[u][c]
    /\ \A w \in Users, x \in Convs : reported[w][x] <= reported'[w][x]

LEMMA ReachedEffect ==
    ASSUME CvTypes, NEW u \in Users, NEW c \in Convs, NEW n \in Nat,
           reported' = [reported EXCEPT ![u][c] = Later(@, n)]
    PROVE  Reached(u, c, n)
<1>1. reported \in [Users -> [Convs -> Nat]]
  BY DEF CvTypes
<1>2. PICK o \in Nat : o = reported[u][c]
  BY <1>1
<1>3. PICK l \in Nat : l = Later(o, n) /\ o <= l /\ n <= l
  BY DEF Later
<1>4. reported' = [reported EXCEPT ![u][c] = l]
  BY <1>2, <1>3
<1>5. reported' \in [Users -> [Convs -> Nat]] /\ reported'[u][c] = l
  BY <1>1, <1>4
<1>6. \A w \in Users, x \in Convs : w # u \/ x # c => reported'[w][x] = reported[w][x]
  BY <1>1, <1>4
<1>7. \A w \in Users, x \in Convs : reported[w][x] <= reported'[w][x]
  <2> SUFFICES ASSUME NEW w \in Users, NEW x \in Convs PROVE reported[w][x] <= reported'[w][x]
    OBVIOUS
  <2>1. reported[w][x] \in Nat
    BY <1>1
  <2> QED BY <1>2, <1>3, <1>5, <1>6, <2>1
<1> QED BY <1>3, <1>5, <1>7 DEF Reached

JoinSeqDoes(p) ==
    /\ req[p].pc = "joinSeq" /\ UNCHANGED <<backend, ids, told, parted, broken, erased>>
    /\ \/ /\ DbTyped' /\ DbKept /\ late' = late /\ reported' = reported
          /\ \/ Moved(p, AfterAdd(p)) \/ \E n \in Nat : MovedWith(p, "insertMember", n)
       \/ /\ Moved(p, AfterAdd(p))
          /\ \E n \in Nat : JoinDoes(req[p].h, req[p].c, req[p].v, n) /\ Reached(req[p].v, req[p].c, n)

LEMMA AddAtWork ==
    ASSUME ConversationsAssumption, CvTypes, NEW p \in Procs, req[p].pc \in {"joinSeq", "insertMember"}
    PROVE  /\ req[p].h \in Hosts /\ req[p].c \in Convs /\ req[p].v \in Users /\ req[p].op = "add"
           /\ AfterAdd(p) \in {"number", "provision"} /\ AfterAdd(p) \in Pcs
           /\ req[p].pc = "insertMember" => req[p].arg \in Nat
BY AtWork DEF CvTypes, InOrder, AfterAdd, Pcs

LEMMA JoinSeqEffect ==
    ASSUME ConversationsAssumption, CvTypes, NEW p \in Procs, JoinSeq(p)
    PROVE  JoinSeqDoes(p)
<1>1. req[p].pc = "joinSeq" /\ UNCHANGED <<backend, ids, told, parted, broken, erased>>
  BY DEF JoinSeq, At
<1>2. req[p].h \in Hosts /\ req[p].c \in Convs /\ req[p].v \in Users /\ AfterAdd(p) \in Pcs
  BY <1>1, AddAtWork
<1>3. MemoryJoinSeq(db[req[p].h], req[p].c) \in Nat /\ MongoJoinSeq(db[req[p].h], req[p].c) \in Nat
  BY <1>2, JoinSeqTyped
<1>4. ReqTyped /\ DbTyped
  BY DEF CvTypes
<1>5. Goto(p, AfterAdd(p)) => Moved(p, AfterAdd(p))
  BY <1>2, <1>4, ReqGoto
<1>6. CASE Mongo
  <2>1. UNCHANGED <<db, late, reported>>
    BY <1>6 DEF JoinSeq
  <2>2. \/ Goto(p, AfterAdd(p))
        \/ req' = [req EXCEPT ![p].pc = "insertMember", ![p].arg = MongoJoinSeq(db[req[p].h], req[p].c)]
    BY <1>6 DEF JoinSeq
  <2>3. \/ Moved(p, AfterAdd(p)) \/ \E n \in Nat : MovedWith(p, "insertMember", n)
    <3>1. CASE Goto(p, AfterAdd(p))
      BY <1>5, <3>1
    <3>2. CASE req' = [req EXCEPT ![p].pc = "insertMember", ![p].arg = MongoJoinSeq(db[req[p].h], req[p].c)]
      <4>1. PICK n \in Nat : n = MongoJoinSeq(db[req[p].h], req[p].c)
        BY <1>3
      <4>2. n \in Args
        BY DEF Args
      <4>3. MovedWith(p, "insertMember", n)
        BY <1>4, <3>2, <4>1, <4>2, ReqGotoArg DEF Pcs
      <4> QED BY <4>3
    <3> QED BY <2>2, <3>1, <3>2
  <2> QED BY <1>1, <1>4, <2>1, <2>3, DbStays DEF JoinSeqDoes, DbKept
<1>7. CASE ~Mongo
  <2>1. PICK n \in Nat : n = MemoryJoinSeq(db[req[p].h], req[p].c)
    BY <1>3
  <2>2. /\ AddRow(req[p].h, MemoryAddConversationMember(db[req[p].h], req[p].c, req[p].v), req[p].c, "member")
        /\ JoinedAt(req[p].v, req[p].c, MemoryJoinSeq(db[req[p].h], req[p].c)) /\ Goto(p, AfterAdd(p))
    BY <1>7 DEF JoinSeq
  <2>3. AddRow(req[p].h, AddConversationMember(db[req[p].h], req[p].c, req[p].v, n), req[p].c, "member")
    BY <2>1, <2>2 DEF MemoryAddConversationMember
  <2>4. reported' = [reported EXCEPT ![req[p].v][req[p].c] = Later(@, n)]
    BY <2>1, <2>2 DEF JoinedAt
  <2>5. JoinDoes(req[p].h, req[p].c, req[p].v, n) /\ Reached(req[p].v, req[p].c, n)
    BY <1>2, <2>3, <2>4, JoinEffect, ReachedEffect
  <2> QED BY <1>1, <1>5, <2>2, <2>5 DEF JoinSeqDoes
<1> QED BY <1>6, <1>7

InsertMemberDoes(p) ==
    /\ req[p].pc = "insertMember" /\ UNCHANGED <<backend, ids, told, parted, broken, erased>>
    /\ Moved(p, AfterAdd(p))
    /\ JoinDoes(req[p].h, req[p].c, req[p].v, req[p].arg) /\ Reached(req[p].v, req[p].c, req[p].arg)

LEMMA InsertMemberEffect ==
    ASSUME ConversationsAssumption, CvTypes, NEW p \in Procs, InsertMember(p)
    PROVE  InsertMemberDoes(p)
<1>1. /\ req[p].pc = "insertMember" /\ UNCHANGED <<backend, ids, told, parted, broken, erased>>
      /\ AddRow(req[p].h, AddConversationMember(db[req[p].h], req[p].c, req[p].v, req[p].arg), req[p].c, "member")
      /\ reported' = [reported EXCEPT ![req[p].v][req[p].c] = Later(@, req[p].arg)]
      /\ Goto(p, AfterAdd(p))
  BY DEF InsertMember, At, JoinedAt
<1>2. req[p].h \in Hosts /\ req[p].c \in Convs /\ req[p].v \in Users /\ AfterAdd(p) \in Pcs /\ req[p].arg \in Nat
  BY <1>1, AddAtWork
<1>3. JoinDoes(req[p].h, req[p].c, req[p].v, req[p].arg)
  BY <1>1, <1>2, JoinEffect
<1>4. Reached(req[p].v, req[p].c, req[p].arg)
  BY <1>1, <1>2, ReachedEffect
<1>5. Moved(p, AfterAdd(p))
  BY <1>1, <1>2, ReqGoto DEF CvTypes
<1> QED BY <1>1, <1>3, <1>4, <1>5 DEF InsertMemberDoes

RemoveMemberDoes(p) ==
    /\ req[p].pc = "removeMember" /\ UNCHANGED <<backend, ids, told, broken, erased, late, reported>>
    /\ DbTyped' /\ RowsKept /\ MsgsKept /\ PhotosKept
    /\ \/ Ended(p) /\ MemsKept /\ parted' = parted
       \/ /\ Moved(p, "number") /\ MemSet(req[p].h, req[p].c, req[p].v, None)
          /\ parted' = parted \cup {<<req[p].v, req[p].c>>}

LEMMA RemoveMemberEffect ==
    ASSUME ConversationsAssumption, CvTypes, NEW p \in Procs, RemoveMember(p)
    PROVE  RemoveMemberDoes(p)
<1>1. req[p].pc = "removeMember" /\ UNCHANGED <<backend, ids, told, broken, erased, late, reported>>
  BY DEF RemoveMember, At, Write
<1>2. req[p].h \in Hosts /\ req[p].c \in Convs /\ req[p].v \in Users
  BY <1>1, AtWork DEF CvTypes, InOrder
<1>3. ReqTyped /\ DbTyped
  BY DEF CvTypes
<1>4. \/ Finish(p) /\ UNCHANGED <<db, parted>>
      \/ /\ db' = [db EXCEPT ![req[p].h] = [db[req[p].h] EXCEPT !.members[req[p].c][req[p].v] = None]]
         /\ parted' = parted \cup {<<req[p].v, req[p].c>>} /\ Goto(p, "number")
  BY DEF RemoveMember, Write, RemoveConversationMember
<1>5. CASE Finish(p) /\ UNCHANGED <<db, parted>>
  BY <1>1, <1>3, <1>5, ReqEnd, DbStays DEF RemoveMemberDoes
<1>6. CASE /\ db' = [db EXCEPT ![req[p].h] = [db[req[p].h] EXCEPT !.members[req[p].c][req[p].v] = None]]
           /\ parted' = parted \cup {<<req[p].v, req[p].c>>} /\ Goto(p, "number")
  <2>1. DbTyped' /\ RowsKept /\ MemSet(req[p].h, req[p].c, req[p].v, None) /\ MsgsKept /\ PhotosKept
    BY <1>2, <1>3, <1>6, WriteMember
  <2>2. Moved(p, "number")
    BY <1>3, <1>6, ReqGoto DEF Pcs
  <2> QED BY <1>1, <1>6, <2>1, <2>2 DEF RemoveMemberDoes
<1> QED BY <1>4, <1>5, <1>6

LEMMA RoleGiven ==
    ASSUME ConversationsAssumption, NEW m \in ConversationMember, NEW role \in Roles, NEW o,
           o = [m EXCEPT !.role = role]
    PROVE  o \in ConversationMember /\ o # None /\ o.delivered = m.delivered /\ o.read = m.read /\ o.role = role
<1>1. o \in ConversationMember /\ o.delivered = m.delivered /\ o.read = m.read /\ o.role = role
  BY DEF ConversationMember
<1> QED BY <1>1 DEF ConversationsAssumption

SetMemberRoleDoes(u, v, c) ==
    LET h == Home[u]
    IN /\ DbTyped' /\ RowsKept /\ MsgsKept /\ PhotosKept
       /\ UNCHANGED <<backend, req, ids, told, parted, broken, erased, late, reported>>
       /\ Mem(h, c, u) # None /\ Row(h, c) # None /\ Row(h, c).kind = "group" /\ Mem(h, c, v) # None
       /\ \E m \in ConversationMember :
             /\ m # None /\ m.delivered = Mem(h, c, v).delivered /\ m.read = Mem(h, c, v).read
             /\ MemSet(h, c, v, m)

LEMMA SetMemberRoleEffect ==
    ASSUME ConversationsAssumption, CvTypes, NEW u \in Users, NEW v \in Users, NEW c \in Convs, NEW role \in Roles,
           setMemberRole(u, v, c, role)
    PROVE  SetMemberRoleDoes(u, v, c)
<1>1. PICK h \in Hosts : h = Home[u]
  BY DEF ConversationsAssumption
<1>2. /\ UNCHANGED <<backend, req, ids, told, parted, broken, erased, late, reported>>
      /\ Mem(h, c, u) # None /\ Row(h, c) # None /\ Row(h, c).kind = "group" /\ Mem(h, c, v) # None
      /\ db' = [db EXCEPT ![h] = [db[h] EXCEPT !.members[c][v].role = role]]
  BY <1>1 DEF setMemberRole, IsAdmin, requireMember, Exists, Mem, Row, Write, SetConversationMemberRole
<1>3. DbTyped
  BY DEF CvTypes
<1>4. PICK m \in ConversationMember : m = Mem(h, c, v)
  BY <1>2, <1>3, TableTypes
<1>5. PICK o : o = [m EXCEPT !.role = role]
  OBVIOUS
<1>6. o \in ConversationMember /\ o # None /\ o.delivered = m.delivered /\ o.read = m.read
  BY <1>5, RoleGiven
<1>7. db' = [db EXCEPT ![h] = [db[h] EXCEPT !.members[c][v] = o]]
  <2>1. PICK d \in Database : d = db[h]
    BY <1>3 DEF DbTyped
  <2>2. m = d.members[c][v]
    BY <1>4, <2>1 DEF Mem
  <2>3. [d EXCEPT !.members[c][v].role = role] = [d EXCEPT !.members[c][v] = o]
    BY <1>5, <2>2
  <2> QED BY <1>2, <2>1, <2>3
<1>8. DbTyped' /\ RowsKept /\ MemSet(h, c, v, o) /\ MsgsKept /\ PhotosKept
  BY <1>3, <1>6, <1>7, WriteMember
<1> QED BY <1>1, <1>2, <1>4, <1>6, <1>8 DEF SetMemberRoleDoes

\* The rows are there that were, and only a counter may have moved.
RowsAlike ==
    \A k \in Hosts, x \in Convs :
        /\ RowNext(k, x) = None <=> Row(k, x) = None
        /\ Row(k, x) # None => /\ RowNext(k, x).kind = Row(k, x).kind /\ RowNext(k, x).pair = Row(k, x).pair
                               /\ RowNext(k, x).hub = Row(k, x).hub

LEMMA KeptIsAlike ==
    ASSUME RowsKept
    PROVE  RowsAlike
BY DEF RowsKept, RowsAlike

\* A message of conversation c is stored on h.
MsgAdded(h, c) == \E m \in ChatMessage : m.conv = c /\ MsgsSet(h, Msgs(h) \cup {m})

LEMMA MessageMade ==
    ASSUME NEW c \in Convs, NEW n \in Nat, NEW u \in Users
    PROVE  [conv |-> c, seq |-> n, by |-> u] \in ChatMessage /\ [conv |-> c, seq |-> n, by |-> u].conv = c
BY DEF ChatMessage

LEMMA StoreEffect ==
    ASSUME CvTypes, NEW h \in Hosts, NEW c \in Convs, NEW n \in Nat, NEW u \in Users,
           db' = [db EXCEPT ![h] = [db[h] EXCEPT !.msgs = @ \cup {[conv |-> c, seq |-> n, by |-> u]}]]
    PROVE  DbTyped' /\ RowsKept /\ MemsKept /\ MsgAdded(h, c) /\ PhotosKept
<1>1. DbTyped
  BY DEF CvTypes
<1>2. PICK m \in ChatMessage : m = [conv |-> c, seq |-> n, by |-> u] /\ m.conv = c
  BY MessageMade
<1>3. PICK S : S = Msgs(h) \cup {m}
  OBVIOUS
<1>4. S \in SUBSET ChatMessage
  BY <1>1, <1>3, TableTypes
<1>5. db' = [db EXCEPT ![h] = [db[h] EXCEPT !.msgs = S]]
  <2>1. PICK d \in Database : d = db[h]
    BY <1>1 DEF DbTyped
  <2>2. S = d.msgs \cup {m}
    BY <1>3, <2>1 DEF Msgs
  <2>3. [d EXCEPT !.msgs = @ \cup {[conv |-> c, seq |-> n, by |-> u]}] = [d EXCEPT !.msgs = S]
    BY <1>2, <2>2
  <2> QED BY <2>1, <2>3
<1>6. DbTyped' /\ RowsKept /\ MemsKept /\ MsgsSet(h, S) /\ PhotosKept
  BY <1>1, <1>4, <1>5, WriteMsgs
<1> QED BY <1>2, <1>3, <1>6 DEF MsgAdded

TakeNumberDoes(p) ==
    /\ req[p].pc = "number" /\ DbTyped' /\ MemsKept /\ PhotosKept /\ RowsAlike
    /\ UNCHANGED <<backend, ids, told, parted, broken, erased, reported>>
    /\ \/ MsgsKept /\ late' = late /\ \E n \in Nat : MovedWith(p, "store", n)
       \/ MsgAdded(req[p].h, req[p].c) /\ Marked(req[p].h, req[p].c, "message") /\ Ended(p)

LEMMA NumberTaken ==
    ASSUME ConversationsAssumption, DbTyped, NEW h \in Hosts, NEW c \in Convs, NEW d \in Database, d = db[h],
           db' = [db EXCEPT ![h] = MongoTakeNumber(d, c)]
    PROVE  DbTyped' /\ RowsAlike /\ MemsKept /\ MsgsKept /\ PhotosKept
<1>1. CASE Row(h, c) = None
  <2>1. db' = db
    BY <1>1 DEF MongoTakeNumber, Row, DbTyped
  <2> QED BY <2>1, DbStays, KeptIsAlike
<1>2. CASE Row(h, c) # None
  <2>1. PICK row \in Conversation : row = Row(h, c)
    BY <1>2, TableTypes
  <2>2. PICK s : s = [row EXCEPT !.seq = row.seq + 1]
    OBVIOUS
  <2>3. s \in Conversation /\ s.kind = row.kind /\ s.pair = row.pair /\ s.hub = row.hub
    BY <2>2 DEF Conversation
  <2>4. s # None
    BY <2>3 DEF ConversationsAssumption
  <2>5. row = d.rows[c]
    BY <2>1 DEF Row
  <2>6. MongoTakeNumber(d, c) = [d EXCEPT !.rows[c] = s]
    <3>1. [d EXCEPT !.rows[c].seq = @ + 1] = [d EXCEPT !.rows[c] = s]
      BY <2>2, <2>5
    <3> QED BY <1>2, <2>1, <2>5, <3>1 DEF MongoTakeNumber
  <2>7. db' = [db EXCEPT ![h] = [db[h] EXCEPT !.rows[c] = s]]
    BY <2>6
  <2>8. DbTyped' /\ RowSet(h, c, s) /\ MemsKept /\ MsgsKept /\ PhotosKept
    BY <2>3, <2>7, WriteRow
  <2>9. RowsAlike
    BY <1>2, <2>1, <2>3, <2>4, <2>8 DEF RowSet, RowsAlike
  <2> QED BY <2>8, <2>9
<1> QED BY <1>1, <1>2

LEMMA NumberIs ==
    ASSUME DbTyped, NEW h \in Hosts, NEW c \in Convs, NEW d, d = db[h]
    PROVE  MongoJoinSeq(MongoTakeNumber(d, c), c) \in Nat
<1>1. PICK e \in Database : e = d
  BY DEF DbTyped
<1>2. CASE e.rows[c] = None
  <2>1. MongoTakeNumber(e, c) = e
    BY <1>2 DEF MongoTakeNumber
  <2>2. MongoJoinSeq(e, c) = 0
    BY <1>2 DEF MongoJoinSeq
  <2> QED BY <1>1, <2>1, <2>2
<1>3. CASE e.rows[c] # None
  <2>1. PICK row \in Conversation : row = e.rows[c]
    BY <1>3, DatabaseParts
  <2>2. PICK s : s = [row EXCEPT !.seq = row.seq + 1]
    OBVIOUS
  <2>3. s \in Conversation /\ s.seq \in Nat
    BY <2>2 DEF Conversation
  <2>4. PICK f : f = [e EXCEPT !.rows[c] = s]
    OBVIOUS
  <2>5. MongoTakeNumber(e, c) = f
    <3>1. [e EXCEPT !.rows[c].seq = @ + 1] = f
      BY <2>1, <2>2, <2>4
    <3> QED BY <1>3, <3>1 DEF MongoTakeNumber
  <2>6. f.rows = [e.rows EXCEPT ![c] = s]
    BY <2>4, PutRow
  <2>7. f.rows[c] = s
    BY <2>6, DatabaseParts
  <2>8. MongoJoinSeq(f, c) = IF s = None THEN 0 ELSE s.seq
    BY <2>7 DEF MongoJoinSeq
  <2> QED BY <1>1, <2>3, <2>5, <2>8
<1> QED BY <1>2, <1>3

LEMMA TakeNumberEffect ==
    ASSUME ConversationsAssumption, CvTypes, NEW p \in Procs, TakeNumber(p)
    PROVE  TakeNumberDoes(p)
<1>1. req[p].pc = "number" /\ UNCHANGED <<backend, ids, told, parted, broken, erased, reported>>
  BY DEF TakeNumber, At
<1>2. req[p].h \in Hosts /\ req[p].c \in Convs /\ req[p].u \in Users
  BY <1>1, AtWork
<1>3. ReqTyped /\ DbTyped
  BY DEF CvTypes
<1>4. CASE Mongo
  <2>1. /\ db' = [db EXCEPT ![req[p].h] = MongoTakeNumber(db[req[p].h], req[p].c)] /\ late' = late
        /\ req' = [req EXCEPT ![p].pc = "store",
                              ![p].arg = MongoJoinSeq(MongoTakeNumber(db[req[p].h], req[p].c), req[p].c)]
    BY <1>4 DEF TakeNumber, Write
  <2>2. PICK d \in Database : d = db[req[p].h]
    BY <1>2, <1>3 DEF DbTyped
  <2>3. DbTyped' /\ RowsAlike /\ MemsKept /\ MsgsKept /\ PhotosKept
    BY <1>2, <1>3, <2>1, <2>2, NumberTaken
  <2>4. PICK n \in Nat : n = MongoJoinSeq(MongoTakeNumber(d, req[p].c), req[p].c)
    BY <1>2, <1>3, <2>2, NumberIs
  <2>5. n \in Args
    BY DEF Args
  <2>6. MovedWith(p, "store", n)
    BY <1>3, <2>1, <2>2, <2>4, <2>5, ReqGotoArg DEF Pcs
  <2> QED BY <1>1, <2>1, <2>3, <2>6 DEF TakeNumberDoes
<1>5. CASE ~Mongo
  <2>1. /\ AddRow(req[p].h, MemoryAppendChatMessage(db[req[p].h], req[p].c, req[p].u), req[p].c, "message")
        /\ Finish(p)
    BY <1>5 DEF TakeNumber
  <2>2. PICK n \in Nat : n = MemoryJoinSeq(db[req[p].h], req[p].c) + 1
    <3>1. PICK j \in Nat : j = MemoryJoinSeq(db[req[p].h], req[p].c)
      BY <1>2, JoinSeqTyped
    <3> QED BY <3>1
  <2>3. /\ Marked(req[p].h, req[p].c, "message")
        /\ db' = [db EXCEPT ![req[p].h] = [db[req[p].h] EXCEPT !.msgs = @ \cup {[conv |-> req[p].c, seq |-> n, by |-> req[p].u]}]]
    BY <2>1, <2>2, AddRowMarks DEF MemoryAppendChatMessage
  <2>4. DbTyped' /\ RowsKept /\ MemsKept /\ MsgAdded(req[p].h, req[p].c) /\ PhotosKept
    BY <1>2, <2>3, StoreEffect
  <2>5. Ended(p)
    BY <1>3, <2>1, ReqEnd
  <2> QED BY <1>1, <2>3, <2>4, <2>5, KeptIsAlike DEF TakeNumberDoes
<1> QED BY <1>4, <1>5

StoreMessageDoes(p) ==
    /\ req[p].pc = "store" /\ DbTyped' /\ RowsKept /\ MemsKept /\ PhotosKept
    /\ UNCHANGED <<backend, ids, told, parted, broken, erased, reported>>
    /\ MsgAdded(req[p].h, req[p].c) /\ Marked(req[p].h, req[p].c, "message") /\ Ended(p)

LEMMA StoreMessageEffect ==
    ASSUME CvTypes, NEW p \in Procs, StoreMessage(p)
    PROVE  StoreMessageDoes(p)
<1>1. /\ req[p].pc = "store" /\ UNCHANGED <<backend, ids, told, parted, broken, erased, reported>>
      /\ AddRow(req[p].h, MongoInsertMessage(db[req[p].h], [conv |-> req[p].c, seq |-> req[p].arg, by |-> req[p].u]),
                req[p].c, "message")
      /\ Finish(p)
  BY DEF StoreMessage, At
<1>2. req[p].h \in Hosts /\ req[p].c \in Convs /\ req[p].u \in Users /\ req[p].arg \in Nat
  BY <1>1, AtWork DEF CvTypes, InOrder
<1>3. /\ Marked(req[p].h, req[p].c, "message")
      /\ db' = [db EXCEPT ![req[p].h] = [db[req[p].h] EXCEPT
                  !.msgs = @ \cup {[conv |-> req[p].c, seq |-> req[p].arg, by |-> req[p].u]}]]
  BY <1>1, AddRowMarks DEF MongoInsertMessage
<1>4. DbTyped' /\ RowsKept /\ MemsKept /\ MsgAdded(req[p].h, req[p].c) /\ PhotosKept
  BY <1>2, <1>3, StoreEffect
<1>5. Ended(p)
  BY <1>1, ReqEnd DEF CvTypes
<1> QED BY <1>1, <1>3, <1>4, <1>5 DEF StoreMessageDoes

\* A receipt moves the member's watermarks forward.
ReceiptDoes(h, c, u, delivered, read) ==
    /\ DbTyped' /\ RowsKept /\ MsgsKept /\ PhotosKept
    /\ \E m \in ConversationMember :
          /\ m # None /\ m.role = Mem(h, c, u).role /\ MemSet(h, c, u, m)
          /\ m.delivered = Later(Mem(h, c, u).delivered, delivered)
          /\ m.read = Later(Mem(h, c, u).read, read)

LEMMA WatermarksMove ==
    ASSUME NEW o \in ConversationMember, NEW i \in Nat, NEW j \in Nat
    PROVE  [o EXCEPT !.delivered = i, !.read = j] = [role |-> o.role, join |-> o.join, delivered |-> i, read |-> j]
<1>1. PICK role, join, delivered, read :
        o = [role |-> role, join |-> join, delivered |-> delivered, read |-> read]
  BY DEF ConversationMember
<1>2. [o EXCEPT !.delivered = i, !.read = j] = [[o EXCEPT !.delivered = i] EXCEPT !.read = j]
  BY <1>1
<1>3. [o EXCEPT !.delivered = i] = [role |-> role, join |-> join, delivered |-> i, read |-> read]
  BY <1>1
<1>4. [[role |-> role, join |-> join, delivered |-> i, read |-> read] EXCEPT !.read = j]
      = [role |-> role, join |-> join, delivered |-> i, read |-> j]
  OBVIOUS
<1>5. o.role = role /\ o.join = join
  BY <1>1
<1> QED BY <1>2, <1>3, <1>4, <1>5

LEMMA ForwardIs ==
    ASSUME NEW o \in ConversationMember, NEW delivered \in Nat, NEW read \in Nat
    PROVE  /\ MongoForward(o, delivered, read)
              = [role |-> o.role, join |-> o.join, delivered |-> Later(o.delivered, delivered), read |-> Later(o.read, read)]
           /\ MemoryForward(o, delivered, read) = MongoForward(o, delivered, read)
<1>1. o.delivered \in Nat /\ o.read \in Nat
  BY DEF ConversationMember
<1>2. PICK i \in Nat, j \in Nat : i = Later(o.delivered, delivered) /\ j = Later(o.read, read)
  BY <1>1 DEF Later
<1>3. [o EXCEPT !.delivered = i, !.read = j] = [role |-> o.role, join |-> o.join, delivered |-> i, read |-> j]
  BY WatermarksMove
<1>4. MongoForward(o, delivered, read) = [o EXCEPT !.delivered = i, !.read = j]
  BY <1>2, Zenon DEF MongoForward
<1>5. /\ i = IF delivered > o.delivered THEN delivered ELSE o.delivered
      /\ j = IF read > o.read THEN read ELSE o.read
  BY <1>1, <1>2 DEF Later
<1>6. MemoryForward(o, delivered, read) = [o EXCEPT !.delivered = i, !.read = j]
  BY <1>5, Zenon DEF MemoryForward
<1> QED BY <1>2, <1>3, <1>4, <1>6

MemberPut(d, c, u, m) == [d EXCEPT !.members[c][u] = m]

LEMMA ReceiptIs ==
    ASSUME NEW d, NEW c, NEW u, NEW delivered \in Nat, NEW read \in Nat,
           d.members[c][u] \in ConversationMember
    PROVE  Receipt(d, c, u, delivered, read)
           = MemberPut(d, c, u, MongoForward(d.members[c][u], delivered, read))
<1>1. MemoryForward(d.members[c][u], delivered, read) = MongoForward(d.members[c][u], delivered, read)
  BY ForwardIs
<1>2. MongoSetConversationReceipt(d, c, u, delivered, read)
      = MemberPut(d, c, u, MongoForward(d.members[c][u], delivered, read))
  BY Zenon DEF MemberPut, MongoSetConversationReceipt
<1>3. MemorySetConversationReceipt(d, c, u, delivered, read)
      = MemberPut(d, c, u, MemoryForward(d.members[c][u], delivered, read))
  BY Zenon DEF MemberPut, MemorySetConversationReceipt
<1> QED BY <1>1, <1>2, <1>3, Zenon DEF Receipt

LEMMA ReceiptWrites ==
    ASSUME ConversationsAssumption, CvTypes, NEW h \in Hosts, NEW c \in Convs, NEW u \in Users,
           NEW delivered \in Nat, NEW read \in Nat, Mem(h, c, u) # None
    PROVE  \E m \in ConversationMember :
             /\ m # None /\ m.role = Mem(h, c, u).role
             /\ m.delivered = Later(Mem(h, c, u).delivered, delivered) /\ m.read = Later(Mem(h, c, u).read, read)
             /\ Receipt(db[h], c, u, delivered, read) = MemberPut(db[h], c, u, m)
<1>1. DbTyped
  BY DEF CvTypes
<1>2. PICK o \in ConversationMember : o = Mem(h, c, u)
  BY <1>1, TableTypes
<1>3. o.delivered \in Nat /\ o.read \in Nat /\ o.join \in Nat /\ o.role \in Roles
  BY DEF ConversationMember
<1>4. PICK i \in Nat, j \in Nat : i = Later(o.delivered, delivered) /\ j = Later(o.read, read)
  BY <1>3 DEF Later
<1>5. db[h].members[c][u] = o
  BY <1>2 DEF Mem
<1>6. PICK m : /\ m = [role |-> o.role, join |-> o.join, delivered |-> i, read |-> j]
               /\ m = MongoForward(o, delivered, read)
  BY <1>4, ForwardIs
<1>6a. Receipt(db[h], c, u, delivered, read) = MemberPut(db[h], c, u, m)
  <2>0. PICK d \in Database : d = db[h]
    BY <1>1 DEF DbTyped
  <2>1. d.members[c][u] = o
    BY <1>5, <2>0
  <2>2. Receipt(d, c, u, delivered, read) = MemberPut(d, c, u, MongoForward(d.members[c][u], delivered, read))
    <3>1. d.members[c][u] \in ConversationMember
      BY <2>1
    <3> QED BY <3>1, ReceiptIs, SMT
  <2>3. Receipt(d, c, u, delivered, read) = MemberPut(d, c, u, m)
    BY <1>6, <2>1, <2>2
  <2> QED BY <2>0, <2>3
<1>7. m \in ConversationMember /\ m.role = o.role /\ m.delivered = i /\ m.read = j
  BY <1>3, <1>4, <1>6 DEF ConversationMember
<1>8. m # None
  BY <1>7 DEF ConversationsAssumption
<1> QED BY <1>2, <1>4, <1>6a, <1>7, <1>8

LEMMA ReceiptEffect ==
    ASSUME ConversationsAssumption, CvTypes, NEW h \in Hosts, NEW c \in Convs, NEW u \in Users,
           NEW delivered \in Nat, NEW read \in Nat, Mem(h, c, u) # None
    PROVE  db' = [db EXCEPT ![h] = Receipt(db[h], c, u, delivered, read)] =>
             /\ ReceiptDoes(h, c, u, delivered, read)
             /\ Receipt(db[h], c, u, delivered, read).members[c][u] = MemNext(h, c, u)
<1>1. PICK m \in ConversationMember :
             /\ m # None /\ m.role = Mem(h, c, u).role
             /\ m.delivered = Later(Mem(h, c, u).delivered, delivered) /\ m.read = Later(Mem(h, c, u).read, read)
             /\ Receipt(db[h], c, u, delivered, read) = MemberPut(db[h], c, u, m)
  BY ReceiptWrites
<1>2. DbTyped /\ m \in ConversationMember \cup {None}
  BY DEF CvTypes
<1>3. db' = [db EXCEPT ![h] = [db[h] EXCEPT !.members[c][u] = m]] =>
        DbTyped' /\ RowsKept /\ MemSet(h, c, u, m) /\ MsgsKept /\ PhotosKept
  BY <1>2, WriteMember
<1>4. [db[h] EXCEPT !.members[c][u] = m].members[c][u] = m
  BY <1>2 DEF DbTyped, Database
<1> QED BY <1>1, <1>3, <1>4 DEF ReceiptDoes, MemSet, MemberPut

ReportDoes(p, u, c, delivered, read) ==
    /\ req[p].pc = "idle" /\ UNCHANGED <<backend, ids, told, parted, broken, erased, late>>
    /\ Mem(Home[u], c, u) # None
    /\ ReceiptDoes(Home[u], c, u, Later(delivered, read), read)
    /\ Reached(u, c, Later(delivered, read))
    /\ req'[p] = NewRequest("forward", "receipt", u, None, c,
                            <<(MemNext(Home[u], c, u)).delivered, (MemNext(Home[u], c, u)).read>>)
    /\ OthersWait(p) /\ ReqTyped'

LEMMA NewRequestIs ==
    ASSUME ConversationsAssumption, NEW pc \in Pcs, NEW op \in Ops, NEW u \in Users, NEW v \in Users \cup {None},
           NEW c \in Convs \cup {None}, NEW arg \in Args
    PROVE  LET r == NewRequest(pc, op, u, v, c, arg)
           IN /\ r \in Requests /\ r.pc = pc /\ r.op = op /\ r.u = u /\ r.v = v /\ r.c = c /\ r.h = Home[u]
              /\ r.arg = arg /\ r.todo = <<>>
<1>1. Home[u] \in Hosts /\ <<>> \in Todos
  BY DEF ConversationsAssumption, Todos
<1>2. PICK r : r = [pc |-> pc, op |-> op, u |-> u, v |-> v, c |-> c, h |-> Home[u], arg |-> arg, todo |-> <<>>]
  OBVIOUS
<1>3. r \in Requests
  BY <1>1, <1>2, RequestMade
<1>4. /\ r.pc = pc /\ r.op = op /\ r.u = u /\ r.v = v /\ r.c = c /\ r.h = Home[u]
      /\ r.arg = arg /\ r.todo = <<>>
  BY <1>2
<1> QED BY <1>2, <1>3, <1>4 DEF NewRequest

LEMMA ReportEffect ==
    ASSUME ConversationsAssumption, CvTypes, NEW p \in Procs, NEW u \in Users, NEW c \in Convs,
           NEW delivered \in Nat, NEW read \in Nat, reportReceipt(p, u, c, delivered, read)
    PROVE  ReportDoes(p, u, c, delivered, read)
<1>1. PICK h \in Hosts : h = Home[u]
  BY DEF ConversationsAssumption
<1>2. PICK i \in Nat : i = Later(delivered, read)
  BY DEF Later
<1>3. PICK d : d = Receipt(db[h], c, u, i, read)
  OBVIOUS
<1>4. /\ req[p].pc = "idle" /\ UNCHANGED <<backend, ids, told, parted, broken, erased, late>>
      /\ Mem(h, c, u) # None /\ db' = [db EXCEPT ![h] = d]
      /\ reported' = [reported EXCEPT ![u][c] = Later(@, i)]
      /\ req' = [req EXCEPT ![p] = NewRequest("forward", "receipt", u, None, c,
                                 <<d.members[c][u].delivered, d.members[c][u].read>>)]
  BY <1>1, <1>2, <1>3 DEF reportReceipt, At, requireMember, Mem, Write, ReceiptDelivered
<1>5. ReceiptDoes(h, c, u, i, read) /\ d.members[c][u] = MemNext(h, c, u)
  <2>1. db' = [db EXCEPT ![h] = Receipt(db[h], c, u, i, read)]
    BY <1>3, <1>4
  <2>2. Mem(h, c, u) # None
    BY <1>4
  <2>3. ReceiptDoes(h, c, u, i, read) /\ Receipt(db[h], c, u, i, read).members[c][u] = MemNext(h, c, u)
    BY <2>1, <2>2, ReceiptEffect
  <2> QED BY <1>3, <2>3
<1>6. Reached(u, c, i)
  BY <1>4, ReachedEffect
<1>7. PICK m \in ConversationMember : m = MemNext(h, c, u)
  BY <1>5 DEF ReceiptDoes, MemSet
<1>8. m.delivered \in Nat /\ m.read \in Nat
  BY DEF ConversationMember
<1>9. PICK x \in Args : x = <<m.delivered, m.read>>
  BY <1>8 DEF Args
<1>10. PICK r \in Requests : r = NewRequest("forward", "receipt", u, None, c, x)
  <2>1. "forward" \in Pcs /\ "receipt" \in Ops /\ None \in Users \cup {None} /\ c \in Convs \cup {None}
    BY DEF Pcs, Ops
  <2>2. NewRequest("forward", "receipt", u, None, c, x) \in Requests
    BY <2>1, NewRequestIs
  <2> QED BY <2>2
<1>11. req' = [req EXCEPT ![p] = r]
  BY <1>4, <1>5, <1>7, <1>9, <1>10
<1>12. req'[p] = r /\ OthersWait(p) /\ ReqTyped'
  BY <1>11, ReqPut DEF CvTypes
<1> QED BY <1>1, <1>2, <1>4, <1>5, <1>6, <1>7, <1>9, <1>10, <1>12 DEF ReportDoes

ForwardReceiptDoes(p) ==
    /\ req[p].pc = "forward" /\ UNCHANGED <<backend, ids, told, parted, broken, erased, late, reported>>
    /\ Ended(p) /\ DbTyped' /\ RowsKept /\ MsgsKept /\ PhotosKept
    /\ \/ MemsKept
       \/ \E h \in Hosts : /\ Mem(h, req[p].c, req[p].u) # None
                           /\ ReceiptDoes(h, req[p].c, req[p].u, req[p].arg[1], req[p].arg[2])

LEMMA ForwardReceiptEffect ==
    ASSUME ConversationsAssumption, CvTypes, NEW p \in Procs, ForwardReceipt(p)
    PROVE  ForwardReceiptDoes(p)
<1>1. req[p].pc = "forward" /\ UNCHANGED <<backend, ids, told, parted, broken, erased, late, reported>> /\ Finish(p)
  BY DEF ForwardReceipt, At, Write
<1>2. /\ req[p].u \in Users /\ req[p].c \in Convs /\ req[p].h \in Hosts
      /\ req[p].arg[1] \in Nat /\ req[p].arg[2] \in Nat
  BY <1>1, AtWork DEF CvTypes, InOrder
<1>3. ReqTyped /\ DbTyped
  BY DEF CvTypes
<1>4. Ended(p)
  BY <1>1, <1>3, ReqEnd
<1>5. PICK peers : peers = IF ~Exists(req[p].h, req[p].c) THEN {}
                 ELSE IF IsMirror(req[p].h, req[p].c) THEN {db[req[p].h].rows[req[p].c].hub}
                 ELSE participantHosts(req[p].h, req[p].c)
  OBVIOUS
<1>6. \/ \E h \in peers : /\ Mem(h, req[p].c, req[p].u) # None
                          /\ db' = [db EXCEPT ![h] = Receipt(db[h], req[p].c, req[p].u, req[p].arg[1], req[p].arg[2])]
      \/ db' = db
  BY <1>5 DEF ForwardReceipt, AcceptsReceipt, isMemberFromHost, Mem, Write
<1>7. peers \subseteq Hosts
  <2>1. Exists(req[p].h, req[p].c) => db[req[p].h].rows[req[p].c] \in Conversation
    BY <1>2, <1>3, TableTypes DEF Exists, Row
  <2>2. Exists(req[p].h, req[p].c) => db[req[p].h].rows[req[p].c].hub \in Hosts
    BY <2>1 DEF Conversation
  <2>3. participantHosts(req[p].h, req[p].c) \subseteq Hosts
    BY DEF participantHosts, ConversationsAssumption
  <2> QED BY <1>5, <2>2, <2>3
<1>8. CASE db' = db
  BY <1>1, <1>3, <1>4, <1>8, DbStays DEF ForwardReceiptDoes
<1>9. ASSUME NEW h \in peers, Mem(h, req[p].c, req[p].u) # None,
             db' = [db EXCEPT ![h] = Receipt(db[h], req[p].c, req[p].u, req[p].arg[1], req[p].arg[2])]
      PROVE  ForwardReceiptDoes(p)
  <2>1. h \in Hosts
    BY <1>7
  <2>2. ReceiptDoes(h, req[p].c, req[p].u, req[p].arg[1], req[p].arg[2])
    BY <1>2, <1>9, <2>1, ReceiptEffect
  <2> QED BY <1>1, <1>4, <1>9, <2>1, <2>2 DEF ForwardReceiptDoes, ReceiptDoes
<1> QED BY <1>6, <1>8, <1>9

PutBlobDoes(p) ==
    /\ req[p].pc = "put" /\ DbTyped' /\ RowsKept /\ MemsKept /\ MsgsKept /\ RecordsKept
    /\ UNCHANGED <<backend, ids, told, parted, broken, erased, reported>>
    /\ BlobsSet(req[p].h, Blobs(req[p].h) \cup {req[p].c})
    /\ Marked(req[p].h, req[p].c, "photo") /\ Moved(p, "record")

LEMMA PutBlobEffect ==
    ASSUME CvTypes, NEW p \in Procs, PutBlob(p)
    PROVE  PutBlobDoes(p)
<1>1. /\ req[p].pc = "put" /\ UNCHANGED <<backend, ids, told, parted, broken, erased, reported>>
      /\ AddRow(req[p].h, [db[req[p].h] EXCEPT !.blobs = @ \cup {req[p].c}], req[p].c, "photo")
      /\ Goto(p, "record")
  BY DEF PutBlob, At
<1>2. req[p].h \in Hosts /\ req[p].c \in Convs
  BY <1>1, AtWork
<1>3. ReqTyped /\ DbTyped
  BY DEF CvTypes
<1>4. PICK S : S = Blobs(req[p].h) \cup {req[p].c}
  OBVIOUS
<1>5. S \in SUBSET Convs
  BY <1>2, <1>3, <1>4, TableTypes
<1>6. /\ Marked(req[p].h, req[p].c, "photo")
      /\ db' = [db EXCEPT ![req[p].h] = [db[req[p].h] EXCEPT !.blobs = S]]
  BY <1>1, <1>4, AddRowMarks DEF Blobs
<1>7. DbTyped' /\ RowsKept /\ MemsKept /\ MsgsKept /\ RecordsKept /\ BlobsSet(req[p].h, S)
  BY <1>2, <1>3, <1>5, <1>6, WriteBlobs
<1>8. Moved(p, "record")
  BY <1>1, <1>3, ReqGoto DEF Pcs
<1> QED BY <1>1, <1>4, <1>6, <1>7, <1>8 DEF PutBlobDoes

RecordAttachmentDoes(p) ==
    /\ req[p].pc = "record" /\ DbTyped' /\ RowsKept /\ MemsKept /\ MsgsKept /\ BlobsKept
    /\ UNCHANGED <<backend, ids, told, parted, broken, erased, reported>>
    /\ RecordsSet(req[p].h, Records(req[p].h) \cup {req[p].c})
    /\ Marked(req[p].h, req[p].c, "photo") /\ Ended(p)

LEMMA RecordAttachmentEffect ==
    ASSUME CvTypes, NEW p \in Procs, RecordAttachment(p)
    PROVE  RecordAttachmentDoes(p)
<1>1. /\ req[p].pc = "record" /\ UNCHANGED <<backend, ids, told, parted, broken, erased, reported>>
      /\ AddRow(req[p].h, [db[req[p].h] EXCEPT !.records = @ \cup {req[p].c}], req[p].c, "photo")
      /\ Finish(p)
  BY DEF RecordAttachment, At, CreateAttachment
<1>2. req[p].h \in Hosts /\ req[p].c \in Convs
  BY <1>1, AtWork
<1>3. ReqTyped /\ DbTyped
  BY DEF CvTypes
<1>4. PICK S : S = Records(req[p].h) \cup {req[p].c}
  OBVIOUS
<1>5. S \in SUBSET Convs
  BY <1>2, <1>3, <1>4, TableTypes
<1>6. /\ Marked(req[p].h, req[p].c, "photo")
      /\ db' = [db EXCEPT ![req[p].h] = [db[req[p].h] EXCEPT !.records = S]]
  BY <1>1, <1>4, AddRowMarks DEF Records
<1>7. DbTyped' /\ RowsKept /\ MemsKept /\ MsgsKept /\ RecordsSet(req[p].h, S) /\ BlobsKept
  BY <1>2, <1>3, <1>5, <1>6, WriteRecords
<1>8. Ended(p)
  BY <1>1, <1>3, ReqEnd
<1> QED BY <1>1, <1>4, <1>6, <1>7, <1>8 DEF RecordAttachmentDoes

RecordFailsDoes(p) ==
    /\ req[p].pc = "record" /\ DbTyped' /\ DbKept /\ Moved(p, "unput")
    /\ UNCHANGED <<backend, ids, told, parted, broken, erased, late, reported>>

LEMMA RecordFailsEffect ==
    ASSUME CvTypes, NEW p \in Procs, RecordFails(p)
    PROVE  RecordFailsDoes(p)
<1>1. /\ req[p].pc = "record" /\ Goto(p, "unput") /\ db' = db
      /\ UNCHANGED <<backend, ids, told, parted, broken, erased, late, reported>>
  BY DEF RecordFails, At, ghosts
<1> QED BY <1>1, ReqGoto, DbStays DEF RecordFailsDoes, DbKept, CvTypes, Pcs

UnputBlobDoes(p) ==
    /\ req[p].pc = "unput" /\ DbTyped' /\ RowsKept /\ MemsKept /\ MsgsKept /\ RecordsKept
    /\ UNCHANGED <<backend, ids, told, parted, broken, erased, late, reported>>
    /\ BlobsSet(req[p].h, Blobs(req[p].h) \ {req[p].c}) /\ Ended(p)

LEMMA UnputBlobEffect ==
    ASSUME CvTypes, NEW p \in Procs, UnputBlob(p)
    PROVE  UnputBlobDoes(p)
<1>1. /\ req[p].pc = "unput" /\ UNCHANGED <<backend, ids, told, parted, broken, erased, late, reported>>
      /\ db' = [db EXCEPT ![req[p].h] = [db[req[p].h] EXCEPT !.blobs = @ \ {req[p].c}]]
      /\ Finish(p)
  BY DEF UnputBlob, At, Write
<1>2. req[p].h \in Hosts /\ req[p].c \in Convs
  BY <1>1, AtWork
<1>3. ReqTyped /\ DbTyped
  BY DEF CvTypes
<1>4. PICK S : S = Blobs(req[p].h) \ {req[p].c}
  OBVIOUS
<1>5. S \in SUBSET Convs
  BY <1>2, <1>3, <1>4, TableTypes
<1>6. db' = [db EXCEPT ![req[p].h] = [db[req[p].h] EXCEPT !.blobs = S]]
  BY <1>1, <1>4 DEF Blobs
<1>7. DbTyped' /\ RowsKept /\ MemsKept /\ MsgsKept /\ RecordsKept /\ BlobsSet(req[p].h, S)
  BY <1>2, <1>3, <1>5, <1>6, WriteBlobs
<1>8. Ended(p)
  BY <1>1, <1>3, ReqEnd
<1> QED BY <1>1, <1>4, <1>7, <1>8 DEF UnputBlobDoes

\* Someone is uploading a photo of the conversation.
UploadGoesOn(h, c) == \E q \in Procs : req[q].op = "upload" /\ req[q].h = h /\ req[q].c = c

\* The blobs of the attachments recorded go, or are left behind as landfill.
DeleteBlobsDoes(p) ==
    LET h == req[p].h
        c == req[p].c
    IN /\ req[p].pc = "blobs" /\ DbTyped' /\ RowsKept /\ MemsKept /\ MsgsKept /\ RecordsKept
       /\ UNCHANGED <<backend, ids, told, parted, broken, erased, reported>>
       /\ \/ BlobsSet(h, Blobs(h) \ (Records(h) \cap {c}))
          \/ BlobsKept /\ <<h, c, "landfill">> \in late'
       /\ Moved(p, "records")
       /\ late \subseteq late' /\ (UploadGoesOn(h, c) => <<h, c, "photo">> \in late')

LEMMA DeleteBlobsEffect ==
    ASSUME CvTypes, NEW p \in Procs, DeleteBlobs(p)
    PROVE  DeleteBlobsDoes(p)
<1>1. /\ req[p].pc = "blobs" /\ UNCHANGED <<backend, ids, told, parted, broken, erased, reported>>
      /\ db' = [db EXCEPT ![req[p].h].blobs = @ \ ListAttachmentIDs(db[req[p].h], req[p].c)]
      /\ Goto(p, "records")
  BY DEF DeleteBlobs, At
<1>2. req[p].h \in Hosts /\ req[p].c \in Convs
  BY <1>1, AtWork
<1>3. ReqTyped /\ DbTyped
  BY DEF CvTypes
<1>4. PICK S : S = Blobs(req[p].h) \ (Records(req[p].h) \cap {req[p].c})
  OBVIOUS
<1>5. S \in SUBSET Convs
  BY <1>2, <1>3, <1>4, TableTypes
<1>6. db' = [db EXCEPT ![req[p].h] = [db[req[p].h] EXCEPT !.blobs = S]]
  BY <1>1, <1>4 DEF Blobs, Records, ListAttachmentIDs
<1>7. DbTyped' /\ RowsKept /\ MemsKept /\ MsgsKept /\ RecordsKept /\ BlobsSet(req[p].h, S)
  BY <1>2, <1>3, <1>5, <1>6, WriteBlobs
<1>8. Moved(p, "records")
  BY <1>1, <1>3, ReqGoto DEF Pcs
<1>9. late \subseteq late' /\ (UploadGoesOn(req[p].h, req[p].c) => <<req[p].h, req[p].c, "photo">> \in late')
  BY DEF DeleteBlobs, Uploading, UploadGoesOn
<1> QED BY <1>1, <1>4, <1>7, <1>8, <1>9 DEF DeleteBlobsDoes

\* The records go, or they, and the photos with them when the list could not be read, are
\* left behind as landfill.
DeleteRecordsDoes(p) ==
    /\ DbTyped' /\ RowsKept /\ MemsKept /\ MsgsKept /\ BlobsKept
    /\ UNCHANGED <<backend, ids, told, parted, broken, erased, reported>> /\ late \subseteq late'
    /\ \/ req[p].pc = "records" /\ RecordsSet(req[p].h, Records(req[p].h) \ {req[p].c})
       \/ req[p].pc \in {"blobs", "records"} /\ RecordsKept /\ <<req[p].h, req[p].c, "landfill">> \in late'
    /\ MovedWith(p, "delete", req[p].arg) /\ req'[p].todo = IF Mongo THEN Todo3 ELSE TodoAll

LEMMA DeleteRecordsEffect ==
    ASSUME CvTypes, NEW p \in Procs, DeleteRecords(p)
    PROVE  DeleteRecordsDoes(p)
<1>1. /\ req[p].pc = "records" /\ UNCHANGED <<backend, ids, told, parted, broken, erased, late, reported>>
      /\ db' = [db EXCEPT ![req[p].h] = [db[req[p].h] EXCEPT !.records = @ \ {req[p].c}]]
      /\ req' = [req EXCEPT ![p].pc = "delete", ![p].todo = DeleteTodo]
  BY DEF DeleteRecords, At, Write, DeleteAttachments
<1>2. req[p].h \in Hosts /\ req[p].c \in Convs
  BY <1>1, AtWork
<1>3. ReqTyped /\ DbTyped
  BY DEF CvTypes
<1>4. PICK S : S = Records(req[p].h) \ {req[p].c}
  OBVIOUS
<1>5. S \in SUBSET Convs
  BY <1>2, <1>3, <1>4, TableTypes
<1>6. db' = [db EXCEPT ![req[p].h] = [db[req[p].h] EXCEPT !.records = S]]
  BY <1>1, <1>4 DEF Records
<1>7. DbTyped' /\ RowsKept /\ MemsKept /\ MsgsKept /\ RecordsSet(req[p].h, S) /\ BlobsKept
  BY <1>2, <1>3, <1>5, <1>6, WriteRecords
<1>8. PICK x \in Todos : x = DeleteTodo /\ x = IF Mongo THEN Todo3 ELSE TodoAll
  BY TodoSteps DEF DeleteTodo
<1>9. MovedWith(p, "delete", req[p].arg) /\ req'[p].todo = x
  BY <1>1, <1>3, <1>8, ReqGotoTodo DEF Pcs
<1> QED BY <1>1, <1>4, <1>7, <1>8, <1>9 DEF DeleteRecordsDoes

LEMMA RecordsLeft ==
    ASSUME CvTypes, NEW p \in Procs, req[p].pc \in {"blobs", "records"}, db' = db, late \subseteq late',
           UNCHANGED <<backend, ids, told, parted, broken, erased, reported>>,
           <<req[p].h, req[p].c, "landfill">> \in late', req' = [req EXCEPT ![p].pc = "delete", ![p].todo = DeleteTodo]
    PROVE  DeleteRecordsDoes(p)
<1>1. DbTyped' /\ DbKept /\ ReqTyped
  BY DbStays DEF CvTypes, DbKept
<1>2. PICK x \in Todos : x = DeleteTodo /\ x = IF Mongo THEN Todo3 ELSE TodoAll
  BY TodoSteps DEF DeleteTodo
<1>3. MovedWith(p, "delete", req[p].arg) /\ req'[p].todo = x
  BY <1>1, <1>2, ReqGotoTodo DEF Pcs
<1> QED BY <1>1, <1>2, <1>3 DEF DeleteRecordsDoes, DbKept, PhotosKept

LEMMA BlobsFailEffect ==
    ASSUME CvTypes, NEW p \in Procs, BlobsFail(p)
    PROVE  DeleteBlobsDoes(p) \/ DeleteRecordsDoes(p)
<1>1. /\ req[p].pc = "blobs" /\ UNCHANGED <<backend, db, ids, told, parted, broken, erased, reported>>
      /\ Goto(p, "records") \/ req' = [req EXCEPT ![p].pc = "delete", ![p].todo = DeleteTodo]
  BY DEF BlobsFail, At
<1>2. late' = late \cup {<<req[p].h, req[p].c, kind>> : kind \in {"landfill"} \cup
                            IF Uploading(req[p].h, req[p].c) THEN {"photo"} ELSE {}}
  BY DEF BlobsFail
<1>3. /\ late \subseteq late' /\ <<req[p].h, req[p].c, "landfill">> \in late'
      /\ UploadGoesOn(req[p].h, req[p].c) => <<req[p].h, req[p].c, "photo">> \in late'
  BY <1>2 DEF Uploading, UploadGoesOn
<1>4. CASE Goto(p, "records")
  <2>1. DbTyped' /\ DbKept /\ ReqTyped
    BY <1>1, DbStays DEF CvTypes, DbKept
  <2>2. Moved(p, "records")
    BY <1>4, <2>1, ReqGoto DEF Pcs
  <2> QED BY <1>1, <1>3, <2>1, <2>2 DEF DeleteBlobsDoes, DbKept, PhotosKept
<1>5. CASE req' = [req EXCEPT ![p].pc = "delete", ![p].todo = DeleteTodo]
  BY <1>1, <1>3, <1>5, RecordsLeft
<1> QED BY <1>1, <1>4, <1>5

LEMMA RecordsFailEffect ==
    ASSUME CvTypes, NEW p \in Procs, RecordsFail(p)
    PROVE  DeleteRecordsDoes(p)
BY RecordsLeft DEF RecordsFail, At

\* The last step of a delete.
DeletedLast(p) ==
    IF req[p].op = "undo" THEN Ended(p) /\ erased' = erased
    ELSE Moved(p, "propagate") /\ erased' = erased \cup {<<req[p].h, req[p].c>>}

DeleteStepDoes(p) ==
    LET h == req[p].h
        c == req[p].c
    IN /\ req[p].pc = "delete" /\ DbTyped' /\ PhotosKept
       /\ UNCHANGED <<backend, ids, told, parted, broken, late, reported>>
       /\ \/ /\ req[p].todo = Todo3 /\ RowsKept /\ MemsKept /\ MsgsSet(h, {m \in Msgs(h) : m.conv # c})
             /\ MovedWith(p, "delete", req[p].arg) /\ req'[p].todo = Todo2 /\ erased' = erased
          \/ /\ req[p].todo = Todo2 /\ RowsKept /\ MemsSet(h, c, NoMembers) /\ MsgsKept
             /\ MovedWith(p, "delete", req[p].arg) /\ req'[p].todo = Todo1 /\ erased' = erased
          \/ req[p].todo = Todo1 /\ RowSet(h, c, None) /\ MemsKept /\ MsgsKept /\ DeletedLast(p)
          \/ /\ req[p].todo = TodoAll /\ RowSet(h, c, None) /\ MemsSet(h, c, NoMembers)
             /\ MsgsSet(h, {m \in Msgs(h) : m.conv # c}) /\ DeletedLast(p)

LEMMA ReqPop ==
    ASSUME ReqTyped, NEW p \in Procs, NEW x \in Todos, req[p].pc = "delete",
           req' = [req EXCEPT ![p] = [req[p] EXCEPT !.todo = x]]
    PROVE  MovedWith(p, "delete", req[p].arg) /\ req'[p].todo = x
<1>1. PICK r \in Requests : r = req[p]
  BY DEF ReqTyped
<1>2. PICK s : s = [pc |-> r.pc, op |-> r.op, u |-> r.u, v |-> r.v, c |-> r.c, h |-> r.h, arg |-> r.arg, todo |-> x]
  OBVIOUS
<1>3. s = [r EXCEPT !.todo = x]
  BY <1>2, RequestParts
<1>4. s \in Requests
  BY <1>2, RequestMade, RequestParts
<1>5. ReqTyped' /\ req'[p] = s /\ OthersWait(p)
  BY <1>1, <1>3, <1>4, ReqPut
<1>6. s.pc = "delete" /\ s.op = r.op /\ s.u = r.u /\ s.v = r.v /\ s.c = r.c /\ s.h = r.h /\ s.arg = r.arg /\ s.todo = x
  BY <1>1, <1>2
<1> QED BY <1>1, <1>5, <1>6 DEF MovedWith, Same

LEMMA LastStep ==
    ASSUME CvTypes, NEW p \in Procs, DeleteStep(p), Len(req[p].todo) = 1
    PROVE  DeletedLast(p)
<1>1. req[p].pc = "delete" /\ req[p].op \in {"delete", "undo"} /\ ReqTyped
  BY DEF DeleteStep, At, CvTypes, InOrder
<1>2. CASE req[p].op = "undo"
  <2>1. Finish(p) /\ erased' = erased
    BY <1>2 DEF DeleteStep, Finish
  <2> QED BY <1>1, <1>2, <2>1, ReqEnd DEF DeletedLast
<1>3. CASE req[p].op = "delete"
  <2>1. req' = [req EXCEPT ![p] = [req[p] EXCEPT !.pc = "propagate"]] /\ erased' = erased \cup {<<req[p].h, req[p].c>>}
    BY <1>3 DEF DeleteStep
  <2>2. Goto(p, "propagate")
    BY <1>1, <2>1 DEF Goto, ReqTyped
  <2> QED BY <1>1, <1>3, <2>1, <2>2, ReqGoto DEF DeletedLast, Pcs
<1> QED BY <1>1, <1>2, <1>3

LEMMA MiddleStep ==
    ASSUME CvTypes, NEW p \in Procs, DeleteStep(p), NEW x \in Todos, x = Tail(req[p].todo), Len(req[p].todo) # 1
    PROVE  MovedWith(p, "delete", req[p].arg) /\ req'[p].todo = x /\ erased' = erased
<1>1. req[p].pc = "delete" /\ ReqTyped
  BY DEF DeleteStep, At, CvTypes
<1>2. req' = [req EXCEPT ![p] = [req[p] EXCEPT !.todo = x]] /\ erased' = erased
  BY DEF DeleteStep
<1> QED BY <1>1, <1>2, ReqPop

LEMMA DeleteStepEffect ==
    ASSUME ConversationsAssumption, CvTypes, NEW p \in Procs, DeleteStep(p)
    PROVE  DeleteStepDoes(p)
<1>1. /\ req[p].pc = "delete" /\ UNCHANGED <<backend, ids, told, parted, broken, late, reported>>
      /\ db' = [db EXCEPT ![req[p].h] = Without(@, Head(req[p].todo), req[p].c)]
  BY DEF DeleteStep, At
<1>2. req[p].h \in Hosts /\ req[p].c \in Convs
  BY <1>1, AtWork
<1>3. ReqTyped /\ DbTyped
  BY DEF CvTypes
<1>4. PICK tables : tables = Head(req[p].todo)
  OBVIOUS
<1>5. /\ DbTyped' /\ PhotosKept
      /\ RowSet(req[p].h, req[p].c, IF "rows" \in tables THEN None ELSE Row(req[p].h, req[p].c))
      /\ IF "members" \in tables THEN MemsSet(req[p].h, req[p].c, NoMembers) ELSE MemsKept
      /\ MsgsSet(req[p].h, IF "msgs" \in tables THEN {m \in Msgs(req[p].h) : m.conv # req[p].c} ELSE Msgs(req[p].h))
  BY <1>1, <1>2, <1>3, <1>4, WriteWithout
<1>6. /\ "rows" \notin tables => RowsKept
      /\ "msgs" \notin tables => MsgsKept
  <2>1. "rows" \notin tables => RowSet(req[p].h, req[p].c, Row(req[p].h, req[p].c))
    BY <1>5
  <2>2. "rows" \notin tables => RowsKept
    BY <1>2, <2>1 DEF RowSet, RowsKept
  <2>3. "msgs" \notin tables => MsgsSet(req[p].h, Msgs(req[p].h))
    BY <1>5
  <2>4. "msgs" \notin tables => MsgsKept
    BY <1>2, <2>3 DEF MsgsSet, MsgsKept
  <2> QED BY <2>2, <2>4
<1>7. req[p].todo \in {Todo1, Todo2, Todo3, TodoAll}
  BY <1>1 DEF CvTypes, InOrder
<1>8. CASE req[p].todo = Todo3
  <2>1. tables = {"msgs"} /\ Tail(req[p].todo) = Todo2 /\ Len(req[p].todo) # 1 /\ Todo2 \in Todos
    BY <1>4, <1>8, TodoSteps
  <2>2. MovedWith(p, "delete", req[p].arg) /\ req'[p].todo = Todo2 /\ erased' = erased
    BY <2>1, MiddleStep
  <2> QED BY <1>1, <1>5, <1>6, <1>8, <2>1, <2>2 DEF DeleteStepDoes
<1>9. CASE req[p].todo = Todo2
  <2>1. tables = {"members"} /\ Tail(req[p].todo) = Todo1 /\ Len(req[p].todo) # 1 /\ Todo1 \in Todos
    BY <1>4, <1>9, TodoSteps
  <2>2. MovedWith(p, "delete", req[p].arg) /\ req'[p].todo = Todo1 /\ erased' = erased
    BY <2>1, MiddleStep
  <2> QED BY <1>1, <1>5, <1>6, <1>9, <2>1, <2>2 DEF DeleteStepDoes
<1>10. CASE req[p].todo = Todo1
  <2>1. tables = {"rows"} /\ Len(req[p].todo) = 1
    BY <1>4, <1>10, TodoSteps
  <2>2. DeletedLast(p)
    BY <2>1, LastStep
  <2> QED BY <1>1, <1>5, <1>6, <1>10, <2>1, <2>2 DEF DeleteStepDoes
<1>11. CASE req[p].todo = TodoAll
  <2>1. tables = {"rows", "members", "msgs"} /\ Len(req[p].todo) = 1
    BY <1>4, <1>11, TodoSteps
  <2>2. DeletedLast(p)
    BY <2>1, LastStep
  <2> QED BY <1>1, <1>5, <1>6, <1>11, <2>1, <2>2 DEF DeleteStepDoes
<1> QED BY <1>7, <1>8, <1>9, <1>10, <1>11

\* DeleteMirror leaves a host alone, or takes the conversation off it.
HostKept(k) ==
    /\ \A x \in Convs : RowNext(k, x) = Row(k, x)
    /\ \A x \in Convs, w \in Users : MemNext(k, x, w) = Mem(k, x, w)
    /\ MsgsNext(k) = Msgs(k)
HostCleared(k, c) ==
    /\ RowNext(k, c) = None /\ \A x \in Convs : x # c => RowNext(k, x) = Row(k, x)
    /\ \A w \in Users : MemNext(k, c, w) = None
    /\ \A x \in Convs, w \in Users : x # c => MemNext(k, x, w) = Mem(k, x, w)
    /\ MsgsNext(k) = {m \in Msgs(k) : m.conv # c}
InConversation(k, c, peer) ==
    Row(k, c).hub = peer \/ \E u \in Users : Mem(k, c, u) # None /\ Home[u] = peer

DeleteMirrorDoes(p) ==
    /\ req[p].pc = "propagate" /\ DbTyped' /\ PhotosKept /\ Ended(p)
    /\ UNCHANGED <<backend, ids, told, parted, broken, erased, late, reported>>
    /\ \A k \in Hosts :
          \/ /\ HostKept(k)
             /\ k \in req[p].arg /\ Row(k, req[p].c) # None => ~InConversation(k, req[p].c, req[p].h)
          \/ k \in req[p].arg /\ Row(k, req[p].c) # None /\ HostCleared(k, req[p].c)

LEMMA DeleteMirrorEffect ==
    ASSUME ConversationsAssumption, CvTypes, NEW p \in Procs, DeleteMirror(p)
    PROVE  DeleteMirrorDoes(p)
<1>1. /\ req[p].pc = "propagate" /\ Finish(p)
      /\ UNCHANGED <<backend, ids, told, parted, broken, erased, late, reported>>
  BY DEF DeleteMirror, At, ghosts
<1>2. req[p].c \in Convs
  BY <1>1, AtWork
<1>3. ReqTyped /\ DbTyped
  BY DEF CvTypes
<1>4. DOMAIN db' = Hosts /\ db' = [h \in Hosts |-> db'[h]]
  BY DEF DeleteMirror
<1>5. \A k \in Hosts : db'[k] = IF k \in req[p].arg /\ Exists(k, req[p].c) /\ peerInConversation(k, req[p].c, req[p].h)
                   THEN Without(db[k], {"rows", "members", "msgs"}, req[p].c) ELSE db[k]
  BY DEF DeleteMirror
<1>6. ASSUME NEW k \in Hosts
      PROVE  /\ db'[k] \in Database /\ RecordsNext(k) = Records(k) /\ BlobsNext(k) = Blobs(k)
             /\ \/ /\ HostKept(k)
                   /\ k \in req[p].arg /\ Row(k, req[p].c) # None => ~InConversation(k, req[p].c, req[p].h)
                \/ k \in req[p].arg /\ Row(k, req[p].c) # None /\ HostCleared(k, req[p].c)
  <2>1. PICK d \in Database : d = db[k]
    BY <1>3 DEF DbTyped
  <2>2. /\ Exists(k, req[p].c) <=> Row(k, req[p].c) # None
        /\ peerInConversation(k, req[p].c, req[p].h) <=> InConversation(k, req[p].c, req[p].h)
    BY DEF Exists, Row, peerInConversation, InConversation, Mem
  <2>3. CASE k \in req[p].arg /\ Exists(k, req[p].c) /\ peerInConversation(k, req[p].c, req[p].h)
    <3>1. PICK tables : tables = {"rows", "members", "msgs"}
      OBVIOUS
    <3>2. db'[k] = Without(d, tables, req[p].c)
      BY <1>5, <2>1, <2>3, <3>1
    <3>3. PICK e : e = Without(d, tables, req[p].c)
      OBVIOUS
    <3>4. IsWithout(e, d, tables, req[p].c)
      BY <1>2, <3>3, PutNothing
    <3>5. /\ e \in Database /\ e.rows[req[p].c] = None /\ e.members[req[p].c] = NoMembers
          /\ e.msgs = {m \in d.msgs : m.conv # req[p].c} /\ e.records = d.records /\ e.blobs = d.blobs
          /\ \A x \in Convs : x # req[p].c => e.rows[x] = d.rows[x] /\ e.members[x] = d.members[x]
      BY <3>1, <3>4 DEF IsWithout
    <3>6. db'[k] = e /\ db[k] = d
      BY <2>1, <3>2, <3>3
    <3>7. RecordsNext(k) = Records(k) /\ BlobsNext(k) = Blobs(k)
      BY <3>5, <3>6 DEF Records, Blobs, RecordsNext, BlobsNext
    <3>8. HostCleared(k, req[p].c)
      <4>1. RowNext(k, req[p].c) = None /\ \A x \in Convs : x # req[p].c => RowNext(k, x) = Row(k, x)
        BY <3>5, <3>6 DEF Row, RowNext
      <4>2. \A w \in Users : MemNext(k, req[p].c, w) = None
        BY <3>5, <3>6 DEF Mem, MemNext, NoMembers
      <4>3. \A x \in Convs, w \in Users : x # req[p].c => MemNext(k, x, w) = Mem(k, x, w)
        BY <3>5, <3>6 DEF Mem, MemNext
      <4>4. MsgsNext(k) = {m \in Msgs(k) : m.conv # req[p].c}
        BY <3>5, <3>6 DEF Msgs, MsgsNext
      <4> QED BY <4>1, <4>2, <4>3, <4>4 DEF HostCleared
    <3> QED BY <2>2, <2>3, <3>5, <3>6, <3>7, <3>8
  <2>4. CASE ~(k \in req[p].arg /\ Exists(k, req[p].c) /\ peerInConversation(k, req[p].c, req[p].h))
    <3>1. db'[k] = db[k]
      BY <1>5, <2>4
    <3>2. HostKept(k) /\ RecordsNext(k) = Records(k) /\ BlobsNext(k) = Blobs(k)
      BY <3>1 DEF HostKept, Row, Mem, Msgs, Records, Blobs, RowNext, MemNext,
         MsgsNext, RecordsNext, BlobsNext
    <3> QED BY <2>1, <2>2, <2>4, <3>1, <3>2
  <2> QED BY <2>3, <2>4
<1>7. DbTyped'
  BY <1>4, <1>6 DEF DbTyped
<1>8. PhotosKept
  BY <1>6 DEF PhotosKept, RecordsKept, BlobsKept
<1>9. Ended(p)
  BY <1>1, <1>3, ReqEnd
<1> QED BY <1>1, <1>6, <1>7, <1>8, <1>9 DEF DeleteMirrorDoes

CallFailsDoes(p) ==
    /\ req[p].pc \notin {"idle", "members", "provision", "record"} /\ DbTyped' /\ DbKept /\ Ended(p)
    /\ UNCHANGED <<backend, ids, told, parted, erased, reported>>
    /\ late \subseteq late' /\ (req[p].pc = "unput" => <<req[p].h, req[p].c, "photo">> \in late')
    /\ broken' = IF req[p].op \in {"delete", "undo"} THEN broken \cup {req[p].c} ELSE broken

LEMMA CallFailsEffect ==
    ASSUME CvTypes, NEW p \in Procs, CallFails(p)
    PROVE  CallFailsDoes(p)
<1>1. /\ req[p].pc \notin {"idle", "members", "provision", "record"} /\ Finish(p) /\ db' = db
      /\ UNCHANGED <<backend, ids, told, parted, erased, reported>>
      /\ late \subseteq late' /\ (req[p].pc = "unput" => <<req[p].h, req[p].c, "photo">> \in late')
      /\ broken' = IF req[p].op \in {"delete", "undo"} THEN broken \cup {req[p].c} ELSE broken
  BY DEF CallFails, At
<1>2. Ended(p) /\ DbTyped' /\ DbKept
  BY <1>1, ReqEnd, DbStays DEF DbKept, CvTypes
<1> QED BY <1>1, <1>2 DEF CallFailsDoes

\* A request as the handler makes it.
NewAt(r, pc, op, u, v, c) ==
    /\ r \in Requests /\ r.pc = pc /\ r.op = op /\ r.u = u /\ r.v = v /\ r.c = c /\ r.h = Home[u]

\* A request begins.
BeginsDirect(r, u, v) == u # v /\ NewAt(r, "find", "direct", u, v, None)
BeginsGroup(r, u) == NewAt(r, "insert", "group", u, None, None)
BeginsAdd(r, u, v, c) ==
    /\ Row(Home[u], c) # None /\ Row(Home[u], c).kind = "group"
    /\ Home[v] # Home[u] => Row(Home[u], c).hub = Home[u]
    /\ NewAt(r, "joinSeq", "add", u, v, c)
BeginsRemove(r, u, v, c) ==
    /\ Mem(Home[u], c, u) # None /\ (u = v \/ Mem(Home[u], c, u).role = "admin")
    /\ NewAt(r, "removeMember", "remove", u, v, c)
BeginsPost(r, u, c) == NewAt(r, "number", "post", u, None, c)
BeginsUpload(r, u, c) == NewAt(r, "put", "upload", u, None, c)
BeginsDelete(r, u, c) ==
    /\ Row(Home[u], c) # None /\ Mem(Home[u], c, u) # None
    /\ NewAt(r, "blobs", "delete", u, None, c) /\ r.arg \subseteq Hosts
    /\ Row(Home[u], c).hub # Home[u] => Row(Home[u], c).hub \in r.arg
    /\ \A w \in Users : Mem(Home[u], c, w) # None /\ Home[w] # Home[u] => Home[w] \in r.arg

BeginsBy(r, u) ==
    \/ BeginsGroup(r, u)
    \/ \E v \in Users : BeginsDirect(r, u, v)
    \/ \E c \in ids, v \in Users : BeginsAdd(r, u, v, c)
    \/ \E c \in ids, v \in Users : BeginsRemove(r, u, v, c)
    \/ \E c \in ids : BeginsPost(r, u, c)
    \/ \E c \in ids : BeginsUpload(r, u, c)
    \/ \E c \in ids : BeginsDelete(r, u, c)
BeginsAny(r) == \E u \in Users : BeginsBy(r, u)

LEMMA BeginWith ==
    ASSUME ConversationsAssumption, CvTypes, NEW p \in Procs, NEW pc \in Pcs, NEW op \in Ops, NEW u \in Users,
           NEW v \in Users \cup {None}, NEW c \in Convs \cup {None}, NEW arg \in Args,
           Begin(p, NewRequest(pc, op, u, v, c, arg))
    PROVE  \E r : NewAt(r, pc, op, u, v, c) /\ r.arg = arg /\ BeginDoes(p, r)
<1>1. PICK r : r = NewRequest(pc, op, u, v, c, arg)
  OBVIOUS
<1>2. /\ r \in Requests /\ r.pc = pc /\ r.op = op /\ r.u = u /\ r.v = v /\ r.c = c /\ r.h = Home[u]
      /\ r.arg = arg
  BY <1>1, NewRequestIs
<1>3. Begin(p, r)
  BY <1>1
<1>4. BeginDoes(p, r)
  BY <1>2, <1>3, BeginEffect
<1> QED BY <1>2, <1>4 DEF NewAt

LEMMA OnesPlaces ==
    /\ None \in Args /\ \A x \in SUBSET Hosts : x \in Args
    /\ {"find", "insert", "joinSeq", "removeMember", "number", "put", "blobs", "forward"} \subseteq Pcs
    /\ {"direct", "group", "add", "remove", "post", "upload", "delete", "receipt"} \subseteq Ops
BY DEF Args, Pcs, Ops

BeginsDoes(p) == \E r : BeginsAny(r) /\ BeginDoes(p, r)

LEMMA CreateDirectBegins ==
    ASSUME ConversationsAssumption, CvTypes, NEW p \in Procs, NEW u \in Users, NEW v \in Users, createDirect(p, u, v)
    PROVE  BeginsDoes(p)
<1>1. u # v /\ Begin(p, NewRequest("find", "direct", u, v, None, None))
  BY DEF createDirect
<1>2. PICK r : NewAt(r, "find", "direct", u, v, None) /\ BeginDoes(p, r)
  BY <1>1, BeginWith, OnesPlaces
<1> QED BY <1>1, <1>2 DEF BeginsDoes, BeginsAny, BeginsBy, BeginsDirect

LEMMA CreateGroupBegins ==
    ASSUME ConversationsAssumption, CvTypes, NEW p \in Procs, NEW u \in Users, createGroup(p, u)
    PROVE  BeginsDoes(p)
<1>1. Begin(p, NewRequest("insert", "group", u, None, None, None))
  BY DEF createGroup
<1>2. PICK r : NewAt(r, "insert", "group", u, None, None) /\ BeginDoes(p, r)
  BY <1>1, BeginWith, OnesPlaces
<1> QED BY <1>2 DEF BeginsDoes, BeginsAny, BeginsBy, BeginsGroup

LEMMA AddMemberBegins ==
    ASSUME ConversationsAssumption, CvTypes, NEW p \in Procs, NEW u \in Users, NEW v \in Users, NEW c \in ids,
           addMember(p, u, v, c)
    PROVE  BeginsDoes(p)
<1>1. /\ Row(Home[u], c) # None /\ Row(Home[u], c).kind = "group"
      /\ Home[v] # Home[u] => Row(Home[u], c).hub = Home[u]
      /\ Begin(p, NewRequest("joinSeq", "add", u, v, c, None))
  BY DEF addMember, IsMirror, Exists, Row
<1>2. c \in Convs
  BY DEF CvTypes, IdsInOrder
<1>3. PICK r : NewAt(r, "joinSeq", "add", u, v, c) /\ BeginDoes(p, r)
  BY <1>1, <1>2, BeginWith, OnesPlaces
<1>4. BeginsAdd(r, u, v, c)
  BY <1>1, <1>3 DEF BeginsAdd
<1> QED BY <1>3, <1>4 DEF BeginsDoes, BeginsAny, BeginsBy

LEMMA RemoveMemberBegins ==
    ASSUME ConversationsAssumption, CvTypes, NEW p \in Procs, NEW u \in Users, NEW v \in Users, NEW c \in ids,
           removeMember(p, u, v, c)
    PROVE  BeginsDoes(p)
<1>1. /\ Mem(Home[u], c, u) # None /\ (u = v \/ Mem(Home[u], c, u).role = "admin")
      /\ Begin(p, NewRequest("removeMember", "remove", u, v, c, None))
  BY DEF removeMember, requireMember, IsAdmin, Mem
<1>2. c \in Convs
  BY DEF CvTypes, IdsInOrder
<1>3. PICK r : NewAt(r, "removeMember", "remove", u, v, c) /\ BeginDoes(p, r)
  BY <1>1, <1>2, BeginWith, OnesPlaces
<1>4. BeginsRemove(r, u, v, c)
  BY <1>1, <1>3 DEF BeginsRemove
<1> QED BY <1>3, <1>4 DEF BeginsDoes, BeginsAny, BeginsBy

LEMMA PostMessageBegins ==
    ASSUME ConversationsAssumption, CvTypes, NEW p \in Procs, NEW u \in Users, NEW c \in ids, postMessage(p, u, c)
    PROVE  BeginsDoes(p)
<1>1. Begin(p, NewRequest("number", "post", u, None, c, None)) /\ c \in Convs
  BY DEF postMessage, CvTypes, IdsInOrder
<1>2. PICK r : NewAt(r, "number", "post", u, None, c) /\ BeginDoes(p, r)
  BY <1>1, BeginWith, OnesPlaces
<1> QED BY <1>2 DEF BeginsDoes, BeginsAny, BeginsBy, BeginsPost

LEMMA UploadBegins ==
    ASSUME ConversationsAssumption, CvTypes, NEW p \in Procs, NEW u \in Users, NEW c \in ids, uploadAttachment(p, u, c)
    PROVE  BeginsDoes(p)
<1>1. Begin(p, NewRequest("put", "upload", u, None, c, None)) /\ c \in Convs
  BY DEF uploadAttachment, CvTypes, IdsInOrder
<1>2. PICK r : NewAt(r, "put", "upload", u, None, c) /\ BeginDoes(p, r)
  BY <1>1, BeginWith, OnesPlaces
<1> QED BY <1>2 DEF BeginsDoes, BeginsAny, BeginsBy, BeginsUpload

LEMMA DeleteBegins ==
    ASSUME ConversationsAssumption, CvTypes, NEW p \in Procs, NEW u \in Users, NEW c \in ids, deleteConversation(p, u, c)
    PROVE  BeginsDoes(p)
<1>1. PICK h \in Hosts : h = Home[u]
  BY DEF ConversationsAssumption
<1>2. PICK S : S = (participantHosts(h, c) \cup {db[h].rows[c].hub}) \ {h}
  OBVIOUS
<1>3. /\ Row(h, c) # None /\ Mem(h, c, u) # None
      /\ Begin(p, NewRequest("blobs", "delete", u, None, c, S))
  BY <1>1, <1>2 DEF deleteConversation, requireMember, Exists, Row, Mem
<1>4. c \in Convs /\ DbTyped
  BY DEF CvTypes, IdsInOrder
<1>5. Row(h, c).hub \in Hosts
  BY <1>3, <1>4, TableTypes DEF Conversation
<1>6. S \subseteq Hosts
  <2>1. participantHosts(h, c) \subseteq Hosts
    BY DEF participantHosts, ConversationsAssumption
  <2> QED BY <1>2, <1>5, <2>1 DEF Row
<1>7. /\ Row(h, c).hub # h => Row(h, c).hub \in S
      /\ \A w \in Users : Mem(h, c, w) # None /\ Home[w] # h => Home[w] \in S
  BY <1>2 DEF participantHosts, Row, Mem
<1>8. PICK r : NewAt(r, "blobs", "delete", u, None, c) /\ r.arg = S /\ BeginDoes(p, r)
  <2>1. S \in Args /\ c \in Convs \cup {None} /\ None \in Users \cup {None}
    BY <1>4, <1>6, OnesPlaces
  <2>2. "blobs" \in Pcs /\ "delete" \in Ops
    BY OnesPlaces
  <2> QED BY <1>3, <2>1, <2>2, BeginWith
<1>9. BeginsDelete(r, u, c)
  BY <1>1, <1>3, <1>6, <1>7, <1>8 DEF BeginsDelete
<1> QED BY <1>8, <1>9 DEF BeginsDoes, BeginsAny, BeginsBy

LEMMA FewerMessages ==
    ASSUME CvTypes, \A k \in Hosts : MsgsNext(k) \subseteq Msgs(k)
    PROVE  Numbered'
<1>1. PICK n \in Nat : \A h \in Hosts : \A m \in Msgs(h) : m.seq <= n
  BY DEF CvTypes, Numbered
<1>2. \A h \in Hosts : \A m \in Msgs(h)' : m.seq <= n
  BY <1>1, NextTables
<1> QED BY <1>2 DEF Numbered

LEMMA OneMoreMessage ==
    ASSUME CvTypes, NEW h \in Hosts, NEW c, MsgAdded(h, c)
    PROVE  Numbered'
<1>1. PICK n \in Nat : \A k \in Hosts : \A m \in Msgs(k) : m.seq <= n
  BY DEF CvTypes, Numbered
<1>2. PICK m \in ChatMessage : MsgsSet(h, Msgs(h) \cup {m})
  BY DEF MsgAdded
<1>3. m.seq \in Nat
  BY DEF ChatMessage
<1>4. PICK i \in Nat : n <= i /\ m.seq <= i
  BY <1>3
<1>5. \A k \in Hosts : \A x \in Msgs(k) : x.seq \in Nat
  BY TableTypes DEF CvTypes, ChatMessage
<1>6. \A k \in Hosts : \A x \in MsgsNext(k) : x \in Msgs(k) \/ x = m
  BY <1>2 DEF MsgsSet
<1>7. \A k \in Hosts : \A x \in MsgsNext(k) : x.seq <= i
  <2> SUFFICES ASSUME NEW k \in Hosts, NEW x \in MsgsNext(k) PROVE x.seq <= i
    OBVIOUS
  <2>1. CASE x = m
    BY <1>4, <2>1
  <2>2. CASE x \in Msgs(k)
    BY <1>1, <1>4, <1>5, <2>2
  <2> QED BY <1>6, <2>1, <2>2
<1>8. \A k \in Hosts : \A x \in Msgs(k)' : x.seq <= i
  BY <1>7, NextTables
<1> QED BY <1>8 DEF Numbered

LEMMA KeptIsFewer ==
    ASSUME MsgsKept
    PROVE  \A k \in Hosts : MsgsNext(k) \subseteq Msgs(k)
BY DEF MsgsKept

\* One request moves; conversations are only ever added.
LEMMA TypesStep ==
    ASSUME CvTypes, NEW p \in Procs, backend' = backend, DbTyped', ReqTyped', Numbered', IdsInOrder', RowsKnown',
           ids \subseteq ids', OthersWait(p), InOrder(req[p])',
           told' \subseteq Users \X ids', erased' \subseteq Hosts \X ids', reported' \in [Users -> [Convs -> Nat]]
    PROVE  CvTypes'
<1>1. ASSUME NEW q \in Procs, q # p
      PROVE  InOrder(req[q])'
  <2>1. InOrder(req[q]) /\ req'[q] = req[q]
    BY <1>1 DEF CvTypes, OthersWait
  <2> QED BY <2>1 DEF InOrder, Mongo
<1>2. \A q \in Procs : InOrder(req[q])'
  BY <1>1
<1>3. backend' \in {"mongo", "memory"}
  BY DEF CvTypes
<1> QED BY <1>2, <1>3 DEF CvTypes

LEMMA KnownStays ==
    ASSUME CvTypes, ids \subseteq ids',
           \A k \in Hosts, x \in Convs : RowNext(k, x) # None => Row(k, x) # None \/ x \in ids'
    PROVE  RowsKnown'
<1>1. \A k \in Hosts, x \in Convs : RowNext(k, x) # None => x \in ids'
  BY DEF CvTypes, RowsKnown
<1> QED BY <1>1, NextTables DEF RowsKnown

LEMMA KnownIfAlike ==
    ASSUME CvTypes, RowsAlike, ids' = ids
    PROVE  RowsKnown'
BY KnownStays, NextTables DEF RowsAlike

LEMMA EndedInOrder ==
    ASSUME NEW p \in Procs, Ended(p)
    PROVE  InOrder(req[p])' /\ OthersWait(p) /\ ReqTyped'
<1>1. req'[p].pc = "idle"
  BY DEF Ended, Idle
<1>2. InOrder(req[p])'
  BY <1>1 DEF InOrder
<1> QED BY <1>2 DEF Ended

LEMMA GhostTypes ==
    ASSUME CvTypes
    PROVE  /\ ids' = ids => IdsInOrder' /\ ids \subseteq ids'
           /\ ids \subseteq ids' /\ told' = told => told' \subseteq Users \X ids'
           /\ ids \subseteq ids' /\ erased' = erased => erased' \subseteq Hosts \X ids'
           /\ reported' = reported => reported' \in [Users -> [Convs -> Nat]]
BY DEF CvTypes, IdsInOrder

LEMMA OneMoreTold ==
    ASSUME CvTypes, NEW u \in Users, NEW c \in ids', ids \subseteq ids', told' = told \cup {<<u, c>>}
    PROVE  told' \subseteq Users \X ids'
BY DEF CvTypes

LEMMA BeginsKeepTypes ==
    ASSUME ConversationsAssumption, CvTypes, NEW p \in Procs, BeginsDoes(p)
    PROVE  CvTypes'
<1>1. PICK r : BeginsAny(r) /\ BeginDoes(p, r)
  BY DEF BeginsDoes
<1>2. /\ req'[p] = r /\ OthersWait(p) /\ ReqTyped' /\ DbTyped' /\ MsgsKept
      /\ UNCHANGED <<backend, ids, told, erased, reported>>
  BY <1>1 DEF BeginDoes, DbKept
<1>3. Numbered' /\ RowsKnown'
  BY <1>1, <1>2, KeptIsFewer, FewerMessages, KeptIsAlike, KnownIfAlike DEF BeginDoes, DbKept
<1>4. PICK u \in Users : BeginsBy(r, u)
  BY <1>1 DEF BeginsAny
<1>5. Home[u] \in Hosts
  BY DEF ConversationsAssumption
<1>6. InOrder(r)
  <2>1. CASE BeginsGroup(r, u)
    BY <1>5, <2>1 DEF BeginsGroup, NewAt, InOrder, Ops
  <2>2. CASE \E v \in Users : BeginsDirect(r, u, v)
    BY <1>5, <2>2 DEF BeginsDirect, NewAt, InOrder, Ops
  <2>3. CASE \E c \in ids, v \in Users : BeginsAdd(r, u, v, c)
    BY <1>5, <2>3 DEF BeginsAdd, NewAt, InOrder, Ops
  <2>4. CASE \E c \in ids, v \in Users : BeginsRemove(r, u, v, c)
    BY <1>5, <2>4 DEF BeginsRemove, NewAt, InOrder, Ops
  <2>5. CASE \E c \in ids : BeginsPost(r, u, c)
    BY <1>5, <2>5 DEF BeginsPost, NewAt, InOrder, Ops
  <2>6. CASE \E c \in ids : BeginsUpload(r, u, c)
    BY <1>5, <2>6 DEF BeginsUpload, NewAt, InOrder, Ops
  <2>7. CASE \E c \in ids : BeginsDelete(r, u, c)
    BY <1>5, <2>7 DEF BeginsDelete, NewAt, InOrder, Ops
  <2> QED BY <1>4, <2>1, <2>2, <2>3, <2>4, <2>5, <2>6, <2>7 DEF BeginsBy
<1>7. InOrder(req[p])'
  BY <1>2, <1>6 DEF InOrder, Mongo
<1> QED BY <1>2, <1>3, <1>7, TypesStep, GhostTypes

LEMMA Answered ==
    ASSUME CvTypes, NEW h \in Hosts, NEW u \in Users, NEW c \in Convs, Row(h, c) # None, ids' = ids,
           told' = told \cup {<<u, c>>}
    PROVE  told' \subseteq Users \X ids'
<1>1. c \in ids
  BY DEF CvTypes, RowsKnown
<1> QED BY <1>1, OneMoreTold

LEMMA FindDirectKeepsTypes ==
    ASSUME CvTypes, NEW p \in Procs, FindDirectDoes(p)
    PROVE  CvTypes'
<1>1. /\ req[p].pc = "find" /\ DbTyped' /\ MsgsKept /\ RowsKept /\ UNCHANGED <<backend, ids, erased, reported>>
  BY DEF FindDirectDoes, DbKept
<1>2. Numbered' /\ RowsKnown' /\ req[p].u \in Users /\ req[p].h \in Hosts
  BY <1>1, KeptIsFewer, FewerMessages, KeptIsAlike, KnownIfAlike, AtWork
<1>3. CASE Ended(p) /\ \E c \in Convs : Row(req[p].h, c) # None /\ told' = told \cup {<<req[p].u, c>>}
  <2>1. told' \subseteq Users \X ids'
    BY <1>1, <1>2, <1>3, Answered
  <2> QED BY <1>1, <1>2, <1>3, <2>1, EndedInOrder, TypesStep, GhostTypes
<1>4. CASE told' = told /\ Moved(p, "insert")
  <2>1. /\ req'[p].pc = "insert" /\ req'[p].op = req[p].op /\ req'[p].u = req[p].u /\ req'[p].v = req[p].v
        /\ req'[p].h = req[p].h /\ OthersWait(p) /\ ReqTyped'
    BY <1>4 DEF Moved, Same
  <2>2. InOrder(req[p])
    BY DEF CvTypes
  <2>3. InOrder(req[p])'
    BY <1>1, <2>1, <2>2 DEF InOrder
  <2> QED BY <1>1, <1>2, <1>4, <2>1, <2>3, TypesStep, GhostTypes
<1> QED BY <1>3, <1>4 DEF FindDirectDoes

LEMMA WinnerKeepsTypes ==
    ASSUME CvTypes, NEW p \in Procs, WinnerDoes(p)
    PROVE  CvTypes'
<1>1. /\ req[p].pc = "winner" /\ DbTyped' /\ MsgsKept /\ RowsKept /\ UNCHANGED <<backend, ids, erased, reported>>
      /\ Ended(p)
  BY DEF WinnerDoes, DbKept
<1>2. Numbered' /\ RowsKnown' /\ req[p].u \in Users /\ req[p].h \in Hosts
  BY <1>1, KeptIsFewer, FewerMessages, KeptIsAlike, KnownIfAlike, AtWork
<1>3. told' \subseteq Users \X ids'
  <2>1. CASE \E c \in Convs : Row(req[p].h, c) # None /\ told' = told \cup {<<req[p].u, c>>}
    BY <1>1, <1>2, <2>1, Answered
  <2>2. CASE told' = told
    BY <1>1, <2>2, GhostTypes
  <2> QED BY <2>1, <2>2 DEF WinnerDoes
<1> QED BY <1>1, <1>2, <1>3, EndedInOrder, TypesStep, GhostTypes

LEMMA AfterCreateInOrder ==
    ASSUME CvTypes, NEW p \in Procs, req[p].pc \in {"insert", "members"}, NEW c \in ids', ids \subseteq ids',
           AfterCreateDoes(p, c)
    PROVE  InOrder(req[p])' /\ OthersWait(p) /\ ReqTyped' /\ told' \subseteq Users \X ids'
<1>1. InOrder(req[p]) /\ req[p].u \in Users
  BY AtWork DEF CvTypes
<1>2. CASE Created(p, "provision", c) /\ told' = told /\ req[p].op = "direct"
  <2>1. InOrder(req[p])'
    BY <1>1, <1>2 DEF InOrder, Created
  <2> QED BY <1>2, <2>1, GhostTypes DEF Created
<1>3. CASE Ended(p) /\ told' = told \cup {<<req[p].u, c>>}
  BY <1>1, <1>3, OneMoreTold, EndedInOrder
<1> QED BY <1>2, <1>3 DEF AfterCreateDoes

LEMMA InsertConversationKeepsTypes ==
    ASSUME CvTypes, NEW p \in Procs, InsertConversationDoes(p)
    PROVE  CvTypes'
<1>1. /\ req[p].pc = "insert" /\ DbTyped' /\ MsgsKept /\ UNCHANGED <<backend, erased, reported>>
  BY DEF InsertConversationDoes
<1>2. Numbered' /\ InOrder(req[p]) /\ req[p].h \in Hosts
  BY <1>1, KeptIsFewer, FewerMessages, AtWork DEF CvTypes
<1>3. CASE RowsKept /\ ids' = ids /\ told' = told /\ Moved(p, "winner") /\ req[p].op = "direct"
  <2>1. InOrder(req[p])' /\ OthersWait(p) /\ ReqTyped'
    BY <1>1, <1>2, <1>3 DEF InOrder, Moved, Same
  <2>2. RowsKnown'
    BY <1>3, KeptIsAlike, KnownIfAlike
  <2> QED BY <1>1, <1>2, <1>3, <2>1, <2>2, TypesStep, GhostTypes
<1>4. ASSUME NEW c \in Convs \ ids, ids' = ids \cup {c}, IdsInOrder', RowSet(req[p].h, c, NewRow(req[p])),
             \/ told' = told /\ Created(p, "members", c)
             \/ AfterCreateDoes(p, c)
      PROVE  CvTypes'
  <2>1. RowsKnown'
    BY <1>2, <1>4, KnownStays DEF RowSet
  <2>2. InOrder(req[p])' /\ OthersWait(p) /\ ReqTyped' /\ told' \subseteq Users \X ids'
    <3>1. CASE told' = told /\ Created(p, "members", c)
      <4>1. InOrder(req[p])'
        BY <1>1, <1>2, <1>4, <3>1 DEF InOrder, Created
      <4> QED BY <1>4, <3>1, <4>1, GhostTypes DEF Created
    <3>2. CASE AfterCreateDoes(p, c)
      BY <1>1, <1>4, <3>2, AfterCreateInOrder
    <3> QED BY <1>4, <3>1, <3>2
  <2> QED BY <1>1, <1>2, <1>4, <2>1, <2>2, TypesStep, GhostTypes
<1> QED BY <1>3, <1>4 DEF InsertConversationDoes

LEMMA InsertMembersKeepsTypes ==
    ASSUME CvTypes, NEW p \in Procs, InsertMembersDoes(p)
    PROVE  CvTypes'
<1>1. /\ req[p].pc = "members" /\ DbTyped' /\ MsgsKept /\ RowsKept /\ UNCHANGED <<backend, ids, erased, reported>>
      /\ AfterCreateDoes(p, req[p].c)
  BY DEF InsertMembersDoes
<1>2. Numbered' /\ RowsKnown' /\ req[p].c \in ids
  BY <1>1, KeptIsFewer, FewerMessages, KeptIsAlike, KnownIfAlike, AtWork
<1>3. InOrder(req[p])' /\ OthersWait(p) /\ ReqTyped' /\ told' \subseteq Users \X ids'
  BY <1>1, <1>2, AfterCreateInOrder
<1> QED BY <1>1, <1>2, <1>3, TypesStep, GhostTypes

LEMMA InsertMembersFailsKeepsTypes ==
    ASSUME CvTypes, NEW p \in Procs, InsertMembersFailsDoes(p)
    PROVE  CvTypes'
<1>1. /\ req[p].pc = "members" /\ DbTyped' /\ MsgsKept /\ RowsKept /\ UNCHANGED <<backend, ids, told, erased, reported>>
      /\ IF req[p].op = "direct" THEN Moved(p, "winner") ELSE Ended(p)
  BY DEF InsertMembersFailsDoes, DbKept
<1>2. Numbered' /\ RowsKnown' /\ InOrder(req[p])
  BY <1>1, KeptIsFewer, FewerMessages, KeptIsAlike, KnownIfAlike DEF CvTypes
<1>3. InOrder(req[p])' /\ OthersWait(p) /\ ReqTyped'
  <2>1. CASE req[p].op = "direct"
    BY <1>1, <1>2, <2>1 DEF InOrder, Moved, Same
  <2>2. CASE req[p].op # "direct"
    BY <1>1, <2>2, EndedInOrder
  <2> QED BY <2>1, <2>2
<1> QED BY <1>1, <1>2, <1>3, TypesStep, GhostTypes

LEMMA MirrorKeepsKnown ==
    ASSUME CvTypes, NEW p \in Procs, req[p].pc = "provision", MirrorDoes(p), ids' = ids
    PROVE  RowsKnown' /\ Numbered'
<1>1. req[p].c \in ids
  BY AtWork
<1>2. MsgsKept
  BY DEF MirrorDoes, DbKept
<1>3. CASE DbKept
  BY <1>2, <1>3, KeptIsFewer, FewerMessages, KeptIsAlike, KnownIfAlike DEF DbKept
<1>4. CASE RowSet(Home[req[p].v], req[p].c, SpecRow(req[p]))
  <2>1. \A k \in Hosts, x \in Convs : RowNext(k, x) # None => Row(k, x) # None \/ x \in ids'
    BY <1>1, <1>4 DEF RowSet
  <2> QED BY <1>2, <2>1, KeptIsFewer, FewerMessages, KnownStays
<1> QED BY <1>3, <1>4 DEF MirrorDoes

LEMMA ProvisionKeepsTypes ==
    ASSUME CvTypes, NEW p \in Procs, ProvisionDoes(p)
    PROVE  CvTypes'
<1>1. /\ req[p].pc = "provision" /\ DbTyped' /\ MirrorDoes(p) /\ UNCHANGED <<backend, ids, erased, reported>>
      /\ IF req[p].op = "direct" THEN told' = told \cup {<<req[p].u, req[p].c>>} /\ Ended(p)
         ELSE told' = told /\ Moved(p, "number")
  BY DEF ProvisionDoes
<1>2. Numbered' /\ RowsKnown' /\ InOrder(req[p]) /\ req[p].u \in Users /\ req[p].c \in ids
  BY <1>1, MirrorKeepsKnown, AtWork DEF CvTypes
<1>3. CASE told' = told \cup {<<req[p].u, req[p].c>>} /\ Ended(p)
  <2>1. told' \subseteq Users \X ids'
    BY <1>1, <1>2, <1>3, OneMoreTold
  <2> QED BY <1>1, <1>2, <1>3, <2>1, EndedInOrder, TypesStep, GhostTypes
<1>4. CASE req[p].op # "direct" /\ told' = told /\ Moved(p, "number")
  <2>1. InOrder(req[p])' /\ OthersWait(p) /\ ReqTyped'
    BY <1>1, <1>2, <1>4 DEF InOrder, Moved, Same
  <2> QED BY <1>1, <1>2, <1>4, <2>1, TypesStep, GhostTypes
<1> QED BY <1>1, <1>3, <1>4

LEMMA ProvisionFailsKeepsTypes ==
    ASSUME CvTypes, NEW p \in Procs, ProvisionFailsDoes(p)
    PROVE  CvTypes'
<1>1. /\ req[p].pc = "provision" /\ DbTyped' /\ UNCHANGED <<backend, ids, told, erased, reported>>
      /\ IF req[p].op = "direct" THEN Undone(p) ELSE Ended(p)
      /\ DbKept \/ MirrorDoes(p)
  BY DEF ProvisionFailsDoes
<1>2. Numbered' /\ RowsKnown' /\ InOrder(req[p])
  <2>1. CASE DbKept
    BY <1>1, <2>1, KeptIsFewer, FewerMessages, KeptIsAlike, KnownIfAlike DEF CvTypes, DbKept
  <2>2. CASE MirrorDoes(p)
    BY <1>1, <2>2, MirrorKeepsKnown DEF CvTypes
  <2> QED BY <1>1, <2>1, <2>2
<1>3. InOrder(req[p])' /\ OthersWait(p) /\ ReqTyped'
  <2>1. CASE req[p].op = "direct"
    <3>1. InOrder(req[p])'
      BY <1>1, <1>2, <2>1 DEF InOrder, Undone, Mongo, Ops
    <3> QED BY <1>1, <2>1, <3>1 DEF Undone
  <2>2. CASE req[p].op # "direct"
    BY <1>1, <2>2, EndedInOrder
  <2> QED BY <2>1, <2>2
<1> QED BY <1>1, <1>2, <1>3, TypesStep, GhostTypes

\* A step that keeps the rows, or all of a row but its counter, and writes no message.
LEMMA QuietTables ==
    ASSUME CvTypes, RowsKept \/ RowsAlike, \A k \in Hosts : MsgsNext(k) \subseteq Msgs(k), ids' = ids
    PROVE  Numbered' /\ RowsKnown'
BY FewerMessages, KeptIsAlike, KnownIfAlike

LEMMA JoinSeqKeepsTypes ==
    ASSUME ConversationsAssumption, CvTypes, NEW p \in Procs, JoinSeqDoes(p)
    PROVE  CvTypes'
<1>1. req[p].pc = "joinSeq" /\ UNCHANGED <<backend, ids, told, erased>>
  BY DEF JoinSeqDoes
<1>2. InOrder(req[p]) /\ AfterAdd(p) \in {"number", "provision"}
  BY <1>1, AddAtWork DEF CvTypes
<1>3. DbTyped' /\ RowsKept /\ MsgsKept /\ reported' \in [Users -> [Convs -> Nat]]
  BY GhostTypes DEF JoinSeqDoes, DbKept, JoinDoes, Reached
<1>4. Numbered' /\ RowsKnown'
  BY <1>1, <1>3, KeptIsFewer, QuietTables
<1>5. InOrder(req[p])' /\ OthersWait(p) /\ ReqTyped'
  <2>1. CASE Moved(p, AfterAdd(p))
    BY <1>1, <1>2, <2>1 DEF InOrder, Moved, Same
  <2>2. CASE \E n \in Nat : MovedWith(p, "insertMember", n)
    BY <1>1, <1>2, <2>2 DEF InOrder, MovedWith, Same
  <2> QED BY <2>1, <2>2 DEF JoinSeqDoes
<1> QED BY <1>1, <1>3, <1>4, <1>5, TypesStep, GhostTypes

LEMMA InsertMemberKeepsTypes ==
    ASSUME ConversationsAssumption, CvTypes, NEW p \in Procs, InsertMemberDoes(p)
    PROVE  CvTypes'
<1>1. req[p].pc = "insertMember" /\ UNCHANGED <<backend, ids, told, erased>> /\ Moved(p, AfterAdd(p))
  BY DEF InsertMemberDoes
<1>2. InOrder(req[p]) /\ AfterAdd(p) \in {"number", "provision"}
  BY <1>1, AddAtWork DEF CvTypes
<1>3. DbTyped' /\ RowsKept /\ MsgsKept /\ reported' \in [Users -> [Convs -> Nat]]
  BY DEF InsertMemberDoes, JoinDoes, Reached
<1>4. Numbered' /\ RowsKnown'
  BY <1>1, <1>3, KeptIsFewer, QuietTables
<1>5. InOrder(req[p])' /\ OthersWait(p) /\ ReqTyped'
  BY <1>1, <1>2 DEF InOrder, Moved, Same
<1> QED BY <1>1, <1>3, <1>4, <1>5, TypesStep, GhostTypes

LEMMA RemoveMemberKeepsTypes ==
    ASSUME CvTypes, NEW p \in Procs, RemoveMemberDoes(p)
    PROVE  CvTypes'
<1>1. /\ req[p].pc = "removeMember" /\ UNCHANGED <<backend, ids, told, erased, reported>>
      /\ DbTyped' /\ RowsKept /\ MsgsKept /\ (Ended(p) \/ Moved(p, "number"))
  BY DEF RemoveMemberDoes
<1>2. Numbered' /\ RowsKnown' /\ InOrder(req[p])
  BY <1>1, KeptIsFewer, QuietTables DEF CvTypes
<1>3. InOrder(req[p])' /\ OthersWait(p) /\ ReqTyped'
  <2>1. CASE Moved(p, "number")
    BY <1>1, <1>2, <2>1 DEF InOrder, Moved, Same
  <2>2. CASE Ended(p)
    BY <2>2, EndedInOrder
  <2> QED BY <1>1, <2>1, <2>2
<1> QED BY <1>1, <1>2, <1>3, TypesStep, GhostTypes

LEMMA SetMemberRoleKeepsTypes ==
    ASSUME CvTypes, NEW u, NEW v, NEW c, SetMemberRoleDoes(u, v, c)
    PROVE  CvTypes'
<1>1. DbTyped' /\ RowsKept /\ MsgsKept /\ UNCHANGED <<backend, req, ids, told, erased, reported>>
  BY DEF SetMemberRoleDoes
<1>2. Numbered' /\ RowsKnown'
  BY <1>1, KeptIsFewer, QuietTables
<1>3. \A p \in Procs : InOrder(req[p])'
  BY <1>1 DEF CvTypes, InOrder, Mongo
<1>4. ReqTyped' /\ IdsInOrder' /\ backend' \in {"mongo", "memory"}
  BY <1>1 DEF CvTypes, ReqTyped, IdsInOrder
<1> QED BY <1>1, <1>2, <1>3, <1>4 DEF CvTypes

LEMMA TakeNumberKeepsTypes ==
    ASSUME CvTypes, NEW p \in Procs, TakeNumberDoes(p)
    PROVE  CvTypes'
<1>1. req[p].pc = "number" /\ UNCHANGED <<backend, ids, told, erased, reported>> /\ DbTyped' /\ RowsAlike
  BY DEF TakeNumberDoes
<1>2. RowsKnown' /\ InOrder(req[p]) /\ req[p].h \in Hosts
  BY <1>1, KnownIfAlike, AtWork DEF CvTypes
<1>3. CASE MsgsKept /\ \E n \in Nat : MovedWith(p, "store", n)
  <2>1. Numbered'
    BY <1>3, KeptIsFewer, FewerMessages
  <2>2. InOrder(req[p])' /\ OthersWait(p) /\ ReqTyped'
    BY <1>1, <1>2, <1>3 DEF InOrder, MovedWith, Same
  <2> QED BY <1>1, <1>2, <2>1, <2>2, TypesStep, GhostTypes
<1>4. CASE MsgAdded(req[p].h, req[p].c) /\ Ended(p)
  BY <1>1, <1>2, <1>4, OneMoreMessage, EndedInOrder, TypesStep, GhostTypes
<1> QED BY <1>3, <1>4 DEF TakeNumberDoes

LEMMA StoreMessageKeepsTypes ==
    ASSUME CvTypes, NEW p \in Procs, StoreMessageDoes(p)
    PROVE  CvTypes'
<1>1. /\ req[p].pc = "store" /\ UNCHANGED <<backend, ids, told, erased, reported>> /\ DbTyped' /\ RowsKept
      /\ MsgAdded(req[p].h, req[p].c) /\ Ended(p)
  BY DEF StoreMessageDoes
<1>2. RowsKnown' /\ req[p].h \in Hosts
  BY <1>1, KeptIsAlike, KnownIfAlike, AtWork
<1> QED BY <1>1, <1>2, OneMoreMessage, EndedInOrder, TypesStep, GhostTypes

LEMMA ReportKeepsTypes ==
    ASSUME ConversationsAssumption, CvTypes, NEW p \in Procs, NEW u \in Users, NEW c \in ids, NEW delivered \in Nat,
           NEW read \in Nat, ReportDoes(p, u, c, delivered, read)
    PROVE  CvTypes'
<1>1. /\ UNCHANGED <<backend, ids, told, erased>> /\ DbTyped' /\ RowsKept /\ MsgsKept
      /\ reported' \in [Users -> [Convs -> Nat]] /\ OthersWait(p) /\ ReqTyped'
  BY DEF ReportDoes, ReceiptDoes, Reached
<1>2. Numbered' /\ RowsKnown'
  BY <1>1, KeptIsFewer, QuietTables
<1>3. c \in Convs /\ Home[u] \in Hosts
  BY DEF CvTypes, IdsInOrder, ConversationsAssumption
<1>4. PICK m \in ConversationMember : m = MemNext(Home[u], c, u)
  BY DEF ReportDoes, ReceiptDoes, MemSet
<1>5. m.delivered \in Nat /\ m.read \in Nat
  BY DEF ConversationMember
<1>6. PICK x \in Args : x = <<m.delivered, m.read>> /\ x \in Nat \X Nat
  <2>1. <<m.delivered, m.read>> \in Nat \X Nat
    BY <1>5
  <2>2. <<m.delivered, m.read>> \in Args
    BY <2>1 DEF Args
  <2> QED BY <2>1, <2>2
<1>7. req'[p] = NewRequest("forward", "receipt", u, None, c, x)
  BY <1>4, <1>6 DEF ReportDoes
<1>8. /\ "forward" \in Pcs /\ "receipt" \in Ops /\ None \in Users \cup {None} /\ c \in Convs \cup {None}
  BY <1>3 DEF Pcs, Ops
<1>9. /\ req'[p].pc = "forward" /\ req'[p].op = "receipt" /\ req'[p].u = u /\ req'[p].v = None /\ req'[p].c = c
      /\ req'[p].h = Home[u] /\ req'[p].arg = x
  <2>1. PICK r : r = NewRequest("forward", "receipt", u, None, c, x)
    OBVIOUS
  <2>2. r.pc = "forward" /\ r.op = "receipt" /\ r.u = u /\ r.v = None /\ r.c = c /\ r.h = Home[u] /\ r.arg = x
    BY <1>8, <2>1, NewRequestIs
  <2> QED BY <1>7, <2>1, <2>2
<1>10. InOrder(req[p])'
  BY <1>1, <1>3, <1>6, <1>9 DEF InOrder, Ops
<1> QED BY <1>1, <1>2, <1>10, TypesStep, GhostTypes

LEMMA ForwardReceiptKeepsTypes ==
    ASSUME CvTypes, NEW p \in Procs, ForwardReceiptDoes(p)
    PROVE  CvTypes'
<1>1. /\ UNCHANGED <<backend, ids, told, erased, reported>> /\ DbTyped' /\ RowsKept /\ MsgsKept /\ Ended(p)
  BY DEF ForwardReceiptDoes
<1>2. Numbered' /\ RowsKnown'
  BY <1>1, KeptIsFewer, QuietTables
<1> QED BY <1>1, <1>2, EndedInOrder, TypesStep, GhostTypes

LEMMA PutBlobKeepsTypes ==
    ASSUME CvTypes, NEW p \in Procs, PutBlobDoes(p)
    PROVE  CvTypes'
<1>1. /\ req[p].pc = "put" /\ UNCHANGED <<backend, ids, told, erased, reported>> /\ DbTyped' /\ RowsKept /\ MsgsKept
      /\ Moved(p, "record")
  BY DEF PutBlobDoes
<1>2. Numbered' /\ RowsKnown' /\ InOrder(req[p])
  BY <1>1, KeptIsFewer, QuietTables DEF CvTypes
<1>3. InOrder(req[p])' /\ OthersWait(p) /\ ReqTyped'
  BY <1>1, <1>2 DEF InOrder, Moved, Same
<1> QED BY <1>1, <1>2, <1>3, TypesStep, GhostTypes

LEMMA RecordAttachmentKeepsTypes ==
    ASSUME CvTypes, NEW p \in Procs, RecordAttachmentDoes(p)
    PROVE  CvTypes'
<1>1. /\ UNCHANGED <<backend, ids, told, erased, reported>> /\ DbTyped' /\ RowsKept /\ MsgsKept /\ Ended(p)
  BY DEF RecordAttachmentDoes
<1>2. Numbered' /\ RowsKnown'
  BY <1>1, KeptIsFewer, QuietTables
<1> QED BY <1>1, <1>2, EndedInOrder, TypesStep, GhostTypes

LEMMA RecordFailsKeepsTypes ==
    ASSUME CvTypes, NEW p \in Procs, RecordFailsDoes(p)
    PROVE  CvTypes'
<1>1. /\ req[p].pc = "record" /\ UNCHANGED <<backend, ids, told, erased, reported>> /\ DbTyped' /\ RowsKept /\ MsgsKept
      /\ Moved(p, "unput")
  BY DEF RecordFailsDoes, DbKept
<1>2. Numbered' /\ RowsKnown' /\ InOrder(req[p])
  BY <1>1, KeptIsFewer, QuietTables DEF CvTypes
<1>3. InOrder(req[p])' /\ OthersWait(p) /\ ReqTyped'
  BY <1>1, <1>2 DEF InOrder, Moved, Same
<1> QED BY <1>1, <1>2, <1>3, TypesStep, GhostTypes

LEMMA UnputBlobKeepsTypes ==
    ASSUME CvTypes, NEW p \in Procs, UnputBlobDoes(p)
    PROVE  CvTypes'
<1>1. /\ UNCHANGED <<backend, ids, told, erased, reported>> /\ DbTyped' /\ RowsKept /\ MsgsKept /\ Ended(p)
  BY DEF UnputBlobDoes
<1>2. Numbered' /\ RowsKnown'
  BY <1>1, KeptIsFewer, QuietTables
<1> QED BY <1>1, <1>2, EndedInOrder, TypesStep, GhostTypes

LEMMA DeleteBlobsKeepsTypes ==
    ASSUME CvTypes, NEW p \in Procs, DeleteBlobsDoes(p)
    PROVE  CvTypes'
<1>1. /\ req[p].pc = "blobs" /\ UNCHANGED <<backend, ids, told, erased, reported>> /\ DbTyped' /\ RowsKept /\ MsgsKept
      /\ Moved(p, "records")
  BY DEF DeleteBlobsDoes
<1>2. Numbered' /\ RowsKnown' /\ InOrder(req[p])
  BY <1>1, KeptIsFewer, QuietTables DEF CvTypes
<1>3. InOrder(req[p])' /\ OthersWait(p) /\ ReqTyped'
  BY <1>1, <1>2 DEF InOrder, Moved, Same
<1> QED BY <1>1, <1>2, <1>3, TypesStep, GhostTypes

LEMMA DeleteRecordsKeepsTypes ==
    ASSUME CvTypes, NEW p \in Procs, DeleteRecordsDoes(p)
    PROVE  CvTypes'
<1>1. /\ req[p].pc \in {"blobs", "records"} /\ UNCHANGED <<backend, ids, told, erased, reported>>
      /\ DbTyped' /\ RowsKept /\ MsgsKept
      /\ MovedWith(p, "delete", req[p].arg) /\ req'[p].todo = IF Mongo THEN Todo3 ELSE TodoAll
  BY DEF DeleteRecordsDoes
<1>2. Numbered' /\ RowsKnown' /\ InOrder(req[p])
  BY <1>1, KeptIsFewer, QuietTables DEF CvTypes
<1>3. InOrder(req[p])' /\ OthersWait(p) /\ ReqTyped'
  BY <1>1, <1>2 DEF InOrder, MovedWith, Same, Mongo
<1> QED BY <1>1, <1>2, <1>3, TypesStep, GhostTypes

LEMMA DeleteStepKeepsTypes ==
    ASSUME CvTypes, NEW p \in Procs, DeleteStepDoes(p)
    PROVE  CvTypes'
<1>1. /\ req[p].pc = "delete" /\ UNCHANGED <<backend, ids, told, reported>> /\ DbTyped'
  BY DEF DeleteStepDoes
<1>2. InOrder(req[p]) /\ req[p].h \in Hosts /\ req[p].c \in ids
  BY <1>1, AtWork DEF CvTypes
<1>3. Numbered'
  <2>1. \A k \in Hosts : MsgsNext(k) \subseteq Msgs(k)
    BY DEF DeleteStepDoes, MsgsKept, MsgsSet
  <2> QED BY <2>1, FewerMessages
<1>4. RowsKnown'
  <2>1. \A k \in Hosts, x \in Convs : RowNext(k, x) # None => Row(k, x) # None
    BY DEF DeleteStepDoes, RowsKept, RowSet
  <2> QED BY <1>1, <2>1, KnownStays
<1>5. InOrder(req[p])' /\ OthersWait(p) /\ ReqTyped' /\ erased' \subseteq Hosts \X ids'
  <2>1. CASE DeletedLast(p)
    <3>1. CASE req[p].op = "undo"
      BY <1>1, <2>1, <3>1, EndedInOrder, GhostTypes DEF DeletedLast
    <3>2. CASE req[p].op # "undo"
      <4>1. InOrder(req[p])' /\ OthersWait(p) /\ ReqTyped'
        BY <1>1, <1>2, <2>1, <3>2 DEF InOrder, DeletedLast, Moved, Same
      <4>2. erased' \subseteq Hosts \X ids'
        BY <1>1, <1>2, <2>1, <3>2 DEF CvTypes, DeletedLast
      <4> QED BY <4>1, <4>2
    <3> QED BY <3>1, <3>2
  <2>2. CASE /\ req[p].todo \in {Todo2, Todo3} /\ MovedWith(p, "delete", req[p].arg)
             /\ req'[p].todo \in {Todo1, Todo2} /\ erased' = erased
    <3>1. Mongo
      BY <1>1, <1>2, <2>2, TodoSteps DEF InOrder
    <3>2. InOrder(req[p])' /\ OthersWait(p) /\ ReqTyped'
      BY <1>1, <1>2, <2>2, <3>1 DEF InOrder, MovedWith, Same, Mongo
    <3> QED BY <1>1, <2>2, <3>2, GhostTypes
  <2> QED BY <2>1, <2>2 DEF DeleteStepDoes
<1> QED BY <1>1, <1>3, <1>4, <1>5, TypesStep, GhostTypes

LEMMA DeleteMirrorKeepsTypes ==
    ASSUME CvTypes, NEW p \in Procs, DeleteMirrorDoes(p)
    PROVE  CvTypes'
<1>1. /\ UNCHANGED <<backend, ids, told, erased, reported>> /\ DbTyped' /\ Ended(p)
  BY DEF DeleteMirrorDoes
<1>2. \A k \in Hosts : HostKept(k) \/ HostCleared(k, req[p].c)
  BY DEF DeleteMirrorDoes
<1>3. Numbered'
  <2>1. \A k \in Hosts : MsgsNext(k) \subseteq Msgs(k)
    BY <1>2 DEF HostKept, HostCleared
  <2> QED BY <2>1, FewerMessages
<1>4. RowsKnown'
  <2>1. \A k \in Hosts, x \in Convs : RowNext(k, x) # None => Row(k, x) # None
    BY <1>2 DEF HostKept, HostCleared
  <2> QED BY <1>1, <2>1, KnownStays
<1> QED BY <1>1, <1>3, <1>4, EndedInOrder, TypesStep, GhostTypes

LEMMA CallFailsKeepsTypes ==
    ASSUME CvTypes, NEW p \in Procs, CallFailsDoes(p)
    PROVE  CvTypes'
<1>1. /\ UNCHANGED <<backend, ids, told, erased, reported>> /\ DbTyped' /\ RowsKept /\ MsgsKept /\ Ended(p)
  BY DEF CallFailsDoes, DbKept
<1>2. Numbered' /\ RowsKnown'
  BY <1>1, KeptIsFewer, QuietTables
<1> QED BY <1>1, <1>2, EndedInOrder, TypesStep, GhostTypes

\* What a step of the system does, whoever takes it.
Effect ==
    \/ \E c \in ids, u, v \in Users : SetMemberRoleDoes(u, v, c)
    \/ \E p \in Procs : BeginsDoes(p)
    \/ \E p \in Procs, c \in ids, u \in Users, delivered, read \in Nat : ReportDoes(p, u, c, delivered, read)
    \/ \E p \in Procs :
        \/ FindDirectDoes(p) \/ InsertConversationDoes(p) \/ InsertMembersDoes(p) \/ InsertMembersFailsDoes(p)
        \/ WinnerDoes(p) \/ ProvisionDoes(p) \/ ProvisionFailsDoes(p)
        \/ JoinSeqDoes(p) \/ InsertMemberDoes(p) \/ RemoveMemberDoes(p)
        \/ TakeNumberDoes(p) \/ StoreMessageDoes(p) \/ ForwardReceiptDoes(p)
        \/ PutBlobDoes(p) \/ RecordAttachmentDoes(p) \/ RecordFailsDoes(p) \/ UnputBlobDoes(p)
        \/ DeleteBlobsDoes(p) \/ DeleteRecordsDoes(p) \/ DeleteStepDoes(p) \/ DeleteMirrorDoes(p)
        \/ CallFailsDoes(p)

LEMMA NextDoes ==
    ASSUME ConversationsAssumption, CvTypes, Next
    PROVE  Effect
<1>1. \A c \in ids : c \in Convs
  BY DEF CvTypes, IdsInOrder
<1>2. ASSUME NEW c \in ids, NEW u \in Users, NEW v \in Users, NEW role \in Roles, setMemberRole(u, v, c, role)
      PROVE  SetMemberRoleDoes(u, v, c)
  BY <1>1, <1>2, SetMemberRoleEffect
<1>3. ASSUME NEW p \in Procs, NEW c \in ids, NEW u \in Users, NEW x \in Reports, reportReceipt(p, u, c, x[1], x[2])
      PROVE  \E delivered, read \in Nat : ReportDoes(p, u, c, delivered, read)
  <2>1. x[1] \in Nat /\ x[2] \in Nat
    BY DEF ConversationsAssumption
  <2>2. ReportDoes(p, u, c, x[1], x[2])
    BY <1>1, <1>3, <2>1, ReportEffect
  <2> QED BY <2>1, <2>2
<1>4. ASSUME NEW p \in Procs, NEW u \in Users,
             createGroup(p, u) \/ \E v \in Users : createDirect(p, u, v)
      PROVE  BeginsDoes(p)
  BY <1>4, CreateGroupBegins, CreateDirectBegins
<1>5. ASSUME NEW p \in Procs, NEW c \in ids, NEW u \in Users,
             \/ \E v \in Users : addMember(p, u, v, c) \/ removeMember(p, u, v, c)
             \/ postMessage(p, u, c) \/ uploadAttachment(p, u, c) \/ deleteConversation(p, u, c)
      PROVE  BeginsDoes(p)
  BY <1>5, AddMemberBegins, RemoveMemberBegins, PostMessageBegins, UploadBegins, DeleteBegins
<1>6. CASE \E c \in ids, u, v \in Users, role \in Roles : setMemberRole(u, v, c, role)
  BY <1>2, <1>6 DEF Effect
<1>7. CASE \E p \in Waiting :
        \/ \E u \in Users : createGroup(p, u) \/ \E v \in Users : createDirect(p, u, v)
        \/ \E c \in ids, u \in Users :
              \/ \E v \in Users : addMember(p, u, v, c) \/ removeMember(p, u, v, c)
              \/ postMessage(p, u, c) \/ uploadAttachment(p, u, c) \/ deleteConversation(p, u, c)
              \/ \E x \in Reports : reportReceipt(p, u, c, x[1], x[2])
  <2>1. PICK p \in Procs :
        \/ \E u \in Users : createGroup(p, u) \/ \E v \in Users : createDirect(p, u, v)
        \/ \E c \in ids, u \in Users :
              \/ \E v \in Users : addMember(p, u, v, c) \/ removeMember(p, u, v, c)
              \/ postMessage(p, u, c) \/ uploadAttachment(p, u, c) \/ deleteConversation(p, u, c)
              \/ \E x \in Reports : reportReceipt(p, u, c, x[1], x[2])
    BY <1>7 DEF Waiting
  <2>2. \/ BeginsDoes(p)
        \/ \E c \in ids, u \in Users, delivered, read \in Nat : ReportDoes(p, u, c, delivered, read)
    BY <1>3, <1>4, <1>5, <2>1
  <2> QED BY <2>2 DEF Effect
<1>8. ASSUME NEW p \in Procs
      PROVE  /\ (FindDirect(p) => FindDirectDoes(p))
             /\ (InsertConversation(p) => InsertConversationDoes(p))
             /\ (InsertMembers(p) => InsertMembersDoes(p))
             /\ (InsertMembersFails(p) => InsertMembersFailsDoes(p))
             /\ (Winner(p) => WinnerDoes(p))
             /\ (Provision(p) => ProvisionDoes(p))
             /\ (ProvisionFails(p) => ProvisionFailsDoes(p))
             /\ (JoinSeq(p) => JoinSeqDoes(p))
             /\ (InsertMember(p) => InsertMemberDoes(p))
             /\ (RemoveMember(p) => RemoveMemberDoes(p))
             /\ (TakeNumber(p) => TakeNumberDoes(p))
             /\ (StoreMessage(p) => StoreMessageDoes(p))
             /\ (ForwardReceipt(p) => ForwardReceiptDoes(p))
             /\ (PutBlob(p) => PutBlobDoes(p))
             /\ (RecordAttachment(p) => RecordAttachmentDoes(p))
             /\ (RecordFails(p) => RecordFailsDoes(p))
             /\ (UnputBlob(p) => UnputBlobDoes(p))
             /\ (DeleteBlobs(p) => DeleteBlobsDoes(p))
             /\ (DeleteRecords(p) => DeleteRecordsDoes(p))
             /\ (DeleteStep(p) => DeleteStepDoes(p))
             /\ (DeleteMirror(p) => DeleteMirrorDoes(p))
             /\ (CallFails(p) => CallFailsDoes(p))
             /\ (BlobsFail(p) => DeleteBlobsDoes(p) \/ DeleteRecordsDoes(p))
             /\ (RecordsFail(p) => DeleteRecordsDoes(p))
  <2>1. FindDirect(p) => FindDirectDoes(p)
    BY FindDirectEffect
  <2>2. InsertConversation(p) => InsertConversationDoes(p)
    BY InsertConversationEffect
  <2>3. InsertMembers(p) => InsertMembersDoes(p)
    BY InsertMembersEffect
  <2>4. InsertMembersFails(p) => InsertMembersFailsDoes(p)
    BY InsertMembersFailsEffect
  <2>5. Winner(p) => WinnerDoes(p)
    BY WinnerEffect
  <2>6. Provision(p) => ProvisionDoes(p)
    BY ProvisionEffect
  <2>7. ProvisionFails(p) => ProvisionFailsDoes(p)
    BY ProvisionFailsEffect
  <2>8. JoinSeq(p) => JoinSeqDoes(p)
    BY JoinSeqEffect
  <2>9. InsertMember(p) => InsertMemberDoes(p)
    BY InsertMemberEffect
  <2>10. RemoveMember(p) => RemoveMemberDoes(p)
    BY RemoveMemberEffect
  <2>11. TakeNumber(p) => TakeNumberDoes(p)
    BY TakeNumberEffect
  <2>12. StoreMessage(p) => StoreMessageDoes(p)
    BY StoreMessageEffect
  <2>13. ForwardReceipt(p) => ForwardReceiptDoes(p)
    BY ForwardReceiptEffect
  <2>14. PutBlob(p) => PutBlobDoes(p)
    BY PutBlobEffect
  <2>15. RecordAttachment(p) => RecordAttachmentDoes(p)
    BY RecordAttachmentEffect
  <2>16. RecordFails(p) => RecordFailsDoes(p)
    BY RecordFailsEffect
  <2>17. UnputBlob(p) => UnputBlobDoes(p)
    BY UnputBlobEffect
  <2>18. DeleteBlobs(p) => DeleteBlobsDoes(p)
    BY DeleteBlobsEffect
  <2>19. DeleteRecords(p) => DeleteRecordsDoes(p)
    BY DeleteRecordsEffect
  <2>20. DeleteStep(p) => DeleteStepDoes(p)
    BY DeleteStepEffect
  <2>21. DeleteMirror(p) => DeleteMirrorDoes(p)
    BY DeleteMirrorEffect
  <2>22. CallFails(p) => CallFailsDoes(p)
    BY CallFailsEffect
  <2>23. BlobsFail(p) => DeleteBlobsDoes(p) \/ DeleteRecordsDoes(p)
    BY BlobsFailEffect
  <2>24. RecordsFail(p) => DeleteRecordsDoes(p)
    BY RecordsFailEffect
  <2> QED BY <2>1, <2>2, <2>3, <2>4, <2>5, <2>6, <2>7, <2>8, <2>9, <2>10, <2>11, <2>12, <2>13, <2>14, <2>15, <2>16, <2>17, <2>18, <2>19, <2>20, <2>21, <2>22, <2>23, <2>24
<1>9. CASE \E p \in Procs :
        \/ FindDirect(p) \/ InsertConversation(p) \/ InsertMembers(p) \/ InsertMembersFails(p)
        \/ Winner(p) \/ Provision(p) \/ ProvisionFails(p)
        \/ JoinSeq(p) \/ InsertMember(p) \/ RemoveMember(p)
        \/ TakeNumber(p) \/ StoreMessage(p) \/ ForwardReceipt(p)
        \/ PutBlob(p) \/ RecordAttachment(p) \/ RecordFails(p) \/ UnputBlob(p)
        \/ DeleteBlobs(p) \/ DeleteRecords(p) \/ DeleteStep(p) \/ DeleteMirror(p)
        \/ BlobsFail(p) \/ RecordsFail(p) \/ CallFails(p)
  BY <1>8, <1>9 DEF Effect
<1> QED BY <1>6, <1>7, <1>9 DEF Next

LEMMA TypesKept ==
    ASSUME ConversationsAssumption, CvTypes, Effect
    PROVE  CvTypes'
<1>1. CASE \E c \in ids, u, v \in Users : SetMemberRoleDoes(u, v, c)
  BY <1>1, SetMemberRoleKeepsTypes
<1>2. CASE \E p \in Procs : BeginsDoes(p)
  BY <1>2, BeginsKeepTypes
<1>3. CASE \E p \in Procs, c \in ids, u \in Users, delivered, read \in Nat : ReportDoes(p, u, c, delivered, read)
  BY <1>3, ReportKeepsTypes
<1>4. ASSUME NEW p \in Procs,
             \/ FindDirectDoes(p) \/ InsertConversationDoes(p) \/ InsertMembersDoes(p) \/ InsertMembersFailsDoes(p)
             \/ WinnerDoes(p) \/ ProvisionDoes(p) \/ ProvisionFailsDoes(p) \/ JoinSeqDoes(p)
             \/ InsertMemberDoes(p) \/ RemoveMemberDoes(p) \/ TakeNumberDoes(p) \/ StoreMessageDoes(p)
             \/ ForwardReceiptDoes(p) \/ PutBlobDoes(p) \/ RecordAttachmentDoes(p) \/ RecordFailsDoes(p)
             \/ UnputBlobDoes(p) \/ DeleteBlobsDoes(p) \/ DeleteRecordsDoes(p) \/ DeleteStepDoes(p)
             \/ DeleteMirrorDoes(p) \/ CallFailsDoes(p)
      PROVE  CvTypes'
  <2>1. FindDirectDoes(p) => CvTypes'
    BY FindDirectKeepsTypes
  <2>2. InsertConversationDoes(p) => CvTypes'
    BY InsertConversationKeepsTypes
  <2>3. InsertMembersDoes(p) => CvTypes'
    BY InsertMembersKeepsTypes
  <2>4. InsertMembersFailsDoes(p) => CvTypes'
    BY InsertMembersFailsKeepsTypes
  <2>5. WinnerDoes(p) => CvTypes'
    BY WinnerKeepsTypes
  <2>6. ProvisionDoes(p) => CvTypes'
    BY ProvisionKeepsTypes
  <2>7. ProvisionFailsDoes(p) => CvTypes'
    BY ProvisionFailsKeepsTypes
  <2>8. JoinSeqDoes(p) => CvTypes'
    BY JoinSeqKeepsTypes
  <2>9. InsertMemberDoes(p) => CvTypes'
    BY InsertMemberKeepsTypes
  <2>10. RemoveMemberDoes(p) => CvTypes'
    BY RemoveMemberKeepsTypes
  <2>11. TakeNumberDoes(p) => CvTypes'
    BY TakeNumberKeepsTypes
  <2>12. StoreMessageDoes(p) => CvTypes'
    BY StoreMessageKeepsTypes
  <2>13. ForwardReceiptDoes(p) => CvTypes'
    BY ForwardReceiptKeepsTypes
  <2>14. PutBlobDoes(p) => CvTypes'
    BY PutBlobKeepsTypes
  <2>15. RecordAttachmentDoes(p) => CvTypes'
    BY RecordAttachmentKeepsTypes
  <2>16. RecordFailsDoes(p) => CvTypes'
    BY RecordFailsKeepsTypes
  <2>17. UnputBlobDoes(p) => CvTypes'
    BY UnputBlobKeepsTypes
  <2>18. DeleteBlobsDoes(p) => CvTypes'
    BY DeleteBlobsKeepsTypes
  <2>19. DeleteRecordsDoes(p) => CvTypes'
    BY DeleteRecordsKeepsTypes
  <2>20. DeleteStepDoes(p) => CvTypes'
    BY DeleteStepKeepsTypes
  <2>21. DeleteMirrorDoes(p) => CvTypes'
    BY DeleteMirrorKeepsTypes
  <2>22. CallFailsDoes(p) => CvTypes'
    BY CallFailsKeepsTypes
  <2> QED BY <1>4, <2>1, <2>2, <2>3, <2>4, <2>5, <2>6, <2>7, <2>8, <2>9, <2>10, <2>11, <2>12, <2>13, <2>14, <2>15, <2>16, <2>17, <2>18, <2>19, <2>20, <2>21, <2>22
<1> QED BY <1>1, <1>2, <1>3, <1>4 DEF Effect

(***************************************************************************)
(* The beginning                                                           *)
(***************************************************************************)
LEMMA EmptyTables ==
    /\ EmptyDB \in Database /\ EmptyDB.msgs = {} /\ EmptyDB.records = {} /\ EmptyDB.blobs = {}
    /\ \A c \in Convs : EmptyDB.rows[c] = None /\ EmptyDB.members[c] = NoMembers
    /\ \A c \in Convs, u \in Users : EmptyDB.members[c][u] = None
BY DEF EmptyDB, Database, NoMembers

\* One conversation on the hosts of the chat, with everyone in it, or none at all.
BeginsEmpty == \A h \in Hosts :
    /\ \A c \in Convs : Row(h, c) = None
    /\ \A c \in Convs, u \in Users : Mem(h, c, u) = None
BeginsChat(kind, pair) ==
    /\ \A h \in Hosts, c \in Convs :
          IF c = 1 /\ h \in {Home[u] : u \in Chat}
          THEN /\ Row(h, c) # None /\ Row(h, c).kind = kind /\ Row(h, c).pair = pair
               /\ Row(h, c).hub = Home[Founder]
          ELSE Row(h, c) = None
    /\ \A h \in Hosts, c \in Convs, u \in Users :
          IF c = 1 /\ h \in {Home[w] : w \in Chat} /\ u \in Chat
          THEN Fresh(Mem(h, c, u)) /\ (kind = "direct" => Mem(h, c, u).role = "user")
          ELSE Mem(h, c, u) = None

InitDoes ==
    /\ DbTyped /\ Numbered
    /\ \A h \in Hosts : Records(h) = {} /\ Blobs(h) = {}
    /\ \/ BeginsEmpty /\ ids = {}
       \/ BeginsChat("group", None) /\ ids = {1}
       \/ BeginsChat("direct", Chat) /\ ids = {1}

\* The tables of a host that begins with the conversation.
ChatTables(d, kind, pair) ==
    /\ d \in Database /\ d.records = {} /\ d.blobs = {} /\ \A m \in d.msgs : m.seq <= 2
    /\ \A c \in Convs :
          IF c = 1
          THEN /\ d.rows[c] # None /\ d.rows[c].kind = kind /\ d.rows[c].pair = pair
               /\ d.rows[c].hub = Home[Founder]
          ELSE d.rows[c] = None
    /\ \A c \in Convs, u \in Users :
          IF c = 1 /\ u \in Chat
          THEN Fresh(d.members[c][u]) /\ (kind = "direct" => d.members[c][u].role = "user")
          ELSE d.members[c][u] = None

LEMMA FreshRow ==
    ASSUME ConversationsAssumption, NEW role \in Roles
    PROVE  Fresh(Joining(role, 0)) /\ Joining(role, 0).role = role /\ Joining(role, 0) \in ConversationMember
<1>1. PICK m : m = Joining(role, 0)
  OBVIOUS
<1>2. m = [role |-> role, join |-> 0, delivered |-> 0, read |-> 0] /\ m \in ConversationMember
  BY <1>1, JoiningIs
<1>3. m # None
  BY <1>2 DEF ConversationsAssumption
<1> QED BY <1>1, <1>2, <1>3 DEF Fresh

LEMMA TablesMade ==
    ASSUME ConversationsAssumption, NEW kind \in {"group", "direct"}, NEW pair \in Pairs \cup {None},
           NEW f \in [Users -> ConversationMember \cup {None}], NEW S \in SUBSET ChatMessage, \A m \in S : m.seq <= 2,
           \A u \in Users : IF u \in Chat THEN Fresh(f[u]) /\ (kind = "direct" => f[u].role = "user") ELSE f[u] = None,
           NEW row \in Conversation, row.kind = kind, row.pair = pair, row.hub = Home[Founder]
    PROVE  ChatTables([MemoryCreateConversation(EmptyDB, 1, row, f) EXCEPT !.msgs = S], kind, pair)
<1>1. PICK d : d = [MemoryCreateConversation(EmptyDB, 1, row, f) EXCEPT !.msgs = S]
  OBVIOUS
<1>2. Home[Founder] \in Hosts /\ 1 \in Convs
  BY DEF ConversationsAssumption, Pairs
<1>3. row \in Conversation /\ row.kind = kind /\ row.pair = pair /\ row.hub = Home[Founder]
  OBVIOUS
<1>4. row # None
  BY <1>3 DEF ConversationsAssumption
<1>5. PICK b \in Database : b = EmptyDB
  BY EmptyTables
<1>6. PICK e : e = [b EXCEPT !.rows[1] = row, !.members[1] = f]
  OBVIOUS
<1>7. e = [rows |-> [b.rows EXCEPT ![1] = row], members |-> [b.members EXCEPT ![1] = f],
           msgs |-> b.msgs, records |-> b.records, blobs |-> b.blobs]
  BY <1>2, <1>3, <1>6, PutBoth
<1>8. /\ e.rows = [b.rows EXCEPT ![1] = row] /\ e.members = [b.members EXCEPT ![1] = f]
      /\ e.msgs = b.msgs /\ e.records = b.records /\ e.blobs = b.blobs
  BY <1>7
<1>9. e \in Database
  <2>1. [b.rows EXCEPT ![1] = row] \in [Convs -> Conversation \cup {None}]
    BY <1>3, DatabaseParts
  <2>2. [b.members EXCEPT ![1] = f] \in [Convs -> [Users -> ConversationMember \cup {None}]]
    BY DatabaseParts
  <2> QED BY <1>7, <2>1, <2>2, DatabaseParts DEF Database
<1>10. d = [e EXCEPT !.msgs = S]
  BY <1>1, <1>5, <1>6 DEF MemoryCreateConversation
<1>11. PICK g : g = [rows |-> e.rows, members |-> e.members, msgs |-> S, records |-> e.records, blobs |-> e.blobs]
  OBVIOUS
<1>12. d = g
  BY <1>9, <1>10, <1>11, PutMsgs
<1>13. g \in Database
  BY <1>9, <1>11, DatabaseParts DEF Database
<1>14. /\ g.rows = [b.rows EXCEPT ![1] = row] /\ g.members = [b.members EXCEPT ![1] = f] /\ g.msgs = S
       /\ g.records = {} /\ g.blobs = {}
  BY <1>5, <1>8, <1>11, EmptyTables
<1>15. g.rows[1] = row /\ \A c \in Convs : c # 1 => g.rows[c] = None
  BY <1>2, <1>5, <1>14, EmptyTables, DatabaseParts
<1>16. g.members[1] = f /\ \A c \in Convs, u \in Users : c # 1 => g.members[c][u] = None
  BY <1>2, <1>5, <1>14, EmptyTables, DatabaseParts
<1>17. ChatTables(g, kind, pair)
  <2>1. \A c \in Convs :
          IF c = 1
          THEN /\ g.rows[c] # None /\ g.rows[c].kind = kind /\ g.rows[c].pair = pair
               /\ g.rows[c].hub = Home[Founder]
          ELSE g.rows[c] = None
    BY <1>3, <1>4, <1>15
  <2>2. \A c \in Convs, u \in Users :
          IF c = 1 /\ u \in Chat
          THEN Fresh(g.members[c][u]) /\ (kind = "direct" => g.members[c][u].role = "user")
          ELSE g.members[c][u] = None
    BY <1>16
  <2> QED BY <1>13, <1>14, <2>1, <2>2 DEF ChatTables
<1> QED BY <1>1, <1>12, <1>17

LEMMA StartedOn ==
    ASSUME ConversationsAssumption, NEW start \in {"group", "direct"}, NEW h \in Hosts
    PROVE  IF h \in {Home[u] : u \in Chat}
           THEN ChatTables(Started(start)[h], start, IF start = "group" THEN None ELSE Chat)
           ELSE Started(start)[h] = EmptyDB
<1>1. CASE h \notin {Home[u] : u \in Chat}
  BY <1>1 DEF Started
<1>2. CASE h \in {Home[u] : u \in Chat}
  <2>1. PICK f : f = [u \in Users |->
               IF u \notin Chat THEN None
               ELSE Joining(IF <<start, u, h>> = <<"group", Founder, Home[u]>> THEN "admin" ELSE "user", 0)]
    OBVIOUS
  <2>2. PICK S : S = {[conv |-> 1, seq |-> n, by |-> Founder] : n \in 1 .. 2}
    OBVIOUS
  <2>3. PICK pair \in Pairs \cup {None} : pair = IF start = "group" THEN None ELSE Chat
    BY DEF ConversationsAssumption
  <2>4. PICK n \in Nat : n = IF h = Home[Founder] THEN 2 ELSE 0
    OBVIOUS
  <2>5. Started(start)[h] =
          [MemoryCreateConversation(EmptyDB, 1, [kind |-> start, pair |-> pair, hub |-> Home[Founder], seq |-> n], f)
           EXCEPT !.msgs = S]
    BY <1>2, <2>1, <2>2, <2>3, <2>4 DEF Started
  <2>6. "user" \in Roles /\ "admin" \in Roles
    BY DEF Roles
  <2>7. f \in [Users -> ConversationMember \cup {None}]
    BY <2>1, <2>6, FreshRow
  <2>8. \A u \in Users : IF u \in Chat THEN Fresh(f[u]) /\ (start = "direct" => f[u].role = "user") ELSE f[u] = None
    <3> SUFFICES ASSUME NEW u \in Users
                 PROVE  IF u \in Chat THEN Fresh(f[u]) /\ (start = "direct" => f[u].role = "user") ELSE f[u] = None
      OBVIOUS
    <3>1. CASE u \notin Chat
      BY <2>1, <3>1
    <3>2. CASE u \in Chat
      <4>1. PICK role \in Roles : /\ role = IF <<start, u, h>> = <<"group", Founder, Home[u]>> THEN "admin" ELSE "user"
                                  /\ start = "direct" => role = "user"
        BY <2>6
      <4>2. f[u] = Joining(role, 0)
        BY <2>1, <3>2, <4>1
      <4> QED BY <3>2, <4>1, <4>2, FreshRow
    <3> QED BY <3>1, <3>2
  <2>9. S \in SUBSET ChatMessage /\ \A m \in S : m.seq <= 2
    <3>1. Founder \in Users /\ 1 \in Convs
      BY DEF ConversationsAssumption, Pairs
    <3> QED BY <2>2, <3>1 DEF ChatMessage
  <2>10. PICK row : row = [kind |-> start, pair |-> pair, hub |-> Home[Founder], seq |-> n]
    OBVIOUS
  <2>11. Started(start)[h] = [MemoryCreateConversation(EmptyDB, 1, row, f) EXCEPT !.msgs = S]
    BY <2>5, <2>10
  <2>12. ChatTables([MemoryCreateConversation(EmptyDB, 1, row, f) EXCEPT !.msgs = S], start, pair)
    <3>1. Home[Founder] \in Hosts
      BY DEF ConversationsAssumption, Pairs
    <3>2. row \in Conversation /\ row.kind = start /\ row.pair = pair /\ row.hub = Home[Founder]
      BY <2>10, <3>1 DEF Conversation
    <3> QED BY <2>7, <2>8, <2>9, <3>2, TablesMade
  <2>13. ChatTables(Started(start)[h], start, pair)
    BY <2>11, <2>12
  <2> QED BY <1>2, <2>3, <2>13
<1> QED BY <1>1, <1>2

LEMMA InitIs ==
    ASSUME ConversationsAssumption, Init
    PROVE  InitDoes
<1>1. PICK start \in {"none", "group", "direct"} : db = Started(start) /\ ids = IF start = "none" THEN {} ELSE {1}
  BY DEF Init
<1>2. DOMAIN Started(start) = Hosts /\ Started(start) = [h \in Hosts |-> Started(start)[h]]
  BY DEF Started
<1>3. ASSUME NEW h \in Hosts, db[h] = EmptyDB
      PROVE  /\ db[h] \in Database /\ Records(h) = {} /\ Blobs(h) = {} /\ Msgs(h) = {}
             /\ \A c \in Convs : Row(h, c) = None
             /\ \A c \in Convs, u \in Users : Mem(h, c, u) = None
  BY <1>3, EmptyTables DEF Records, Blobs, Msgs, Row, Mem
<1>4. CASE start = "none"
  <2>1. \A h \in Hosts : db[h] = EmptyDB
    BY <1>1, <1>4 DEF Started
  <2>2. DbTyped
    BY <1>1, <1>2, <1>3, <2>1 DEF DbTyped
  <2>3. Numbered
    BY <1>3, <2>1 DEF Numbered
  <2>4. BeginsEmpty
    BY <1>3, <2>1 DEF BeginsEmpty
  <2> QED BY <1>1, <1>3, <1>4, <2>1, <2>2, <2>3, <2>4 DEF InitDoes
<1>5. CASE start # "none"
  <2>1. PICK pair : pair = IF start = "group" THEN None ELSE Chat
    OBVIOUS
  <2>2. ASSUME NEW h \in Hosts
        PROVE  IF h \in {Home[u] : u \in Chat} THEN ChatTables(db[h], start, pair) ELSE db[h] = EmptyDB
    BY <1>1, <1>5, <2>1, StartedOn
  <2>3. ASSUME NEW h \in Hosts
        PROVE  db[h] \in Database /\ Records(h) = {} /\ Blobs(h) = {} /\ \A m \in Msgs(h) : m.seq <= 2
    <3>1. CASE h \in {Home[u] : u \in Chat}
      BY <2>2, <3>1 DEF ChatTables, Records, Blobs, Msgs
    <3>2. CASE h \notin {Home[u] : u \in Chat}
      BY <1>3, <2>2, <3>2
    <3> QED BY <3>1, <3>2
  <2>4. DbTyped
    BY <1>1, <1>2, <2>3 DEF DbTyped
  <2>5. Numbered
    BY <2>3 DEF Numbered
  <2>6. BeginsChat(start, pair)
    <3>1. ASSUME NEW h \in Hosts, NEW c \in Convs
          PROVE  IF c = 1 /\ h \in {Home[u] : u \in Chat}
                 THEN /\ Row(h, c) # None /\ Row(h, c).kind = start /\ Row(h, c).pair = pair
                      /\ Row(h, c).hub = Home[Founder]
                 ELSE Row(h, c) = None
      <4>1. CASE h \in {Home[u] : u \in Chat}
        BY <2>2, <4>1 DEF ChatTables, Row
      <4>2. CASE h \notin {Home[u] : u \in Chat}
        BY <1>3, <2>2, <4>2
      <4> QED BY <4>1, <4>2
    <3>2. ASSUME NEW h \in Hosts, NEW c \in Convs, NEW u \in Users
          PROVE  IF c = 1 /\ h \in {Home[w] : w \in Chat} /\ u \in Chat
                 THEN Fresh(Mem(h, c, u)) /\ (start = "direct" => Mem(h, c, u).role = "user")
                 ELSE Mem(h, c, u) = None
      <4>1. CASE h \in {Home[w] : w \in Chat}
        BY <2>2, <4>1 DEF ChatTables, Mem
      <4>2. CASE h \notin {Home[w] : w \in Chat}
        BY <1>3, <2>2, <4>2
      <4> QED BY <4>1, <4>2
    <3> QED BY <3>1, <3>2 DEF BeginsChat
  <2>7. start = "group" \/ start = "direct"
    BY <1>5
  <2> QED BY <1>1, <1>5, <2>1, <2>3, <2>4, <2>5, <2>6, <2>7 DEF InitDoes
<1> QED BY <1>4, <1>5

LEMMA InitTypes ==
    ASSUME ConversationsAssumption, Init
    PROVE  CvTypes
<1>1. InitDoes
  BY InitIs
<1>2. /\ backend \in {"mongo", "memory"} /\ req = [p \in Procs |-> Idle] /\ told = {} /\ erased = {}
      /\ reported = [u \in Users |-> [c \in Convs |-> 0]]
  BY DEF Init, ConversationsAssumption
<1>3. Idle \in Requests /\ Idle.pc = "idle"
  BY DEF Idle, Requests, Pcs, Args, Todos
<1>4. ReqTyped /\ \A p \in Procs : req[p].pc = "idle"
  BY <1>2, <1>3 DEF ReqTyped
<1>5. \A p \in Procs : InOrder(req[p])
  BY <1>4 DEF InOrder
<1>6. IdsInOrder
  <2>1. {} = 1 .. 0 /\ {1} = 1 .. 1 /\ 0 \in Nat /\ 1 \in Nat
    OBVIOUS
  <2>2. ids \in {{}, {1}} /\ ids \subseteq Convs
    BY <1>1 DEF InitDoes, ConversationsAssumption
  <2> QED BY <2>1, <2>2 DEF IdsInOrder
<1>7. RowsKnown
  BY <1>1 DEF InitDoes, BeginsEmpty, BeginsChat, RowsKnown
<1>8. reported \in [Users -> [Convs -> Nat]]
  BY <1>2
<1> QED BY <1>1, <1>2, <1>4, <1>5, <1>6, <1>7, <1>8 DEF CvTypes, InitDoes

(***************************************************************************)
(* Ticks                                                                   *)
(***************************************************************************)
Ticked(m, n) == m.read <= m.delivered /\ m.delivered <= n

\* A receipt on its way to another host says no more than was reported either.
TickInv ==
    /\ \A h \in Hosts, c \in Convs, u \in Users : Mem(h, c, u) # None => Ticked(Mem(h, c, u), reported[u][c])
    /\ \A p \in Procs : req[p].pc = "forward" =>
          req[p].arg[2] <= req[p].arg[1] /\ req[p].arg[1] <= reported[req[p].u][req[p].c]

\* Steps that leave the watermarks of every member that stays, and no receipt to forward.
NoNews == \A k \in Hosts, x \in Convs, w \in Users : MemNext(k, x, w) # None =>
    MemNext(k, x, w) = Mem(k, x, w) \/ Fresh(MemNext(k, x, w))
NoForward == \A q \in Procs : req'[q].pc = "forward" => req'[q] = req[q]
NoTicks == NoNews /\ NoForward /\ reported' = reported

LEMMA TickMade ==
    ASSUME \A h \in Hosts, c \in Convs, u \in Users : MemNext(h, c, u) # None => Ticked(MemNext(h, c, u), reported'[u][c]),
           \A p \in Procs : req'[p].pc = "forward" =>
              req'[p].arg[2] <= req'[p].arg[1] /\ req'[p].arg[1] <= reported'[req'[p].u][req'[p].c]
    PROVE  TickInv'
BY DEF TickInv, Ticked, Mem, MemNext

LEMMA FreshIsTicked ==
    ASSUME NEW m, Fresh(m), NEW n \in Nat
    PROVE  Ticked(m, n)
BY DEF Fresh, Ticked

LEMMA NoTicksKeep ==
    ASSUME CvTypes, TickInv, NoTicks
    PROVE  TickInv'
<1>1. reported \in [Users -> [Convs -> Nat]] /\ reported' = reported
  BY DEF CvTypes, NoTicks
<1>2. ASSUME NEW h \in Hosts, NEW c \in Convs, NEW u \in Users, MemNext(h, c, u) # None
      PROVE  Ticked(MemNext(h, c, u), reported'[u][c])
  <2>1. CASE MemNext(h, c, u) = Mem(h, c, u)
    BY <1>1, <1>2, <2>1 DEF TickInv
  <2>2. CASE Fresh(MemNext(h, c, u))
    BY <1>1, <2>2, FreshIsTicked
  <2> QED BY <1>2, <2>1, <2>2 DEF NoTicks, NoNews
<1>3. ASSUME NEW p \in Procs, req'[p].pc = "forward"
      PROVE  req'[p].arg[2] <= req'[p].arg[1] /\ req'[p].arg[1] <= reported'[req'[p].u][req'[p].c]
  BY <1>1, <1>3 DEF NoTicks, NoForward, TickInv
<1> QED BY <1>2, <1>3, TickMade

LEMMA IdleForwardsNothing == Idle.pc = "idle"
BY DEF Idle

LEMMA EndedForwardsNothing ==
    ASSUME NEW p \in Procs, Ended(p)
    PROVE  NoForward
BY IdleForwardsNothing DEF Ended, OthersWait, NoForward

LEMMA OnForwardsNothing ==
    ASSUME NEW p \in Procs, OthersWait(p), req'[p].pc # "forward"
    PROVE  NoForward
BY DEF OthersWait, NoForward

LEMMA MovedForwardsNothing ==
    ASSUME NEW p \in Procs, NEW pc, pc # "forward", Moved(p, pc) \/ Created(p, pc, req'[p].c) \/ MovedWith(p, pc, req'[p].arg)
    PROVE  NoForward
BY OnForwardsNothing DEF Moved, Created, MovedWith

LEMMA AfterCreateForwardsNothing ==
    ASSUME NEW p \in Procs, NEW c, AfterCreateDoes(p, c)
    PROVE  NoForward
BY EndedForwardsNothing, OnForwardsNothing DEF AfterCreateDoes, Created

LEMMA NoMemberNoNews ==
    ASSUME NEW h \in Hosts, NEW c \in Convs, NEW f, MemsSet(h, c, f), \A u \in Users : f[u] = None \/ Fresh(f[u])
    PROVE  NoNews
BY DEF MemsSet, NoNews

LEMMA NewMembersNoNews ==
    ASSUME ConversationsAssumption, NEW r, NEW h \in Hosts, NEW c \in Convs, MemsSet(h, c, NewMembers(r))
    PROVE  NoNews
<1>1. PICK f : f = NewMembers(r)
  OBVIOUS
<1>2. \A u \in Users : f[u] = None \/ Fresh(f[u])
  BY <1>1, NewMembersAre
<1> QED BY <1>1, <1>2, NoMemberNoNews

LEMMA KeptNoNews ==
    ASSUME MemsKept
    PROVE  NoNews
BY DEF MemsKept, NoNews

LEMMA ClearedNoNews ==
    ASSUME NEW h \in Hosts, NEW c \in Convs, MemsSet(h, c, NoMembers)
    PROVE  NoNews
BY NoMemberNoNews DEF NoMembers

LEMMA MirrorNoNews ==
    ASSUME ConversationsAssumption, CvTypes, NEW p \in Procs, req[p].pc = "provision", MirrorDoes(p)
    PROVE  NoNews
<1>1. Home[req[p].v] \in Hosts /\ req[p].c \in Convs
  BY AtWork DEF CvTypes, InOrder, ConversationsAssumption
<1>2. CASE DbKept
  BY <1>2, KeptNoNews DEF DbKept
<1>3. CASE ~DbKept
  <2>1. PICK f : /\ MemsSet(Home[req[p].v], req[p].c, f)
                 /\ \A u \in Users : IF u = req[p].v \/ Mem(req[p].h, req[p].c, u) # None
                                     THEN Fresh(f[u]) /\ f[u].role = "user" ELSE f[u] = None
    BY <1>3 DEF MirrorDoes
  <2>2. \A u \in Users : f[u] = None \/ Fresh(f[u])
    BY <2>1
  <2> QED BY <1>1, <2>1, <2>2, NoMemberNoNews
<1> QED BY <1>2, <1>3

LEMMA BeginsNoTicks ==
    ASSUME NEW p \in Procs, BeginsDoes(p)
    PROVE  NoTicks
<1>1. PICK r : BeginsAny(r) /\ BeginDoes(p, r)
  BY DEF BeginsDoes
<1>2. r.pc # "forward"
  BY <1>1 DEF BeginsAny, BeginsBy, BeginsGroup, BeginsDirect, BeginsAdd, BeginsRemove, BeginsPost, BeginsUpload, BeginsDelete, NewAt
<1> QED BY <1>1, <1>2, KeptNoNews, OnForwardsNothing DEF NoTicks, BeginDoes, DbKept

LEMMA CreateNoTicks ==
    ASSUME ConversationsAssumption, CvTypes, NEW p \in Procs,
           \/ FindDirectDoes(p) \/ InsertConversationDoes(p) \/ InsertMembersDoes(p) \/ InsertMembersFailsDoes(p)
           \/ WinnerDoes(p) \/ ProvisionDoes(p) \/ ProvisionFailsDoes(p)
    PROVE  NoTicks
<1>1. CASE FindDirectDoes(p)
  <2>1. Ended(p) \/ Moved(p, "insert")
    BY <1>1 DEF FindDirectDoes
  <2> QED BY <1>1, <2>1, KeptNoNews, EndedForwardsNothing, MovedForwardsNothing DEF NoTicks, FindDirectDoes, DbKept
<1>2. CASE InsertConversationDoes(p)
  <2>1. req[p].h \in Hosts /\ reported' = reported
    BY <1>2, AtWork DEF InsertConversationDoes
  <2>2. CASE MemsKept /\ Moved(p, "winner")
    BY <2>1, <2>2, KeptNoNews, MovedForwardsNothing DEF NoTicks
  <2>3. CASE \E c \in Convs : MemsKept /\ Created(p, "members", c)
    BY <2>1, <2>3, KeptNoNews, OnForwardsNothing DEF NoTicks, Created
  <2>4. CASE \E c \in Convs : MemsSet(req[p].h, c, NewMembers(req[p])) /\ AfterCreateDoes(p, c)
    BY <2>1, <2>4, NewMembersNoNews, AfterCreateForwardsNothing DEF NoTicks
  <2> QED BY <1>2, <2>2, <2>3, <2>4 DEF InsertConversationDoes
<1>3. CASE InsertMembersDoes(p)
  <2>1. req[p].h \in Hosts /\ req[p].c \in Convs
    BY <1>3, AtWork DEF InsertMembersDoes
  <2> QED BY <1>3, <2>1, NewMembersNoNews, AfterCreateForwardsNothing DEF NoTicks, InsertMembersDoes
<1>4. CASE InsertMembersFailsDoes(p)
  <2>1. Ended(p) \/ Moved(p, "winner")
    BY <1>4 DEF InsertMembersFailsDoes
  <2> QED BY <1>4, <2>1, KeptNoNews, EndedForwardsNothing, MovedForwardsNothing DEF NoTicks, InsertMembersFailsDoes, DbKept
<1>5. CASE WinnerDoes(p)
  BY <1>5, KeptNoNews, EndedForwardsNothing DEF NoTicks, WinnerDoes, DbKept
<1>6. CASE ProvisionDoes(p)
  <2>1. Ended(p) \/ Moved(p, "number")
    BY <1>6 DEF ProvisionDoes
  <2>2. NoForward
    BY <2>1, EndedForwardsNothing, MovedForwardsNothing
  <2> QED BY <1>6, <2>2, MirrorNoNews DEF NoTicks, ProvisionDoes
<1>7. CASE ProvisionFailsDoes(p)
  <2>1. NoForward
    BY <1>7, EndedForwardsNothing, OnForwardsNothing DEF ProvisionFailsDoes, Undone
  <2>2. NoNews
    BY <1>7, KeptNoNews, MirrorNoNews DEF ProvisionFailsDoes, DbKept
  <2> QED BY <1>7, <2>1, <2>2 DEF NoTicks, ProvisionFailsDoes
<1> QED BY <1>1, <1>2, <1>3, <1>4, <1>5, <1>6, <1>7

LEMMA PlainNoTicks ==
    ASSUME ConversationsAssumption, CvTypes, NEW p \in Procs,
           \/ RemoveMemberDoes(p) \/ TakeNumberDoes(p) \/ StoreMessageDoes(p)
           \/ PutBlobDoes(p) \/ RecordAttachmentDoes(p) \/ RecordFailsDoes(p) \/ UnputBlobDoes(p)
           \/ DeleteBlobsDoes(p) \/ DeleteRecordsDoes(p) \/ DeleteStepDoes(p) \/ DeleteMirrorDoes(p)
           \/ CallFailsDoes(p)
    PROVE  NoTicks
<1>1. CASE RemoveMemberDoes(p)
  <2>1. Ended(p) \/ Moved(p, "number")
    BY <1>1 DEF RemoveMemberDoes
  <2>2. NoForward
    BY <2>1, EndedForwardsNothing, MovedForwardsNothing
  <2>3. MemsKept \/ MemSet(req[p].h, req[p].c, req[p].v, None)
    BY <1>1 DEF RemoveMemberDoes
  <2>4. NoNews
    BY <2>3 DEF MemsKept, MemSet, NoNews
  <2> QED BY <1>1, <2>2, <2>4 DEF NoTicks, RemoveMemberDoes
<1>2. CASE TakeNumberDoes(p)
  <2>1. NoForward
    BY <1>2, EndedForwardsNothing, OnForwardsNothing DEF TakeNumberDoes, MovedWith
  <2> QED BY <1>2, <2>1, KeptNoNews DEF NoTicks, TakeNumberDoes
<1>3. CASE StoreMessageDoes(p)
  BY <1>3, KeptNoNews, EndedForwardsNothing DEF NoTicks, StoreMessageDoes
<1>4. CASE PutBlobDoes(p)
  BY <1>4, KeptNoNews, MovedForwardsNothing DEF NoTicks, PutBlobDoes
<1>5. CASE RecordAttachmentDoes(p)
  BY <1>5, KeptNoNews, EndedForwardsNothing DEF NoTicks, RecordAttachmentDoes
<1>6. CASE RecordFailsDoes(p)
  BY <1>6, KeptNoNews, MovedForwardsNothing DEF NoTicks, RecordFailsDoes, DbKept
<1>7. CASE UnputBlobDoes(p)
  BY <1>7, KeptNoNews, EndedForwardsNothing DEF NoTicks, UnputBlobDoes
<1>8. CASE DeleteBlobsDoes(p)
  BY <1>8, KeptNoNews, MovedForwardsNothing DEF NoTicks, DeleteBlobsDoes
<1>9. CASE DeleteRecordsDoes(p)
  BY <1>9, KeptNoNews, OnForwardsNothing DEF NoTicks, DeleteRecordsDoes, MovedWith
<1>10. CASE DeleteStepDoes(p)
  <2>1. req[p].h \in Hosts /\ req[p].c \in Convs
    BY <1>10, AtWork DEF DeleteStepDoes
  <2>2. MemsKept \/ MemsSet(req[p].h, req[p].c, NoMembers)
    BY <1>10 DEF DeleteStepDoes
  <2>3. (\E arg : MovedWith(p, "delete", arg)) \/ Ended(p) \/ Moved(p, "propagate")
    BY <1>10 DEF DeleteStepDoes, DeletedLast
  <2>4. NoForward
    BY <2>3, EndedForwardsNothing, OnForwardsNothing DEF MovedWith, Moved
  <2> QED BY <1>10, <2>1, <2>2, <2>4, KeptNoNews, ClearedNoNews DEF NoTicks, DeleteStepDoes
<1>11. CASE DeleteMirrorDoes(p)
  <2>1. req[p].c \in Convs
    BY <1>11, AtWork DEF DeleteMirrorDoes
  <2>2. \A k \in Hosts : HostKept(k) \/ HostCleared(k, req[p].c)
    BY <1>11 DEF DeleteMirrorDoes
  <2>3. NoNews
    BY <2>1, <2>2 DEF HostKept, HostCleared, NoNews
  <2> QED BY <1>11, <2>3, EndedForwardsNothing DEF NoTicks, DeleteMirrorDoes
<1>12. CASE CallFailsDoes(p)
  BY <1>12, KeptNoNews, EndedForwardsNothing DEF NoTicks, CallFailsDoes, DbKept
<1> QED BY <1>1, <1>2, <1>3, <1>4, <1>5, <1>6, <1>7, <1>8, <1>9, <1>10, <1>11, <1>12

LEMMA TicksMove ==
    ASSUME CvTypes, TickInv, NEW h \in Hosts, NEW c \in Convs, NEW u \in Users, NEW m, MemSet(h, c, u, m),
           reported' \in [Users -> [Convs -> Nat]], Ticked(m, reported'[u][c]),
           \A w \in Users, x \in Convs : reported[w][x] <= reported'[w][x]
    PROVE  \A k \in Hosts, x \in Convs, w \in Users :
              MemNext(k, x, w) # None => Ticked(MemNext(k, x, w), reported'[w][x])
<1> SUFFICES ASSUME NEW k \in Hosts, NEW x \in Convs, NEW w \in Users, MemNext(k, x, w) # None
             PROVE  Ticked(MemNext(k, x, w), reported'[w][x])
  OBVIOUS
<1>1. CASE k = h /\ x = c /\ w = u
  BY <1>1 DEF MemSet
<1>2. CASE ~(k = h /\ x = c /\ w = u)
  <2>1. MemNext(k, x, w) = Mem(k, x, w)
    BY <1>2 DEF MemSet
  <2>2. Ticked(Mem(k, x, w), reported[w][x])
    BY <2>1 DEF TickInv
  <2>3. Mem(k, x, w) \in ConversationMember
    BY <2>1, TableTypes DEF CvTypes
  <2>4. reported[w][x] \in Nat /\ reported'[w][x] \in Nat /\ reported[w][x] <= reported'[w][x]
    BY DEF CvTypes
  <2> QED BY <2>1, <2>2, <2>3, <2>4 DEF Ticked, ConversationMember
<1> QED BY <1>1, <1>2

\* Receipts on their way stay true as more is reported.
LEMMA ForwardsStay ==
    ASSUME CvTypes, TickInv, reported' \in [Users -> [Convs -> Nat]],
           \A w \in Users, x \in Convs : reported[w][x] <= reported'[w][x],
           NEW q \in Procs, req'[q] = req[q], req'[q].pc = "forward"
    PROVE  req'[q].arg[2] <= req'[q].arg[1] /\ req'[q].arg[1] <= reported'[req'[q].u][req'[q].c]
<1>1. req[q].u \in Users /\ req[q].c \in Convs
  BY AtWork
<1>2. req[q].arg[1] \in Nat /\ req[q].arg[2] \in Nat
  BY DEF CvTypes, InOrder
<1>3. PICK a, b : a = reported[req[q].u][req[q].c] /\ b = reported'[req[q].u][req[q].c] /\ a \in Nat /\ b \in Nat /\ a <= b
  BY <1>1 DEF CvTypes
<1>4. req[q].arg[2] <= req[q].arg[1] /\ req[q].arg[1] <= a
  BY <1>3 DEF TickInv
<1> QED BY <1>2, <1>3, <1>4

LEMMA SetMemberRoleTicks ==
    ASSUME ConversationsAssumption, CvTypes, TickInv, NEW c \in ids, NEW u \in Users, NEW v \in Users, SetMemberRoleDoes(u, v, c)
    PROVE  TickInv'
<1>1. Home[u] \in Hosts /\ c \in Convs /\ req' = req /\ reported' = reported /\ reported \in [Users -> [Convs -> Nat]]
  BY DEF ConversationsAssumption, SetMemberRoleDoes, CvTypes, IdsInOrder
<1>2. PICK m \in ConversationMember :
         /\ m.delivered = Mem(Home[u], c, v).delivered /\ m.read = Mem(Home[u], c, v).read
         /\ MemSet(Home[u], c, v, m) /\ Mem(Home[u], c, v) # None
  BY DEF SetMemberRoleDoes
<1>3. Ticked(m, reported'[v][c])
  BY <1>1, <1>2 DEF TickInv, Ticked
<1>4. \A w \in Users, x \in Convs : reported[w][x] <= reported'[w][x]
  BY <1>1
<1>5. \A k \in Hosts, x \in Convs, w \in Users :
         MemNext(k, x, w) # None => Ticked(MemNext(k, x, w), reported'[w][x])
  BY <1>1, <1>2, <1>3, <1>4, TicksMove
<1>6. ASSUME NEW q \in Procs, req'[q].pc = "forward"
      PROVE  req'[q].arg[2] <= req'[q].arg[1] /\ req'[q].arg[1] <= reported'[req'[q].u][req'[q].c]
  BY <1>1, <1>6 DEF TickInv
<1> QED BY <1>5, <1>6, TickMade

LEMMA JoinTicks ==
    ASSUME CvTypes, TickInv, NEW h \in Hosts, NEW c \in Convs, NEW v \in Users, NEW n \in Nat,
           JoinDoes(h, c, v, n), Reached(v, c, n), NoForward
    PROVE  TickInv'
<1>1. /\ reported' \in [Users -> [Convs -> Nat]] /\ n <= reported'[v][c]
      /\ \A w \in Users, x \in Convs : reported[w][x] <= reported'[w][x]
  BY DEF Reached
<1>2. PICK m : MemSet(h, c, v, m) /\ Ticked(m, reported'[v][c])
  <2>1. CASE Mem(h, c, v) # None /\ MemsKept
    <3>1. MemSet(h, c, v, Mem(h, c, v))
      BY <2>1 DEF MemsKept, MemSet
    <3>2. Ticked(Mem(h, c, v), reported[v][c]) /\ Mem(h, c, v) \in ConversationMember
      BY <2>1, TableTypes DEF TickInv, CvTypes
    <3>3. reported[v][c] \in Nat /\ reported'[v][c] \in Nat /\ reported[v][c] <= reported'[v][c]
      BY <1>1 DEF CvTypes
    <3>4. Ticked(Mem(h, c, v), reported'[v][c])
      BY <3>2, <3>3 DEF Ticked, ConversationMember
    <3> QED BY <3>1, <3>4
  <2>2. CASE \E m \in ConversationMember : m.delivered = n /\ m.read = n /\ MemSet(h, c, v, m)
    BY <1>1, <2>2 DEF Ticked
  <2> QED BY <2>1, <2>2 DEF JoinDoes
<1>3. \A k \in Hosts, x \in Convs, w \in Users :
         MemNext(k, x, w) # None => Ticked(MemNext(k, x, w), reported'[w][x])
  BY <1>1, <1>2, TicksMove
<1>4. ASSUME NEW q \in Procs, req'[q].pc = "forward"
      PROVE  req'[q].arg[2] <= req'[q].arg[1] /\ req'[q].arg[1] <= reported'[req'[q].u][req'[q].c]
  <2>1. req'[q] = req[q]
    BY <1>4 DEF NoForward
  <2> QED BY <1>1, <1>4, <2>1, ForwardsStay
<1> QED BY <1>3, <1>4, TickMade

LEMMA JoinSeqTicks ==
    ASSUME ConversationsAssumption, CvTypes, TickInv, NEW p \in Procs, JoinSeqDoes(p)
    PROVE  TickInv'
<1>1. /\ req[p].h \in Hosts /\ req[p].c \in Convs /\ req[p].v \in Users /\ AfterAdd(p) # "forward"
  BY AddAtWork DEF JoinSeqDoes
<1>2. NoForward
  BY <1>1, OnForwardsNothing DEF JoinSeqDoes, Moved, MovedWith
<1>3. CASE DbKept /\ reported' = reported
  BY <1>2, <1>3, KeptNoNews, NoTicksKeep DEF NoTicks, DbKept
<1>4. CASE \E n \in Nat : JoinDoes(req[p].h, req[p].c, req[p].v, n) /\ Reached(req[p].v, req[p].c, n)
  BY <1>1, <1>2, <1>4, JoinTicks
<1> QED BY <1>3, <1>4 DEF JoinSeqDoes

LEMMA InsertMemberTicks ==
    ASSUME ConversationsAssumption, CvTypes, TickInv, NEW p \in Procs, InsertMemberDoes(p)
    PROVE  TickInv'
<1>1. /\ req[p].h \in Hosts /\ req[p].c \in Convs /\ req[p].v \in Users /\ AfterAdd(p) # "forward"
      /\ req[p].arg \in Nat
  BY AddAtWork DEF InsertMemberDoes
<1>2. NoForward
  BY <1>1, OnForwardsNothing DEF InsertMemberDoes, Moved
<1> QED BY <1>1, <1>2, JoinTicks DEF InsertMemberDoes

LEMMA ReceiptTicked ==
    ASSUME CvTypes, TickInv, NEW h \in Hosts, NEW c \in Convs, NEW u \in Users, Mem(h, c, u) # None,
           NEW delivered \in Nat, NEW read \in Nat, ReceiptDoes(h, c, u, delivered, read),
           read <= delivered, delivered <= reported'[u][c],
           reported' \in [Users -> [Convs -> Nat]], reported[u][c] <= reported'[u][c]
    PROVE  \E m \in ConversationMember : m # None /\ MemSet(h, c, u, m) /\ Ticked(m, reported'[u][c])
<1>1. PICK m \in ConversationMember :
          /\ m # None /\ MemSet(h, c, u, m)
          /\ m.delivered = Later(Mem(h, c, u).delivered, delivered)
          /\ m.read = Later(Mem(h, c, u).read, read)
  BY DEF ReceiptDoes
<1>2. Ticked(Mem(h, c, u), reported[u][c]) /\ Mem(h, c, u) \in ConversationMember
  BY TableTypes DEF TickInv, CvTypes
<1>3. PICK a \in Nat, b \in Nat, i \in Nat, j \in Nat :
         /\ a = Mem(h, c, u).delivered /\ b = Mem(h, c, u).read
         /\ i = reported[u][c] /\ j = reported'[u][c] /\ i <= j /\ delivered <= j
  BY <1>2 DEF CvTypes, ConversationMember
<1>4. b <= a /\ a <= i
  BY <1>2, <1>3 DEF Ticked
<1>5. m.delivered = (IF a > delivered THEN a ELSE delivered) /\ m.read = (IF b > read THEN b ELSE read)
  BY <1>1, <1>3 DEF Later
<1>6. m.read <= m.delivered /\ m.delivered <= j
  BY <1>3, <1>4, <1>5
<1> QED BY <1>1, <1>3, <1>6 DEF Ticked

LEMMA ReportTicks ==
    ASSUME ConversationsAssumption, CvTypes, TickInv, NEW p \in Procs, NEW c \in ids, NEW u \in Users,
           NEW delivered \in Nat, NEW read \in Nat, ReportDoes(p, u, c, delivered, read)
    PROVE  TickInv'
<1>1. /\ Home[u] \in Hosts /\ c \in Convs /\ Mem(Home[u], c, u) # None
      /\ Later(delivered, read) \in Nat /\ read <= Later(delivered, read)
  BY DEF ConversationsAssumption, ReportDoes, CvTypes, IdsInOrder, Later
<1>2. /\ reported' \in [Users -> [Convs -> Nat]] /\ Later(delivered, read) <= reported'[u][c]
      /\ \A w \in Users, x \in Convs : reported[w][x] <= reported'[w][x]
  BY DEF ReportDoes, Reached
<1>3. PICK m \in ConversationMember : m # None /\ MemSet(Home[u], c, u, m) /\ Ticked(m, reported'[u][c])
  BY <1>1, <1>2, ReceiptTicked DEF ReportDoes
<1>4. \A k \in Hosts, x \in Convs, w \in Users :
         MemNext(k, x, w) # None => Ticked(MemNext(k, x, w), reported'[w][x])
  BY <1>1, <1>2, <1>3, TicksMove
<1>5. MemNext(Home[u], c, u) = m
  BY <1>3 DEF MemSet
<1>6. PICK r : r = NewRequest("forward", "receipt", u, None, c, <<m.delivered, m.read>>)
  OBVIOUS
<1>7. req'[p] = r
  BY <1>5, <1>6 DEF ReportDoes
<1>8. r.u = u /\ r.c = c /\ r.arg = <<m.delivered, m.read>>
  BY <1>6 DEF NewRequest
<1>9. r.arg[2] <= r.arg[1] /\ r.arg[1] <= reported'[r.u][r.c]
  BY <1>3, <1>8 DEF Ticked
<1>10. ASSUME NEW q \in Procs, req'[q].pc = "forward"
       PROVE  req'[q].arg[2] <= req'[q].arg[1] /\ req'[q].arg[1] <= reported'[req'[q].u][req'[q].c]
  <2>1. CASE q = p
    BY <1>7, <1>9, <2>1
  <2>2. CASE q # p
    <3>1. req'[q] = req[q]
      BY <2>2 DEF ReportDoes, OthersWait
    <3> QED BY <1>2, <1>10, <3>1, ForwardsStay
  <2> QED BY <2>1, <2>2
<1> QED BY <1>4, <1>10, TickMade

LEMMA ForwardReceiptTicks ==
    ASSUME ConversationsAssumption, CvTypes, TickInv, NEW p \in Procs, ForwardReceiptDoes(p)
    PROVE  TickInv'
<1>1. /\ req[p].u \in Users /\ req[p].c \in Convs /\ req[p].arg \in Nat \X Nat /\ req[p].pc = "forward"
      /\ reported \in [Users -> [Convs -> Nat]] /\ reported' = reported
  BY AtWork DEF ForwardReceiptDoes, CvTypes, InOrder
<1>2. NoForward
  BY EndedForwardsNothing DEF ForwardReceiptDoes
<1>3. CASE MemsKept
  BY <1>1, <1>2, <1>3, KeptNoNews, NoTicksKeep DEF NoTicks
<1>4. CASE \E h \in Hosts : /\ Mem(h, req[p].c, req[p].u) # None
                            /\ ReceiptDoes(h, req[p].c, req[p].u, req[p].arg[1], req[p].arg[2])
  <2>1. PICK h \in Hosts : /\ Mem(h, req[p].c, req[p].u) # None
                           /\ ReceiptDoes(h, req[p].c, req[p].u, req[p].arg[1], req[p].arg[2])
    BY <1>4
  <2>2. PICK c \in Convs, u \in Users, i \in Nat, j \in Nat :
           c = req[p].c /\ u = req[p].u /\ i = req[p].arg[1] /\ j = req[p].arg[2]
    BY <1>1
  <2>3. j <= i /\ i <= reported[u][c]
    BY <1>1, <2>2 DEF TickInv
  <2>4. Mem(h, c, u) # None /\ ReceiptDoes(h, c, u, i, j)
    BY <2>1, <2>2
  <2>5. i <= reported'[u][c] /\ reported[u][c] <= reported'[u][c]
    <3>1. reported[u][c] \in Nat /\ reported'[u][c] = reported[u][c]
      BY <1>1
    <3> QED BY <2>3, <3>1
  <2>6. PICK m \in ConversationMember : m # None /\ MemSet(h, c, u, m) /\ Ticked(m, reported'[u][c])
    BY <1>1, <2>3, <2>4, <2>5, ReceiptTicked
  <2>7. \A w \in Users, x \in Convs : reported[w][x] <= reported'[w][x]
    BY <1>1
  <2>8. \A k \in Hosts, x \in Convs, w \in Users :
           MemNext(k, x, w) # None => Ticked(MemNext(k, x, w), reported'[w][x])
    BY <1>1, <2>6, <2>7, TicksMove
  <2>9. ASSUME NEW q \in Procs, req'[q].pc = "forward"
        PROVE  req'[q].arg[2] <= req'[q].arg[1] /\ req'[q].arg[1] <= reported'[req'[q].u][req'[q].c]
    <3>1. req'[q] = req[q]
      BY <1>2, <2>9 DEF NoForward
    <3> QED BY <1>1, <2>7, <2>9, <3>1, ForwardsStay
  <2> QED BY <2>8, <2>9, TickMade
<1> QED BY <1>3, <1>4 DEF ForwardReceiptDoes

LEMMA TicksKept ==
    ASSUME ConversationsAssumption, CvTypes, TickInv, Effect
    PROVE  TickInv'
<1>1. CASE \E c \in ids, u, v \in Users : SetMemberRoleDoes(u, v, c)
  BY <1>1, SetMemberRoleTicks
<1>2. CASE \E p \in Procs : BeginsDoes(p)
  BY <1>2, BeginsNoTicks, NoTicksKeep
<1>3. CASE \E p \in Procs, c \in ids, u \in Users, delivered, read \in Nat : ReportDoes(p, u, c, delivered, read)
  BY <1>3, ReportTicks
<1>4. CASE \E p \in Procs :
             \/ FindDirectDoes(p) \/ InsertConversationDoes(p) \/ InsertMembersDoes(p) \/ InsertMembersFailsDoes(p)
             \/ WinnerDoes(p) \/ ProvisionDoes(p) \/ ProvisionFailsDoes(p)
  BY <1>4, CreateNoTicks, NoTicksKeep
<1>5. CASE \E p \in Procs :
             \/ RemoveMemberDoes(p) \/ TakeNumberDoes(p) \/ StoreMessageDoes(p)
             \/ PutBlobDoes(p) \/ RecordAttachmentDoes(p) \/ RecordFailsDoes(p) \/ UnputBlobDoes(p)
             \/ DeleteBlobsDoes(p) \/ DeleteRecordsDoes(p) \/ DeleteStepDoes(p) \/ DeleteMirrorDoes(p)
             \/ CallFailsDoes(p)
  BY <1>5, PlainNoTicks, NoTicksKeep
<1>6. CASE \E p \in Procs : JoinSeqDoes(p) \/ InsertMemberDoes(p) \/ ForwardReceiptDoes(p)
  BY <1>6, JoinSeqTicks, InsertMemberTicks, ForwardReceiptTicks
<1> QED BY <1>1, <1>2, <1>3, <1>4, <1>5, <1>6 DEF Effect

LEMMA InitTicks ==
    ASSUME ConversationsAssumption, Init
    PROVE  TickInv
<1>1. InitDoes
  BY InitIs
<1>2. ASSUME NEW h \in Hosts, NEW c \in Convs, NEW u \in Users, Mem(h, c, u) # None
      PROVE  Ticked(Mem(h, c, u), reported[u][c])
  <2>1. Fresh(Mem(h, c, u))
    BY <1>1, <1>2 DEF InitDoes, BeginsEmpty, BeginsChat
  <2>2. reported[u][c] = 0
    BY DEF Init
  <2> QED BY <2>1, <2>2, FreshIsTicked
<1>3. \A p \in Procs : req[p].pc # "forward"
  BY IdleForwardsNothing DEF Init
<1> QED BY <1>2, <1>3 DEF TickInv

LEMMA StutterTypes ==
    ASSUME CvTypes, UNCHANGED vars
    PROVE  CvTypes'
BY DEF CvTypes, vars, ghosts, DbTyped, ReqTyped, Numbered, Msgs, InOrder, Mongo, IdsInOrder, RowsKnown, Row

LEMMA CvTypesStep ==
    ASSUME ConversationsAssumption, CvTypes, [Next]_vars
    PROVE  CvTypes'
BY NextDoes, TypesKept, StutterTypes

\* What the model's variables range over: the tables of every host, the requests in
\* flight with what each carries at the call it is at, and ids given out in order
\* (chat.go, messages.go, attachments.go, store.go).
THEOREM ConversationsTyped == Spec => []CvTypes
<1>1. Init => CvTypes
  BY ConversationsAssumption, InitTypes
<1>2. CvTypes /\ [Next]_vars => CvTypes'
  BY ConversationsAssumption, CvTypesStep
<1> QED BY <1>1, <1>2, PTL DEF Spec

\* A member's ticks never say more than the member reported or joined at, and nothing is
\* read that was not delivered, on the member's own host and on every host a receipt is
\* relayed to (reportReceipt, SetConversationReceipt, SubmitReceipt, DeliverReceipt).
THEOREM TicksSayWhatWasReported == Spec => []TicksAreTrue
<1>1. Init => CvTypes /\ TickInv
  BY ConversationsAssumption, InitTypes, InitTicks
<1>2. CvTypes /\ TickInv /\ [Next]_vars => (CvTypes /\ TickInv)'
  <2>1. CvTypes /\ TickInv /\ Next => (CvTypes /\ TickInv)'
    BY ConversationsAssumption, NextDoes, TypesKept, TicksKept
  <2>2. CvTypes /\ TickInv /\ UNCHANGED vars => TickInv'
    BY DEF TickInv, Ticked, Mem, vars, ghosts
  <2> QED BY <2>1, <2>2, StutterTypes
<1>3. TickInv => TicksAreTrue
  BY DEF TickInv, Ticked, TicksAreTrue, Mem
<1> QED BY <1>1, <1>2, <1>3, PTL DEF Spec

(***************************************************************************)
(* Deleting                                                                *)
(***************************************************************************)
NoMessages(h, c) == <<h, c, "message">> \in late \/ \A m \in Msgs(h) : m.conv # c
NoMemberRows(h, c) == <<h, c, "member">> \in late \/ \A u \in Users : Mem(h, c, u) = None
NoBlob(h, c) == <<h, c, "photo">> \in late \/ <<h, c, "landfill">> \in late \/ c \notin Blobs(h)
NoRecord(h, c) == <<h, c, "photo">> \in late \/ <<h, c, "landfill">> \in late \/ c \notin Records(h)
\* ... and after the step.
NoMessagesNext(h, c) == <<h, c, "message">> \in late' \/ \A m \in MsgsNext(h) : m.conv # c
NoMemberRowsNext(h, c) == <<h, c, "member">> \in late' \/ \A u \in Users : MemNext(h, c, u) = None
NoBlobNext(h, c) == <<h, c, "photo">> \in late' \/ <<h, c, "landfill">> \in late' \/ c \notin BlobsNext(h)
NoRecordNext(h, c) == <<h, c, "photo">> \in late' \/ <<h, c, "landfill">> \in late' \/ c \notin RecordsNext(h)

\* A photo without a record is on its way to one, or off, or is late.
BlobInv ==
    \A h \in Hosts, c \in Convs : c \in Blobs(h) =>
        \/ c \in Records(h) \/ <<h, c, "photo">> \in late \/ <<h, c, "landfill">> \in late
        \/ \E p \in Procs : req[p].pc \in {"record", "unput"} /\ req[p].h = h /\ req[p].c = c

\* How far a delete has come.
Emptied(r) ==
    /\ r.pc \in {"records", "delete"} => NoBlob(r.h, r.c)
    /\ r.pc = "delete" => NoRecord(r.h, r.c)
    /\ r.pc = "delete" /\ r.todo \in {Todo1, Todo2} => NoMessages(r.h, r.c)
    /\ r.pc = "delete" /\ r.todo = Todo1 => NoMemberRows(r.h, r.c)
EmptiedNext(r) ==
    /\ r.pc \in {"records", "delete"} => NoBlobNext(r.h, r.c)
    /\ r.pc = "delete" => NoRecordNext(r.h, r.c)
    /\ r.pc = "delete" /\ r.todo \in {Todo1, Todo2} => NoMessagesNext(r.h, r.c)
    /\ r.pc = "delete" /\ r.todo = Todo1 => NoMemberRowsNext(r.h, r.c)

EraseInv ==
    /\ BlobInv
    /\ \A p \in Procs : req[p].pc # "idle" /\ req[p].op = "delete" => Emptied(req[p])
    /\ \A h \in Hosts, c \in Convs : <<h, c>> \in erased =>
          NoMessages(h, c) /\ NoMemberRows(h, c) /\ NoBlob(h, c) /\ NoRecord(h, c)

\* A conversation that is being deleted on the host, or was.
Guarded(h, c) ==
    \/ \E p \in Procs : req[p].pc # "idle" /\ req[p].op = "delete" /\ req[p].h = h /\ req[p].c = c
    \/ <<h, c>> \in erased

\* What a step may not do to it.
MsgsSafe == \A h \in Hosts, c \in Convs : Guarded(h, c) /\ NoMessages(h, c) => NoMessagesNext(h, c)
MemsSafe == \A h \in Hosts, c \in Convs : Guarded(h, c) /\ NoMemberRows(h, c) => NoMemberRowsNext(h, c)
BlobsSafe == \A h \in Hosts, c \in Convs : Guarded(h, c) /\ NoBlob(h, c) => NoBlobNext(h, c)
RecordsSafe == \A h \in Hosts, c \in Convs : Guarded(h, c) /\ NoRecord(h, c) => NoRecordNext(h, c)
PhotosSafe == BlobsSafe /\ RecordsSafe

BlobInvNext ==
    \A h \in Hosts, c \in Convs : c \in BlobsNext(h) =>
        \/ c \in RecordsNext(h) \/ <<h, c, "photo">> \in late' \/ <<h, c, "landfill">> \in late'
        \/ \E p \in Procs : req'[p].pc \in {"record", "unput"} /\ req'[p].h = h /\ req'[p].c = c

LEMMA EraseMade ==
    ASSUME BlobInvNext,
           \A p \in Procs : req'[p].pc # "idle" /\ req'[p].op = "delete" => EmptiedNext(req'[p]),
           \A h \in Hosts, c \in Convs : <<h, c>> \in erased' =>
              NoMessagesNext(h, c) /\ NoMemberRowsNext(h, c) /\ NoBlobNext(h, c) /\ NoRecordNext(h, c)
    PROVE  EraseInv'
<1>1. BlobInv'
  BY DEF BlobInv, BlobInvNext, Blobs, Records, BlobsNext, RecordsNext
<1>2. \A p \in Procs : (req[p].pc # "idle" /\ req[p].op = "delete" => Emptied(req[p]))'
  BY DEF Emptied, EmptiedNext, NoBlob, NoRecord, NoMessages, NoMemberRows, NoBlobNext, NoRecordNext, NoMessagesNext,
         NoMemberRowsNext, Blobs, Records, Msgs, Mem, BlobsNext, RecordsNext, MsgsNext, MemNext
<1>3. \A h \in Hosts, c \in Convs : (<<h, c>> \in erased =>
          NoMessages(h, c) /\ NoMemberRows(h, c) /\ NoBlob(h, c) /\ NoRecord(h, c))'
  BY DEF NoBlob, NoRecord, NoMessages, NoMemberRows, NoBlobNext, NoRecordNext, NoMessagesNext,
         NoMemberRowsNext, Blobs, Records, Msgs, Mem, BlobsNext, RecordsNext, MsgsNext, MemNext
<1> QED BY <1>1, <1>2, <1>3 DEF EraseInv

LEMMA MsgsKeptSafe ==
    ASSUME late \subseteq late', \A k \in Hosts : MsgsNext(k) \subseteq Msgs(k)
    PROVE  MsgsSafe
BY DEF MsgsSafe, NoMessages, NoMessagesNext

LEMMA MemsLessSafe ==
    ASSUME late \subseteq late',
           \A k \in Hosts, x \in Convs, w \in Users : MemNext(k, x, w) = Mem(k, x, w) \/ MemNext(k, x, w) = None
    PROVE  MemsSafe
BY DEF MemsSafe, NoMemberRows, NoMemberRowsNext

LEMMA MemsKeptSafe ==
    ASSUME late \subseteq late', MemsKept
    PROVE  MemsSafe
BY MemsLessSafe DEF MemsKept

LEMMA PhotosLessSafe ==
    ASSUME late \subseteq late', \A k \in Hosts : BlobsNext(k) \subseteq Blobs(k) /\ RecordsNext(k) \subseteq Records(k)
    PROVE  PhotosSafe
BY DEF PhotosSafe, BlobsSafe, RecordsSafe, NoBlob, NoRecord, NoBlobNext, NoRecordNext

LEMMA PhotosKeptSafe ==
    ASSUME late \subseteq late', PhotosKept
    PROVE  PhotosSafe
BY PhotosLessSafe DEF PhotosKept, BlobsKept, RecordsKept

LEMMA DbKeptSafe ==
    ASSUME late \subseteq late', DbKept
    PROVE  MsgsSafe /\ MemsSafe /\ PhotosSafe
<1>1. \A k \in Hosts : MsgsNext(k) \subseteq Msgs(k)
  BY DEF DbKept, MsgsKept
<1> QED BY <1>1, MsgsKeptSafe, MemsKeptSafe, PhotosKeptSafe DEF DbKept

\* What is added to a conversation being deleted is late.
LEMMA GuardedMarks ==
    ASSUME NEW h, NEW c, NEW kind, Marked(h, c, kind)
    PROVE  late \subseteq late' /\ (Guarded(h, c) => <<h, c, kind>> \in late')
BY DEF Marked, Guarded

LEMMA MemsMarkedSafe ==
    ASSUME NEW h \in Hosts, NEW c \in Convs, Marked(h, c, "member"),
           \A k \in Hosts, x \in Convs, w \in Users : k # h \/ x # c => MemNext(k, x, w) = Mem(k, x, w)
    PROVE  MemsSafe
<1>1. late \subseteq late' /\ (Guarded(h, c) => <<h, c, "member">> \in late')
  BY GuardedMarks
<1> SUFFICES ASSUME NEW k \in Hosts, NEW x \in Convs, Guarded(k, x), NoMemberRows(k, x)
             PROVE  NoMemberRowsNext(k, x)
  BY DEF MemsSafe
<1>2. CASE k = h /\ x = c
  BY <1>1, <1>2 DEF NoMemberRowsNext
<1>3. CASE k # h \/ x # c
  BY <1>1, <1>3 DEF NoMemberRows, NoMemberRowsNext
<1> QED BY <1>2, <1>3

LEMMA MsgsMarkedSafe ==
    ASSUME NEW h \in Hosts, NEW c \in Convs, Marked(h, c, "message"), MsgAdded(h, c)
    PROVE  MsgsSafe
<1>1. late \subseteq late' /\ (Guarded(h, c) => <<h, c, "message">> \in late')
  BY GuardedMarks
<1>2. PICK m \in ChatMessage : m.conv = c /\ MsgsSet(h, Msgs(h) \cup {m})
  BY DEF MsgAdded
<1> SUFFICES ASSUME NEW k \in Hosts, NEW x \in Convs, Guarded(k, x), NoMessages(k, x)
             PROVE  NoMessagesNext(k, x)
  BY DEF MsgsSafe
<1>3. CASE k = h /\ x = c
  BY <1>1, <1>3 DEF NoMessagesNext
<1>4. CASE k # h \/ x # c
  <2>1. \A n \in MsgsNext(k) : n \in Msgs(k) \/ (k = h /\ n = m)
    BY <1>2 DEF MsgsSet
  <2> QED BY <1>1, <1>2, <1>4, <2>1 DEF NoMessages, NoMessagesNext
<1> QED BY <1>3, <1>4

LEMMA BlobsMarkedSafe ==
    ASSUME NEW h \in Hosts, NEW c \in Convs, Marked(h, c, "photo"), BlobsSet(h, Blobs(h) \cup {c}), RecordsKept
    PROVE  PhotosSafe
<1>1. late \subseteq late' /\ (Guarded(h, c) => <<h, c, "photo">> \in late')
  BY GuardedMarks
<1> QED BY <1>1 DEF PhotosSafe, BlobsSafe, RecordsSafe, BlobsSet, RecordsKept, NoBlob, NoRecord, NoBlobNext, NoRecordNext

LEMMA RecordsMarkedSafe ==
    ASSUME NEW h \in Hosts, NEW c \in Convs, Marked(h, c, "photo"), RecordsSet(h, Records(h) \cup {c}), BlobsKept
    PROVE  PhotosSafe
<1>1. late \subseteq late' /\ (Guarded(h, c) => <<h, c, "photo">> \in late')
  BY GuardedMarks
<1> QED BY <1>1 DEF PhotosSafe, BlobsSafe, RecordsSafe, RecordsSet, BlobsKept, NoBlob, NoRecord, NoBlobNext, NoRecordNext

LEMMA EmptiedStays ==
    ASSUME CvTypes, EraseInv, MsgsSafe, MemsSafe, PhotosSafe, NEW q \in Procs, req[q].pc # "idle", req[q].op = "delete"
    PROVE  EmptiedNext(req[q])
<1>1. Emptied(req[q]) /\ InOrder(req[q])
  BY DEF EraseInv, CvTypes
<1>2. req[q].h \in Hosts /\ req[q].c \in Convs
  BY <1>1, AtWork DEF InOrder
<1>3. PICK h \in Hosts, c \in Convs : h = req[q].h /\ c = req[q].c
  BY <1>2
<1>4. Guarded(h, c)
  BY <1>3 DEF Guarded
<1>5. /\ NoMessages(h, c) => NoMessagesNext(h, c)
      /\ NoMemberRows(h, c) => NoMemberRowsNext(h, c)
      /\ NoBlob(h, c) => NoBlobNext(h, c)
      /\ NoRecord(h, c) => NoRecordNext(h, c)
  BY <1>4 DEF MsgsSafe, MemsSafe, PhotosSafe, BlobsSafe, RecordsSafe
<1> QED BY <1>1, <1>3, <1>5 DEF Emptied, EmptiedNext

LEMMA ErasedStays ==
    ASSUME EraseInv, MsgsSafe, MemsSafe, PhotosSafe, NEW h \in Hosts, NEW c \in Convs, <<h, c>> \in erased
    PROVE  NoMessagesNext(h, c) /\ NoMemberRowsNext(h, c) /\ NoBlobNext(h, c) /\ NoRecordNext(h, c)
<1>1. NoMessages(h, c) /\ NoMemberRows(h, c) /\ NoBlob(h, c) /\ NoRecord(h, c) /\ Guarded(h, c)
  BY DEF EraseInv, Guarded
<1> QED BY <1>1 DEF MsgsSafe, MemsSafe, PhotosSafe, BlobsSafe, RecordsSafe

LEMMA EraseMoves ==
    ASSUME CvTypes, EraseInv, NEW p \in Procs, OthersWait(p), MsgsSafe, MemsSafe, PhotosSafe, BlobInvNext,
           req'[p].pc # "idle" /\ req'[p].op = "delete" => EmptiedNext(req'[p]), erased' = erased
    PROVE  EraseInv'
<1>1. ASSUME NEW q \in Procs, req'[q].pc # "idle", req'[q].op = "delete"
      PROVE  EmptiedNext(req'[q])
  <2>1. CASE q = p
    BY <1>1, <2>1
  <2>2. CASE q # p
    BY <1>1, <2>2, EmptiedStays DEF OthersWait
  <2> QED BY <2>1, <2>2
<1> QED BY <1>1, ErasedStays, EraseMade

LEMMA EraseQuiet ==
    ASSUME CvTypes, EraseInv, NEW p \in Procs, OthersWait(p), MsgsSafe, MemsSafe, PhotosSafe, BlobInvNext,
           req'[p].pc \notin {"records", "delete"} \/ req'[p].op # "delete", erased' = erased
    PROVE  EraseInv'
BY EraseMoves DEF EmptiedNext

LEMMA BlobQuiet ==
    ASSUME EraseInv, NEW p \in Procs, OthersWait(p), req[p].pc \notin {"record", "unput"}, PhotosKept, late \subseteq late'
    PROVE  BlobInvNext
<1> SUFFICES ASSUME NEW h \in Hosts, NEW c \in Convs, c \in BlobsNext(h)
             PROVE  \/ c \in RecordsNext(h) \/ <<h, c, "photo">> \in late' \/ <<h, c, "landfill">> \in late'
                    \/ \E q \in Procs : req'[q].pc \in {"record", "unput"} /\ req'[q].h = h /\ req'[q].c = c
  BY DEF BlobInvNext
<1>1. c \in Blobs(h) /\ RecordsNext(h) = Records(h)
  BY DEF PhotosKept, BlobsKept, RecordsKept
<1>2. CASE \E q \in Procs : req[q].pc \in {"record", "unput"} /\ req[q].h = h /\ req[q].c = c
  BY <1>2 DEF OthersWait
<1> QED BY <1>1, <1>2 DEF EraseInv, BlobInv

\* A step of a request that is neither at a photo nor at a delete, and does not end one.
LEMMA EraseApart ==
    ASSUME CvTypes, EraseInv, NEW p \in Procs, OthersWait(p), MsgsSafe, MemsSafe, PhotosKept, late \subseteq late',
           req[p].pc \notin {"record", "unput"}, req'[p].pc \notin {"records", "delete"} \/ req'[p].op # "delete",
           erased' = erased
    PROVE  EraseInv'
BY PhotosKeptSafe, BlobQuiet, EraseQuiet

LEMMA EndedIsApart ==
    ASSUME NEW p \in Procs, Ended(p)
    PROVE  OthersWait(p) /\ req'[p].pc \notin {"records", "delete"}
BY IdleForwardsNothing DEF Ended

LEMMA MovedIsApart ==
    ASSUME NEW p \in Procs, NEW pc, pc \notin {"records", "delete"}, Moved(p, pc) \/ MovedWith(p, pc, req'[p].arg)
    PROVE  OthersWait(p) /\ req'[p].pc \notin {"records", "delete"}
BY DEF Moved, MovedWith

LEMMA AfterCreateIsApart ==
    ASSUME NEW p \in Procs, NEW c, AfterCreateDoes(p, c)
    PROVE  OthersWait(p) /\ req'[p].pc \notin {"records", "delete"}
BY EndedIsApart DEF AfterCreateDoes, Created

LEMMA MsgsKeptAreSafe ==
    ASSUME late \subseteq late', MsgsKept
    PROVE  MsgsSafe
BY MsgsKeptSafe DEF MsgsKept

LEMMA BeginsErase ==
    ASSUME CvTypes, EraseInv, NEW p \in Procs, BeginsDoes(p)
    PROVE  EraseInv'
<1>1. PICK r : BeginsAny(r) /\ BeginDoes(p, r)
  BY DEF BeginsDoes
<1>2. r.pc \notin {"records", "delete"}
  BY <1>1 DEF BeginsAny, BeginsBy, BeginsGroup, BeginsDirect, BeginsAdd, BeginsRemove, BeginsPost, BeginsUpload, BeginsDelete, NewAt
<1>3. DbKept /\ late \subseteq late' /\ OthersWait(p) /\ req'[p] = r /\ req[p].pc = "idle" /\ erased' = erased
  BY <1>1 DEF BeginDoes
<1>4. MsgsSafe /\ MemsSafe /\ PhotosKept
  BY <1>3, DbKeptSafe DEF DbKept
<1> QED BY <1>2, <1>3, <1>4, EraseApart

LEMMA KnownGuarded ==
    ASSUME CvTypes, NEW h \in Hosts, NEW c, Guarded(h, c)
    PROVE  c \in ids
<1>1. CASE <<h, c>> \in erased
  BY <1>1 DEF CvTypes
<1>2. CASE \E p \in Procs : req[p].pc # "idle" /\ req[p].op = "delete" /\ req[p].h = h /\ req[p].c = c
  <2>1. PICK p \in Procs : req[p].pc # "idle" /\ req[p].op = "delete" /\ req[p].h = h /\ req[p].c = c
    BY <1>2
  <2>2. InOrder(req[p])
    BY DEF CvTypes
  <2> QED BY <2>1, <2>2 DEF InOrder
<1> QED BY <1>1, <1>2 DEF Guarded

LEMMA NewIsSafe ==
    ASSUME CvTypes, NEW h \in Hosts, NEW c \in Convs, c \notin ids, NEW f, MemsSet(h, c, f), late \subseteq late'
    PROVE  MemsSafe
<1> SUFFICES ASSUME NEW k \in Hosts, NEW x \in Convs, Guarded(k, x), NoMemberRows(k, x)
             PROVE  NoMemberRowsNext(k, x)
  BY DEF MemsSafe
<1>1. x # c
  BY KnownGuarded
<1> QED BY <1>1 DEF MemsSet, NoMemberRows, NoMemberRowsNext

LEMMA MirrorSafe ==
    ASSUME ConversationsAssumption, CvTypes, NEW p \in Procs, req[p].pc = "provision", MirrorDoes(p)
    PROVE  MemsSafe /\ MsgsKept /\ PhotosKept /\ late \subseteq late'
<1>1. Home[req[p].v] \in Hosts /\ req[p].c \in Convs
  BY AtWork DEF CvTypes, InOrder, ConversationsAssumption
<1>2. CASE DbKept /\ late' = late
  BY <1>2, DbKeptSafe DEF DbKept
<1>3. CASE ~(DbKept /\ late' = late)
  <2>1. PICK f : /\ MemsSet(Home[req[p].v], req[p].c, f)
                 /\ MsgsKept /\ PhotosKept /\ Marked(Home[req[p].v], req[p].c, "member")
    BY <1>3 DEF MirrorDoes
  <2>2. MemsSafe
    BY <1>1, <2>1, MemsMarkedSafe DEF MemsSet
  <2> QED BY <2>1, <2>2 DEF Marked
<1> QED BY <1>2, <1>3

LEMMA CreateErase ==
    ASSUME ConversationsAssumption, CvTypes, EraseInv, NEW p \in Procs,
           \/ FindDirectDoes(p) \/ InsertConversationDoes(p) \/ InsertMembersDoes(p) \/ InsertMembersFailsDoes(p)
           \/ WinnerDoes(p) \/ ProvisionDoes(p) \/ ProvisionFailsDoes(p)
    PROVE  EraseInv'
<1>1. req[p].pc \in {"find", "insert", "members", "winner", "provision"} /\ erased' = erased
  BY DEF FindDirectDoes, InsertConversationDoes, InsertMembersDoes, InsertMembersFailsDoes, WinnerDoes, ProvisionDoes,
         ProvisionFailsDoes
<1> SUFFICES /\ OthersWait(p) /\ MsgsSafe /\ MemsSafe /\ PhotosKept /\ late \subseteq late'
             /\ req'[p].pc \notin {"records", "delete"} \/ req'[p].op # "delete"
  BY <1>1, EraseApart
<1>2. CASE DbKept /\ late' = late /\ (Ended(p) \/ Moved(p, "insert") \/ Moved(p, "winner"))
  BY <1>2, DbKeptSafe, EndedIsApart, MovedIsApart DEF DbKept
<1>3. CASE FindDirectDoes(p) \/ WinnerDoes(p) \/ InsertMembersFailsDoes(p)
  BY <1>2, <1>3 DEF FindDirectDoes, WinnerDoes, InsertMembersFailsDoes
<1>4. CASE InsertConversationDoes(p)
  <2>1. req[p].h \in Hosts /\ late' = late /\ MsgsKept /\ PhotosKept
    BY <1>4, AtWork DEF InsertConversationDoes
  <2>2. MsgsSafe
    BY <2>1, MsgsKeptAreSafe
  <2>3. CASE MemsKept /\ Moved(p, "winner")
    BY <2>1, <2>2, <2>3, MemsKeptSafe, MovedIsApart
  <2>4. CASE \E c \in Convs : MemsKept /\ Created(p, "members", c)
    BY <2>1, <2>2, <2>4, MemsKeptSafe DEF Created
  <2>5. CASE \E c \in Convs \ ids : MemsSet(req[p].h, c, NewMembers(req[p])) /\ AfterCreateDoes(p, c)
    BY <2>1, <2>2, <2>5, NewIsSafe, AfterCreateIsApart
  <2> QED BY <1>4, <2>3, <2>4, <2>5 DEF InsertConversationDoes
<1>5. CASE InsertMembersDoes(p)
  <2>1. req[p].h \in Hosts /\ req[p].c \in Convs
    BY <1>5, AtWork DEF InsertMembersDoes
  <2>2. MemsSafe
    BY <1>5, <2>1, MemsMarkedSafe DEF InsertMembersDoes, MemsSet
  <2>3. late \subseteq late' /\ MsgsKept /\ PhotosKept
    BY <1>5 DEF InsertMembersDoes, Marked
  <2>4. AfterCreateDoes(p, req[p].c)
    BY <1>5 DEF InsertMembersDoes
  <2> QED BY <2>2, <2>3, <2>4, MsgsKeptAreSafe, AfterCreateIsApart
<1>6. CASE ProvisionDoes(p)
  <2>1. MemsSafe /\ MsgsKept /\ PhotosKept /\ late \subseteq late'
    BY <1>6, MirrorSafe DEF ProvisionDoes
  <2>2. Ended(p) \/ Moved(p, "number")
    BY <1>6 DEF ProvisionDoes
  <2> QED BY <2>1, <2>2, MsgsKeptAreSafe, EndedIsApart, MovedIsApart
<1>7. CASE ProvisionFailsDoes(p)
  <2>1. MemsSafe /\ MsgsKept /\ PhotosKept /\ late \subseteq late'
    <3>1. CASE DbKept /\ late' = late
      BY <3>1, DbKeptSafe DEF DbKept
    <3>2. CASE MirrorDoes(p)
      BY <1>1, <1>7, <3>2, MirrorSafe DEF ProvisionFailsDoes
    <3> QED BY <1>7, <3>1, <3>2 DEF ProvisionFailsDoes
  <2>2. Ended(p) \/ Undone(p)
    BY <1>7 DEF ProvisionFailsDoes
  <2>3. OthersWait(p) /\ (req'[p].pc \notin {"records", "delete"} \/ req'[p].op # "delete")
    BY <2>2, EndedIsApart DEF Undone
  <2> QED BY <2>1, <2>3, MsgsKeptAreSafe
<1> QED BY <1>3, <1>4, <1>5, <1>6, <1>7

\* A member row that is there and changes leaves a row there.
LEMMA MemTouchedSafe ==
    ASSUME NEW h \in Hosts, NEW c \in Convs, NEW u \in Users, NEW m, MemSet(h, c, u, m), Mem(h, c, u) # None,
           late \subseteq late'
    PROVE  MemsSafe
<1> SUFFICES ASSUME NEW k \in Hosts, NEW x \in Convs, NoMemberRows(k, x)
             PROVE  NoMemberRowsNext(k, x)
  BY DEF MemsSafe
<1>1. CASE <<k, x, "member">> \in late
  BY <1>1 DEF NoMemberRowsNext
<1>2. CASE \A w \in Users : Mem(k, x, w) = None
  <2>1. k # h \/ x # c
    BY <1>2
  <2> QED BY <1>2, <2>1 DEF MemSet, NoMemberRowsNext
<1> QED BY <1>1, <1>2 DEF NoMemberRows

LEMMA SetMemberRoleErase ==
    ASSUME ConversationsAssumption, CvTypes, EraseInv, NEW c \in ids, NEW u \in Users, NEW v \in Users,
           SetMemberRoleDoes(u, v, c)
    PROVE  EraseInv'
<1>1. /\ Home[u] \in Hosts /\ c \in Convs /\ req' = req /\ late' = late /\ erased' = erased /\ MsgsKept /\ PhotosKept
      /\ Mem(Home[u], c, v) # None
  BY DEF ConversationsAssumption, SetMemberRoleDoes, CvTypes, IdsInOrder
<1>2. PICK m : MemSet(Home[u], c, v, m)
  BY DEF SetMemberRoleDoes
<1>3. MsgsSafe /\ MemsSafe /\ PhotosSafe
  BY <1>1, <1>2, MemTouchedSafe, MsgsKeptAreSafe, PhotosKeptSafe
<1>4. BlobInvNext
  BY <1>1 DEF EraseInv, BlobInv, BlobInvNext, PhotosKept, BlobsKept, RecordsKept
<1>5. \A q \in Procs : req'[q].pc # "idle" /\ req'[q].op = "delete" => EmptiedNext(req'[q])
  BY <1>1, <1>3, EmptiedStays
<1> QED BY <1>1, <1>3, <1>4, <1>5, ErasedStays, EraseMade

LEMMA JoinSafe ==
    ASSUME NEW h \in Hosts, NEW c \in Convs, NEW v \in Users, NEW n, JoinDoes(h, c, v, n)
    PROVE  MsgsSafe /\ MemsSafe /\ PhotosKept /\ late \subseteq late'
<1>1. Marked(h, c, "member") /\ MsgsKept /\ PhotosKept /\ late \subseteq late'
  BY DEF JoinDoes, Marked
<1>2. \A k \in Hosts, x \in Convs, w \in Users : k # h \/ x # c => MemNext(k, x, w) = Mem(k, x, w)
  BY DEF JoinDoes, MemsKept, MemSet
<1> QED BY <1>1, <1>2, MemsMarkedSafe, MsgsKeptAreSafe

LEMMA RosterErase ==
    ASSUME ConversationsAssumption, CvTypes, EraseInv, NEW p \in Procs,
           JoinSeqDoes(p) \/ InsertMemberDoes(p) \/ RemoveMemberDoes(p)
    PROVE  EraseInv'
<1>1. req[p].pc \in {"joinSeq", "insertMember", "removeMember"} /\ erased' = erased
  BY DEF JoinSeqDoes, InsertMemberDoes, RemoveMemberDoes
<1>2. req[p].h \in Hosts /\ req[p].c \in Convs /\ req[p].v \in Users
  BY <1>1, AtWork DEF CvTypes, InOrder
<1> SUFFICES /\ OthersWait(p) /\ MsgsSafe /\ MemsSafe /\ PhotosKept /\ late \subseteq late'
             /\ req'[p].pc \notin {"records", "delete"}
  BY <1>1, EraseApart
<1>3. CASE JoinSeqDoes(p)
  <2>1. AfterAdd(p) \in {"number", "provision"}
    BY DEF AfterAdd
  <2>2. OthersWait(p) /\ req'[p].pc \notin {"records", "delete"}
    BY <1>3, <2>1 DEF JoinSeqDoes, Moved, MovedWith
  <2>3. CASE DbKept /\ late' = late
    BY <2>2, <2>3, DbKeptSafe DEF DbKept
  <2>4. CASE \E n \in Nat : JoinDoes(req[p].h, req[p].c, req[p].v, n)
    BY <1>2, <2>2, <2>4, JoinSafe
  <2> QED BY <1>3, <2>3, <2>4 DEF JoinSeqDoes
<1>4. CASE InsertMemberDoes(p)
  <2>1. AfterAdd(p) \in {"number", "provision"}
    BY DEF AfterAdd
  <2>2. OthersWait(p) /\ req'[p].pc \notin {"records", "delete"}
    BY <1>4, <2>1 DEF InsertMemberDoes, Moved
  <2> QED BY <1>2, <1>4, <2>2, JoinSafe DEF InsertMemberDoes
<1>5. CASE RemoveMemberDoes(p)
  <2>1. late' = late /\ MsgsKept /\ PhotosKept /\ (Ended(p) \/ Moved(p, "number"))
    BY <1>5 DEF RemoveMemberDoes
  <2>2. \A k \in Hosts, x \in Convs, w \in Users : MemNext(k, x, w) = Mem(k, x, w) \/ MemNext(k, x, w) = None
    BY <1>5 DEF RemoveMemberDoes, MemsKept, MemSet
  <2> QED BY <2>1, <2>2, MemsLessSafe, MsgsKeptAreSafe, EndedIsApart, MovedIsApart
<1> QED BY <1>3, <1>4, <1>5

LEMMA ReceiptSafe ==
    ASSUME NEW h \in Hosts, NEW c \in Convs, NEW u \in Users, NEW i, NEW j, ReceiptDoes(h, c, u, i, j),
           Mem(h, c, u) # None, late \subseteq late'
    PROVE  MemsSafe
BY MemTouchedSafe DEF ReceiptDoes

LEMMA ReportErase ==
    ASSUME ConversationsAssumption, CvTypes, EraseInv, NEW p \in Procs, NEW c \in ids, NEW u \in Users,
           NEW delivered \in Nat, NEW read \in Nat, ReportDoes(p, u, c, delivered, read)
    PROVE  EraseInv'
<1>1. Home[u] \in Hosts /\ c \in Convs
  BY DEF ConversationsAssumption, CvTypes, IdsInOrder
<1>2. /\ late' = late /\ erased' = erased /\ OthersWait(p) /\ req[p].pc = "idle" /\ Mem(Home[u], c, u) # None
      /\ ReceiptDoes(Home[u], c, u, Later(delivered, read), read)
  BY DEF ReportDoes
<1>3. MemsSafe /\ MsgsSafe /\ PhotosKept
  BY <1>1, <1>2, ReceiptSafe, MsgsKeptAreSafe DEF ReceiptDoes
<1>4. req'[p].pc = "forward"
  BY DEF ReportDoes, NewRequest
<1> QED BY <1>2, <1>3, <1>4, EraseApart

LEMMA MessageErase ==
    ASSUME ConversationsAssumption, CvTypes, EraseInv, NEW p \in Procs,
           TakeNumberDoes(p) \/ StoreMessageDoes(p) \/ ForwardReceiptDoes(p)
    PROVE  EraseInv'
<1>1. req[p].pc \in {"number", "store", "forward"} /\ erased' = erased /\ PhotosKept
  BY DEF TakeNumberDoes, StoreMessageDoes, ForwardReceiptDoes
<1>2. req[p].h \in Hosts /\ req[p].c \in Convs /\ req[p].u \in Users
  BY <1>1, AtWork
<1> SUFFICES /\ OthersWait(p) /\ MsgsSafe /\ MemsSafe /\ late \subseteq late'
             /\ req'[p].pc \notin {"records", "delete"}
  BY <1>1, EraseApart
<1>3. CASE ForwardReceiptDoes(p)
  <2>1. Ended(p) /\ MsgsKept /\ late' = late
    BY <1>3 DEF ForwardReceiptDoes
  <2>2. MemsSafe
    BY <1>2, <1>3, <2>1, MemsKeptSafe, ReceiptSafe DEF ForwardReceiptDoes
  <2> QED BY <2>1, <2>2, MsgsKeptAreSafe, EndedIsApart
<1>4. CASE MsgAdded(req[p].h, req[p].c) /\ Marked(req[p].h, req[p].c, "message") /\ Ended(p) /\ MemsKept
  BY <1>2, <1>4, MsgsMarkedSafe, MemsKeptSafe, EndedIsApart DEF Marked
<1>5. CASE StoreMessageDoes(p)
  BY <1>4, <1>5 DEF StoreMessageDoes
<1>6. CASE TakeNumberDoes(p)
  <2>1. CASE MsgsKept /\ late' = late /\ \E n \in Nat : MovedWith(p, "store", n)
    BY <1>6, <2>1, MsgsKeptAreSafe, MemsKeptSafe DEF MovedWith, TakeNumberDoes
  <2> QED BY <1>4, <1>6, <2>1 DEF TakeNumberDoes
<1> QED BY <1>3, <1>5, <1>6

LEMMA UploadErase ==
    ASSUME ConversationsAssumption, CvTypes, EraseInv, NEW p \in Procs,
           PutBlobDoes(p) \/ RecordAttachmentDoes(p) \/ RecordFailsDoes(p) \/ UnputBlobDoes(p)
    PROVE  EraseInv'
<1>1. /\ req[p].pc \in {"put", "record", "unput"} /\ erased' = erased /\ MemsKept /\ MsgsKept /\ OthersWait(p)
      /\ late \subseteq late'
  BY DEF PutBlobDoes, RecordAttachmentDoes, RecordFailsDoes, UnputBlobDoes, DbKept, Moved, Ended, Marked
<1>2. req[p].h \in Hosts /\ req[p].c \in Convs
  BY <1>1, AtWork
<1>3. PICK h \in Hosts, c \in Convs : h = req[p].h /\ c = req[p].c
  BY <1>2
<1>4. MsgsSafe /\ MemsSafe
  BY <1>1, MsgsKeptAreSafe, MemsKeptSafe
<1> SUFFICES PhotosSafe /\ BlobInvNext /\ req'[p].pc \notin {"records", "delete"}
  BY <1>1, <1>4, EraseQuiet
<1>5. ASSUME NEW k \in Hosts, NEW x \in Convs, x \in Blobs(k), Records(k) \subseteq RecordsNext(k)
      PROVE  \/ x \in RecordsNext(k) \/ <<k, x, "photo">> \in late' \/ <<k, x, "landfill">> \in late' \/ (k = h /\ x = c)
             \/ \E q \in Procs : req'[q].pc \in {"record", "unput"} /\ req'[q].h = k /\ req'[q].c = x
  <2>1. CASE x \in Records(k) \/ <<k, x, "photo">> \in late \/ <<k, x, "landfill">> \in late
    BY <1>1, <1>5, <2>1
  <2>2. CASE \E q \in Procs : req[q].pc \in {"record", "unput"} /\ req[q].h = k /\ req[q].c = x
    BY <1>1, <1>3, <2>2 DEF OthersWait
  <2>3. BlobInv
    BY DEF EraseInv
  <2>4. \/ x \in Records(k) \/ <<k, x, "photo">> \in late \/ <<k, x, "landfill">> \in late
        \/ \E q \in Procs : req[q].pc \in {"record", "unput"} /\ req[q].h = k /\ req[q].c = x
    BY <1>5, <2>3 DEF BlobInv
  <2> QED BY <2>1, <2>2, <2>4
<1>6. CASE PutBlobDoes(p)
  <2>1. PhotosSafe
    BY <1>2, <1>6, BlobsMarkedSafe DEF PutBlobDoes
  <2>2. req'[p].pc = "record" /\ req'[p].h = h /\ req'[p].c = c
    BY <1>3, <1>6 DEF PutBlobDoes, Moved, Same
  <2>3. \A k \in Hosts : RecordsNext(k) = Records(k) /\ \A x \in BlobsNext(k) : x \in Blobs(k) \/ (k = h /\ x = c)
    BY <1>3, <1>6 DEF PutBlobDoes, RecordsKept, BlobsSet
  <2>4. BlobInvNext
    BY <1>5, <2>2, <2>3 DEF BlobInvNext
  <2> QED BY <2>1, <2>2, <2>4
<1>7. CASE RecordAttachmentDoes(p)
  <2>1. PhotosSafe
    BY <1>2, <1>7, RecordsMarkedSafe DEF RecordAttachmentDoes
  <2>2. req'[p].pc \notin {"records", "delete"}
    BY <1>7, EndedIsApart DEF RecordAttachmentDoes
  <2>3. \A k \in Hosts : Records(k) \subseteq RecordsNext(k) /\ BlobsNext(k) = Blobs(k)
    BY <1>7 DEF RecordAttachmentDoes, RecordsSet, BlobsKept
  <2>4. c \in RecordsNext(h)
    BY <1>3, <1>7 DEF RecordAttachmentDoes, RecordsSet
  <2>5. BlobInvNext
    BY <1>5, <2>3, <2>4 DEF BlobInvNext
  <2> QED BY <2>1, <2>2, <2>5
<1>8. CASE RecordFailsDoes(p)
  <2>1. PhotosSafe
    BY <1>1, <1>8, PhotosKeptSafe DEF RecordFailsDoes, DbKept
  <2>2. req'[p].pc = "unput" /\ req'[p].h = h /\ req'[p].c = c
    BY <1>3, <1>8 DEF RecordFailsDoes, Moved, Same
  <2>3. \A k \in Hosts : RecordsNext(k) = Records(k) /\ BlobsNext(k) = Blobs(k)
    BY <1>8 DEF RecordFailsDoes, DbKept, PhotosKept, RecordsKept, BlobsKept
  <2>4. BlobInvNext
    BY <1>5, <2>2, <2>3 DEF BlobInvNext
  <2> QED BY <2>1, <2>2, <2>4
<1>9. CASE UnputBlobDoes(p)
  <2>1. /\ \A k \in Hosts : RecordsNext(k) = Records(k) /\ BlobsNext(k) \subseteq Blobs(k)
        /\ c \notin BlobsNext(h)
    BY <1>3, <1>9 DEF UnputBlobDoes, RecordsKept, BlobsSet
  <2>2. PhotosSafe
    BY <1>1, <2>1, PhotosLessSafe
  <2>3. req'[p].pc \notin {"records", "delete"}
    BY <1>9, EndedIsApart DEF UnputBlobDoes
  <2>4. BlobInvNext
    BY <1>5, <2>1 DEF BlobInvNext
  <2> QED BY <2>2, <2>3, <2>4
<1> QED BY <1>6, <1>7, <1>8, <1>9

LEMMA DeleteBlobsErase ==
    ASSUME ConversationsAssumption, CvTypes, EraseInv, NEW p \in Procs, DeleteBlobsDoes(p)
    PROVE  EraseInv'
<1>1. /\ req[p].pc = "blobs" /\ erased' = erased /\ MemsKept /\ MsgsKept /\ RecordsKept /\ Moved(p, "records")
      /\ late \subseteq late'
  BY DEF DeleteBlobsDoes
<1>2. req[p].h \in Hosts /\ req[p].c \in Convs
  BY <1>1, AtWork
<1>3. PICK h \in Hosts, c \in Convs : h = req[p].h /\ c = req[p].c
  BY <1>2
<1>4. /\ \/ BlobsNext(h) = Blobs(h) \ (Records(h) \cap {c})
         \/ BlobsNext(h) = Blobs(h) /\ <<h, c, "landfill">> \in late'
      /\ \A k \in Hosts : k # h => BlobsNext(k) = Blobs(k)
      /\ UploadGoesOn(h, c) => <<h, c, "photo">> \in late'
  BY <1>3 DEF DeleteBlobsDoes, BlobsSet, BlobsKept
<1>5. \A k \in Hosts : BlobsNext(k) \subseteq Blobs(k) /\ RecordsNext(k) = Records(k)
  BY <1>1, <1>4 DEF RecordsKept
<1>6. MsgsSafe /\ MemsSafe /\ PhotosSafe
  BY <1>1, <1>5, MsgsKeptAreSafe, MemsKeptSafe, PhotosLessSafe
<1>7. BlobInvNext
  <2> SUFFICES ASSUME NEW k \in Hosts, NEW x \in Convs, x \in BlobsNext(k)
               PROVE  \/ x \in RecordsNext(k) \/ <<k, x, "photo">> \in late' \/ <<k, x, "landfill">> \in late'
                      \/ \E q \in Procs : req'[q].pc \in {"record", "unput"} /\ req'[q].h = k /\ req'[q].c = x
    BY DEF BlobInvNext
  <2>1. CASE \E q \in Procs : req[q].pc \in {"record", "unput"} /\ req[q].h = k /\ req[q].c = x
    BY <1>1, <2>1 DEF Moved, OthersWait
  <2> QED BY <1>1, <1>5, <2>1 DEF EraseInv, BlobInv
<1>8. NoBlobNext(h, c)
  <2>1. CASE c \in BlobsNext(h)
    <3>1. c \in Blobs(h) /\ (c \notin Records(h) \/ <<h, c, "landfill">> \in late')
      BY <1>4, <2>1
    <3>2. CASE <<h, c, "photo">> \in late \/ <<h, c, "landfill">> \in late
      BY <1>1, <3>2 DEF NoBlobNext
    <3>3. CASE \E q \in Procs : req[q].pc \in {"record", "unput"} /\ req[q].h = h /\ req[q].c = c
      <4>1. PICK q \in Procs : req[q].pc \in {"record", "unput"} /\ req[q].h = h /\ req[q].c = c
        BY <3>3
      <4>2. req[q].op = "upload"
        BY <4>1 DEF CvTypes, InOrder
      <4> QED BY <1>4, <4>1, <4>2 DEF UploadGoesOn, NoBlobNext
    <3>4. CASE <<h, c, "landfill">> \in late'
      BY <3>4 DEF NoBlobNext
    <3>5. BlobInv
      BY DEF EraseInv
    <3>6. \/ c \in Records(h) \/ <<h, c, "photo">> \in late \/ <<h, c, "landfill">> \in late
          \/ \E q \in Procs : req[q].pc \in {"record", "unput"} /\ req[q].h = h /\ req[q].c = c
      BY <3>1, <3>5 DEF BlobInv
    <3> QED BY <3>1, <3>2, <3>3, <3>4, <3>6
  <2> QED BY <2>1 DEF NoBlobNext
<1>9. EmptiedNext(req'[p])
  BY <1>1, <1>3, <1>8 DEF EmptiedNext, Moved, Same
<1> QED BY <1>1, <1>6, <1>7, <1>9, EraseMoves DEF Moved

LEMMA DeleteRecordsErase ==
    ASSUME ConversationsAssumption, CvTypes, EraseInv, NEW p \in Procs, DeleteRecordsDoes(p)
    PROVE  EraseInv'
<1>1. /\ req[p].pc \in {"blobs", "records"} /\ erased' = erased /\ MemsKept /\ MsgsKept /\ BlobsKept
      /\ late \subseteq late'
      /\ MovedWith(p, "delete", req[p].arg) /\ req'[p].todo = IF Mongo THEN Todo3 ELSE TodoAll
  BY DEF DeleteRecordsDoes
<1>2. req[p].h \in Hosts /\ req[p].c \in Convs /\ req[p].op = "delete"
  BY <1>1, AtWork DEF CvTypes, InOrder
<1>3. PICK h \in Hosts, c \in Convs : h = req[p].h /\ c = req[p].c
  BY <1>2
<1>4. /\ \/ req[p].pc = "records" /\ RecordsNext(h) = Records(h) \ {c}
         \/ RecordsNext(h) = Records(h) /\ <<h, c, "landfill">> \in late'
      /\ \A k \in Hosts : k # h => RecordsNext(k) = Records(k)
      /\ \A k \in Hosts : BlobsNext(k) = Blobs(k)
  BY <1>1, <1>3 DEF DeleteRecordsDoes, RecordsSet, RecordsKept, BlobsKept
<1>5. \A k \in Hosts : BlobsNext(k) \subseteq Blobs(k) /\ RecordsNext(k) \subseteq Records(k)
  BY <1>4
<1>6. MsgsSafe /\ MemsSafe /\ PhotosSafe
  BY <1>1, <1>5, MsgsKeptAreSafe, MemsKeptSafe, PhotosLessSafe
<1>7. NoBlob(h, c) \/ <<h, c, "landfill">> \in late'
  BY <1>1, <1>2, <1>3, <1>4 DEF EraseInv, Emptied
<1>8. BlobInvNext
  <2> SUFFICES ASSUME NEW k \in Hosts, NEW x \in Convs, x \in BlobsNext(k)
               PROVE  \/ x \in RecordsNext(k) \/ <<k, x, "photo">> \in late' \/ <<k, x, "landfill">> \in late'
                      \/ \E q \in Procs : req'[q].pc \in {"record", "unput"} /\ req'[q].h = k /\ req'[q].c = x
    BY DEF BlobInvNext
  <2>1. CASE k = h /\ x = c
    BY <1>1, <1>4, <1>7, <2>1 DEF NoBlob
  <2>2. CASE k # h \/ x # c
    <3>1. CASE \E q \in Procs : req[q].pc \in {"record", "unput"} /\ req[q].h = k /\ req[q].c = x
      BY <1>1, <3>1 DEF MovedWith, OthersWait
    <3>2. x \in Blobs(k) /\ (x \in Records(k) => x \in RecordsNext(k))
      BY <1>4, <2>2
    <3> QED BY <1>1, <3>1, <3>2 DEF EraseInv, BlobInv
  <2> QED BY <2>1, <2>2
<1>9. NoBlobNext(h, c) /\ NoRecordNext(h, c)
  BY <1>1, <1>4, <1>7 DEF NoBlob, NoBlobNext, NoRecordNext
<1>10. req'[p].todo \notin {Todo1, Todo2}
  BY <1>1, TodoSteps
<1>11. req'[p].pc = "delete" /\ req'[p].h = h /\ req'[p].c = c /\ OthersWait(p)
  BY <1>1, <1>3 DEF MovedWith, Same
<1>12. EmptiedNext(req'[p])
  BY <1>9, <1>10, <1>11 DEF EmptiedNext
<1> QED BY <1>1, <1>6, <1>8, <1>11, <1>12, EraseMoves

\* Whatever step of the delete it is, less is there than before.
LEMMA DeleteStepSafe ==
    ASSUME ConversationsAssumption, CvTypes, NEW p \in Procs, DeleteStepDoes(p)
    PROVE  MsgsSafe /\ MemsSafe /\ PhotosSafe
<1>1. req[p].pc = "delete" /\ late' = late /\ PhotosKept
  BY DEF DeleteStepDoes
<1>2. req[p].h \in Hosts /\ req[p].c \in Convs
  BY <1>1, AtWork
<1>3. MsgsKept \/ MsgsSet(req[p].h, {m \in Msgs(req[p].h) : m.conv # req[p].c})
  BY DEF DeleteStepDoes
<1>4. \A k \in Hosts : MsgsNext(k) \subseteq Msgs(k)
  BY <1>3 DEF MsgsKept, MsgsSet
<1>5. MemsKept \/ MemsSet(req[p].h, req[p].c, NoMembers)
  BY DEF DeleteStepDoes
<1>6. \A k \in Hosts, x \in Convs, w \in Users : MemNext(k, x, w) = Mem(k, x, w) \/ MemNext(k, x, w) = None
  BY <1>5 DEF MemsKept, MemsSet, NoMembers
<1> QED BY <1>1, <1>4, <1>6, MsgsKeptSafe, MemsLessSafe, PhotosKeptSafe

LEMMA DeleteStepErase ==
    ASSUME ConversationsAssumption, CvTypes, EraseInv, NEW p \in Procs, DeleteStepDoes(p)
    PROVE  EraseInv'
<1>1. req[p].pc = "delete" /\ late' = late /\ PhotosKept /\ req[p].op \in {"delete", "undo"}
  BY DEF DeleteStepDoes, CvTypes, InOrder
<1>2. req[p].h \in Hosts /\ req[p].c \in Convs
  BY <1>1, AtWork
<1>3. PICK h \in Hosts, c \in Convs : h = req[p].h /\ c = req[p].c
  BY <1>2
<1>4. MsgsSafe /\ MemsSafe /\ PhotosSafe
  BY DeleteStepSafe
<1>5. ASSUME req[p].op = "delete"
      PROVE  EmptiedNext(req[p])
  BY <1>1, <1>4, <1>5, EmptiedStays
<1>6. OthersWait(p)
  BY DEF DeleteStepDoes, DeletedLast, MovedWith, Moved, Ended
<1>7. BlobInvNext
  BY <1>1, <1>6, BlobQuiet
<1>8. CASE req[p].todo = Todo3 \/ req[p].todo = Todo2
  <2>1. MovedWith(p, "delete", req[p].arg) /\ erased' = erased
    BY <1>8, TodoSteps DEF DeleteStepDoes
  <2>2. req'[p].pc = "delete" /\ req'[p].h = h /\ req'[p].c = c /\ req'[p].op = req[p].op
    BY <1>3, <2>1 DEF MovedWith, Same
  <2>3. ASSUME req[p].op = "delete"
        PROVE  EmptiedNext(req'[p])
    <3>1. EmptiedNext(req[p])
      BY <1>5, <2>3
    <3>2. CASE req[p].todo = Todo3
      <4>1. req'[p].todo = Todo2 /\ MsgsSet(req[p].h, {m \in Msgs(req[p].h) : m.conv # req[p].c})
        BY <3>2, TodoSteps DEF DeleteStepDoes
      <4>2. NoMessagesNext(h, c)
        BY <1>3, <4>1 DEF NoMessagesNext, MsgsSet
      <4>3. req'[p].todo # Todo1
        BY <4>1, TodoSteps
      <4> QED BY <1>1, <1>3, <2>2, <3>1, <4>2, <4>3 DEF EmptiedNext
    <3>3. CASE req[p].todo = Todo2
      <4>1. req'[p].todo = Todo1 /\ MemsSet(req[p].h, req[p].c, NoMembers)
        BY <3>3, TodoSteps DEF DeleteStepDoes
      <4>2. NoMemberRowsNext(h, c)
        BY <1>3, <4>1 DEF NoMemberRowsNext, MemsSet, NoMembers
      <4> QED BY <1>1, <1>3, <2>2, <3>1, <3>3, <4>2 DEF EmptiedNext
    <3> QED BY <1>8, <3>2, <3>3
  <2> QED BY <1>4, <1>6, <1>7, <2>1, <2>2, <2>3, EraseMoves
<1>9. CASE req[p].todo = Todo1 \/ req[p].todo = TodoAll
  <2>1. DeletedLast(p)
    BY <1>9, TodoSteps DEF DeleteStepDoes
  <2>2. CASE req[p].op = "undo"
    <3>1. Ended(p) /\ erased' = erased
      BY <2>1, <2>2 DEF DeletedLast
    <3> QED BY <1>4, <1>6, <1>7, <3>1, EraseQuiet, EndedIsApart
  <2>3. CASE req[p].op = "delete"
    <3>1. Moved(p, "propagate") /\ erased' = erased \cup {<<h, c>>}
      BY <1>3, <2>1, <2>3 DEF DeletedLast
    <3>2. EmptiedNext(req[p])
      BY <1>5, <2>3
    <3>3. NoBlobNext(h, c) /\ NoRecordNext(h, c)
      BY <1>1, <1>3, <3>2 DEF EmptiedNext
    <3>4. NoMessagesNext(h, c) /\ NoMemberRowsNext(h, c)
      <4>1. CASE req[p].todo = Todo1
        BY <1>1, <1>3, <3>2, <4>1 DEF EmptiedNext
      <4>2. CASE req[p].todo = TodoAll
        <5>1. /\ MsgsSet(req[p].h, {m \in Msgs(req[p].h) : m.conv # req[p].c})
              /\ MemsSet(req[p].h, req[p].c, NoMembers)
          BY <4>2, TodoSteps DEF DeleteStepDoes
        <5> QED BY <1>3, <5>1 DEF NoMessagesNext, NoMemberRowsNext, MsgsSet, MemsSet, NoMembers
      <4> QED BY <1>9, <4>1, <4>2
    <3>5. \A k \in Hosts, x \in Convs : <<k, x>> \in erased' =>
              NoMessagesNext(k, x) /\ NoMemberRowsNext(k, x) /\ NoBlobNext(k, x) /\ NoRecordNext(k, x)
      BY <1>4, <3>1, <3>3, <3>4, ErasedStays
    <3>6. ASSUME NEW q \in Procs, req'[q].pc # "idle", req'[q].op = "delete"
          PROVE  EmptiedNext(req'[q])
      <4>1. CASE q = p
        BY <3>1, <4>1 DEF Moved, EmptiedNext
      <4>2. CASE q # p
        BY <1>4, <1>6, <3>6, <4>2, EmptiedStays DEF OthersWait
      <4> QED BY <4>1, <4>2
    <3> QED BY <1>7, <3>5, <3>6, EraseMade
  <2> QED BY <1>1, <2>2, <2>3
<1> QED BY <1>8, <1>9 DEF DeleteStepDoes

LEMMA DeleteMirrorErase ==
    ASSUME ConversationsAssumption, CvTypes, EraseInv, NEW p \in Procs, DeleteMirrorDoes(p)
    PROVE  EraseInv'
<1>1. req[p].pc = "propagate" /\ late' = late /\ PhotosKept /\ erased' = erased /\ Ended(p)
  BY DEF DeleteMirrorDoes
<1>2. req[p].c \in Convs
  BY <1>1, AtWork
<1>3. \A k \in Hosts : HostKept(k) \/ HostCleared(k, req[p].c)
  BY DEF DeleteMirrorDoes
<1>4. \A k \in Hosts : MsgsNext(k) \subseteq Msgs(k)
  BY <1>3 DEF HostKept, HostCleared
<1>5. \A k \in Hosts, x \in Convs, w \in Users : MemNext(k, x, w) = Mem(k, x, w) \/ MemNext(k, x, w) = None
  BY <1>2, <1>3 DEF HostKept, HostCleared
<1>6. MsgsSafe /\ MemsSafe
  BY <1>1, <1>4, <1>5, MsgsKeptSafe, MemsLessSafe
<1> QED BY <1>1, <1>6, EraseApart, EndedIsApart

LEMMA CallFailsErase ==
    ASSUME ConversationsAssumption, CvTypes, EraseInv, NEW p \in Procs, CallFailsDoes(p)
    PROVE  EraseInv'
<1>1. /\ req[p].pc \notin {"idle", "record"} /\ late \subseteq late' /\ DbKept /\ erased' = erased /\ Ended(p)
      /\ req[p].pc = "unput" => <<req[p].h, req[p].c, "photo">> \in late'
  BY DEF CallFailsDoes
<1>2. MsgsSafe /\ MemsSafe /\ PhotosSafe /\ OthersWait(p) /\ req'[p].pc \notin {"records", "delete"}
  BY <1>1, DbKeptSafe, EndedIsApart
<1>3. \A k \in Hosts : BlobsNext(k) = Blobs(k) /\ RecordsNext(k) = Records(k)
  BY <1>1 DEF DbKept, PhotosKept, BlobsKept, RecordsKept
<1>4. BlobInvNext
  <2> SUFFICES ASSUME NEW k \in Hosts, NEW x \in Convs, x \in BlobsNext(k)
               PROVE  \/ x \in RecordsNext(k) \/ <<k, x, "photo">> \in late' \/ <<k, x, "landfill">> \in late'
                      \/ \E q \in Procs : req'[q].pc \in {"record", "unput"} /\ req'[q].h = k /\ req'[q].c = x
    BY DEF BlobInvNext
  <2>1. CASE \E q \in Procs : req[q].pc \in {"record", "unput"} /\ req[q].h = k /\ req[q].c = x
    <3>1. PICK q \in Procs : req[q].pc \in {"record", "unput"} /\ req[q].h = k /\ req[q].c = x
      BY <2>1
    <3>2. CASE q = p
      BY <1>1, <3>1, <3>2
    <3>3. CASE q # p
      BY <1>2, <3>1, <3>3 DEF OthersWait
    <3> QED BY <3>2, <3>3
  <2> QED BY <1>1, <1>3, <2>1 DEF EraseInv, BlobInv
<1> QED BY <1>1, <1>2, <1>4, EraseQuiet

LEMMA EraseKept ==
    ASSUME ConversationsAssumption, CvTypes, EraseInv, Effect
    PROVE  EraseInv'
<1>1. CASE \E c \in ids, u, v \in Users : SetMemberRoleDoes(u, v, c)
  BY <1>1, SetMemberRoleErase
<1>2. CASE \E p \in Procs : BeginsDoes(p)
  BY <1>2, BeginsErase
<1>3. CASE \E p \in Procs, c \in ids, u \in Users, delivered, read \in Nat : ReportDoes(p, u, c, delivered, read)
  BY <1>3, ReportErase
<1>4. CASE \E p \in Procs :
             \/ FindDirectDoes(p) \/ InsertConversationDoes(p) \/ InsertMembersDoes(p) \/ InsertMembersFailsDoes(p)
             \/ WinnerDoes(p) \/ ProvisionDoes(p) \/ ProvisionFailsDoes(p)
  BY <1>4, CreateErase
<1>5. CASE \E p \in Procs : JoinSeqDoes(p) \/ InsertMemberDoes(p) \/ RemoveMemberDoes(p)
  BY <1>5, RosterErase
<1>6. CASE \E p \in Procs : TakeNumberDoes(p) \/ StoreMessageDoes(p) \/ ForwardReceiptDoes(p)
  BY <1>6, MessageErase
<1>7. CASE \E p \in Procs : PutBlobDoes(p) \/ RecordAttachmentDoes(p) \/ RecordFailsDoes(p) \/ UnputBlobDoes(p)
  BY <1>7, UploadErase
<1>8. CASE \E p \in Procs : DeleteBlobsDoes(p) \/ DeleteRecordsDoes(p) \/ DeleteStepDoes(p) \/ DeleteMirrorDoes(p)
                            \/ CallFailsDoes(p)
  BY <1>8, DeleteBlobsErase, DeleteRecordsErase, DeleteStepErase, DeleteMirrorErase, CallFailsErase
<1> QED BY <1>1, <1>2, <1>3, <1>4, <1>5, <1>6, <1>7, <1>8 DEF Effect

LEMMA InitErase ==
    ASSUME ConversationsAssumption, Init
    PROVE  EraseInv
<1>1. InitDoes
  BY InitIs
<1>2. BlobInv
  BY <1>1 DEF InitDoes, BlobInv
<1>3. erased = {} /\ \A p \in Procs : req[p].pc = "idle"
  BY IdleForwardsNothing DEF Init
<1> QED BY <1>2, <1>3 DEF EraseInv

LEMMA ErasedIsEmpty ==
    ASSUME CvTypes, EraseInv
    PROVE  NothingOldSurvivesDelete
<1> SUFFICES ASSUME NEW h \in Hosts, NEW c \in ids, <<h, c>> \in erased
             PROVE  /\ <<h, c, "message">> \in late \/ \A m \in db[h].msgs : m.conv # c
                    /\ <<h, c, "member">> \in late \/ db[h].members[c] = NoMembers
                    /\ \/ {<<h, c, "photo">>, <<h, c, "landfill">>} \cap late # {}
                       \/ c \notin db[h].records \cup db[h].blobs
  BY DEF NothingOldSurvivesDelete
<1>1. c \in Convs
  BY DEF CvTypes, IdsInOrder
<1>2. NoMessages(h, c) /\ NoMemberRows(h, c) /\ NoBlob(h, c) /\ NoRecord(h, c)
  BY <1>1 DEF EraseInv
<1>3. db[h].members[c] \in [Users -> ConversationMember \cup {None}]
  BY <1>1 DEF CvTypes, DbTyped, Database
<1>4. (\A u \in Users : db[h].members[c][u] = None) => db[h].members[c] = NoMembers
  BY <1>3 DEF NoMembers
<1> QED BY <1>2, <1>4 DEF NoMessages, NoMemberRows, NoBlob, NoRecord, Msgs, Mem, Blobs, Records

\* When deleteConversation has run to the end on a host, no message, membership, record or
\* photo of the conversation from before is left there: what is, was being written as it
\* was deleted, or after, or is a photo whose delete failed and was only logged
\* (deleteConversation, deleteConversationAttachments,
\* DeleteConversation of both stores, and the uploads and writes that race it).
THEOREM DeleteLeavesNothingOld == Spec => []NothingOldSurvivesDelete
<1>1. Init => CvTypes /\ EraseInv
  BY ConversationsAssumption, InitTypes, InitErase
<1>2. CvTypes /\ EraseInv /\ [Next]_vars => (CvTypes /\ EraseInv)'
  <2>1. CvTypes /\ EraseInv /\ Next => (CvTypes /\ EraseInv)'
    BY ConversationsAssumption, NextDoes, TypesKept, EraseKept
  <2>2. CvTypes /\ EraseInv /\ UNCHANGED vars => EraseInv'
    BY DEF EraseInv, BlobInv, Emptied, NoMessages, NoMemberRows, NoBlob, NoRecord, Msgs, Mem, Blobs, Records, vars, ghosts
  <2> QED BY <2>1, <2>2, StutterTypes
<1>3. CvTypes /\ EraseInv => NothingOldSurvivesDelete
  BY ErasedIsEmpty
<1> QED BY <1>1, <1>2, <1>3, PTL DEF Spec

(***************************************************************************)
(* Where a conversation is from                                            *)
(***************************************************************************)
\* The request that made the conversation, still at it or undoing it.
Creating(r) == r.pc \in {"members", "provision"} /\ r.op \in {"direct", "group"}
Undoing(r) == r.pc = "delete" /\ r.op = "undo"
Creates(r) == Creating(r) \/ Undoing(r)
Adds(r) == r.pc # "idle" /\ r.op = "add"
PairOf(r) == IF r.op = "group" THEN None ELSE {r.u, r.v}

\* Every row, request and answer is of the conversation's one hub H[c] and pair P[c].
RowFits(row, c, H, P) ==
    row # None => row.hub = H[c] /\ row.pair = P[c] /\ (row.kind = "group" <=> P[c] = None)
ReqFits(r, H, P) ==
    /\ Creates(r) => H[r.c] = r.h /\ P[r.c] = PairOf(r)
    /\ Adds(r) => P[r.c] = None /\ (Home[r.v] # r.h => H[r.c] = r.h)
    /\ r.pc = "provision" => Home[r.v] # r.h
ToldFits(u, c, H, P) == IF P[c] = None THEN Home[u] = H[c] ELSE u \in P[c]

Origins == [Convs -> Hosts] \X [Convs -> Pairs \cup {None}]
Agree(H, P) ==
    /\ \A h \in Hosts, c \in Convs : RowFits(Row(h, c), c, H, P)
    /\ \A p \in Procs : ReqFits(req[p], H, P)
    /\ \A u \in Users, c \in ids : <<u, c>> \in told => ToldFits(u, c, H, P)
AgreeNext(H, P) ==
    /\ \A h \in Hosts, c \in Convs : RowFits(RowNext(h, c), c, H, P)
    /\ \A p \in Procs : ReqFits(req'[p], H, P)
    /\ \A u \in Users, c \in ids' : <<u, c>> \in told' => ToldFits(u, c, H, P)
OneCreator == \A p, q \in Procs : Creates(req[p]) /\ Creates(req[q]) /\ req[p].c = req[q].c => p = q

LEMMA AgreeMade ==
    ASSUME NEW H, NEW P, AgreeNext(H, P)
    PROVE  Agree(H, P)'
<1>1. \A h \in Hosts, c \in Convs : RowFits(Row(h, c), c, H, P)'
  BY DEF AgreeNext, RowFits, Row, RowNext
<1>2. \A p \in Procs : ReqFits(req[p], H, P)'
  BY DEF AgreeNext, ReqFits, Creates, Creating, Undoing, Adds, PairOf
<1>3. \A u \in Users, c \in ids' : <<u, c>> \in told' => ToldFits(u, c, H, P)'
  BY DEF AgreeNext, ToldFits
<1> QED BY <1>1, <1>2, <1>3 DEF Agree

\* The request goes on with what it had.
Follows(s, r) ==
    /\ Creates(s) => /\ Creates(r) /\ s.c = r.c /\ s.h = r.h /\ PairOf(s) = PairOf(r)
    /\ Adds(s) => Adds(r) /\ s.c = r.c /\ s.h = r.h /\ s.v = r.v
    /\ s.pc = "provision" => Home[s.v] # s.h

LEMMA FollowsFits ==
    ASSUME NEW H, NEW P, NEW r, NEW s, ReqFits(r, H, P), Follows(s, r)
    PROVE  ReqFits(s, H, P)
BY DEF Follows, ReqFits

LEMMA EndedFollows ==
    ASSUME NEW p \in Procs, Ended(p)
    PROVE  OthersWait(p) /\ Follows(req'[p], req[p])
<1>1. req'[p].pc = "idle" /\ OthersWait(p)
  BY IdleForwardsNothing DEF Ended
<1> QED BY <1>1 DEF Follows, Creates, Creating, Undoing, Adds

LEMMA SameFollows ==
    ASSUME NEW r, NEW s, Same(s, r), r.pc # "idle", s.pc \notin {"members", "provision", "delete"}
    PROVE  Follows(s, r)
BY DEF Same, Follows, Creates, Creating, Undoing, Adds

LEMMA MovedFollows ==
    ASSUME NEW p \in Procs, NEW pc, Moved(p, pc) \/ MovedWith(p, pc, req'[p].arg), req[p].pc # "idle",
           pc \notin {"members", "provision", "delete"}
    PROVE  OthersWait(p) /\ Follows(req'[p], req[p])
BY SameFollows DEF Moved, MovedWith

LEMMA AddedFollows ==
    ASSUME CvTypes, NEW p \in Procs, req[p].pc \in {"joinSeq", "insertMember"}, Moved(p, AfterAdd(p))
    PROVE  OthersWait(p) /\ Follows(req'[p], req[p])
<1>1. req[p].op = "add"
  BY DEF CvTypes, InOrder
<1>2. CASE AfterAdd(p) = "number"
  BY <1>2, MovedFollows
<1>3. CASE AfterAdd(p) = "provision" /\ Home[req[p].v] # req[p].h
  BY <1>1, <1>3 DEF Moved, Same, Follows, Creates, Creating, Undoing, Adds
<1> QED BY <1>2, <1>3 DEF AfterAdd

LEMMA DeletingFollows ==
    ASSUME NEW p \in Procs, MovedWith(p, "delete", req[p].arg), req[p].pc = "delete" \/ req[p].op = "delete"
    PROVE  OthersWait(p) /\ Follows(req'[p], req[p])
<1>1. OthersWait(p) /\ req'[p].pc = "delete" /\ Same(req'[p], req[p])
  BY DEF MovedWith
<1> QED BY <1>1 DEF Same, Follows, Creates, Creating, Undoing, Adds, PairOf

LEMMA AfterCreateFollows ==
    ASSUME NEW p \in Procs, req[p].pc = "members", AfterCreateDoes(p, req[p].c)
    PROVE  OthersWait(p) /\ Follows(req'[p], req[p])
<1>1. CASE Ended(p)
  BY <1>1, EndedFollows
<1>2. CASE Created(p, "provision", req[p].c) /\ req[p].op = "direct" /\ Home[req[p].v] # req[p].h
  BY <1>2 DEF Created, Follows, Creates, Creating, Undoing, Adds, PairOf
<1> QED BY <1>1, <1>2 DEF AfterCreateDoes

LEMMA UndoneFollows ==
    ASSUME CvTypes, NEW p \in Procs, req[p].pc = "provision", req[p].op = "direct", Undone(p)
    PROVE  OthersWait(p) /\ Follows(req'[p], req[p])
BY DEF Undone, Follows, Creates, Creating, Undoing, Adds, PairOf

\* Everything but a request that begins, and a conversation that is made.
Follow(p) == OthersWait(p) /\ Follows(req'[p], req[p])

LEMMA CreateFollows ==
    ASSUME CvTypes, NEW p \in Procs,
           FindDirectDoes(p) \/ InsertMembersDoes(p) \/ InsertMembersFailsDoes(p) \/ WinnerDoes(p) \/ ProvisionDoes(p)
           \/ ProvisionFailsDoes(p)
    PROVE  Follow(p)
<1>1. CASE Ended(p)
  BY <1>1, EndedFollows DEF Follow
<1>2. CASE FindDirectDoes(p) \/ WinnerDoes(p)
  BY <1>1, <1>2, MovedFollows DEF FindDirectDoes, WinnerDoes, Follow
<1>3. CASE InsertMembersDoes(p)
  BY <1>3, AfterCreateFollows DEF InsertMembersDoes, Follow
<1>4. CASE InsertMembersFailsDoes(p)
  BY <1>1, <1>4, MovedFollows DEF InsertMembersFailsDoes, Follow
<1>5. CASE ProvisionDoes(p)
  BY <1>1, <1>5, MovedFollows DEF ProvisionDoes, Follow
<1>6. CASE ProvisionFailsDoes(p)
  BY <1>1, <1>6, UndoneFollows DEF ProvisionFailsDoes, Follow
<1> QED BY <1>2, <1>3, <1>4, <1>5, <1>6

LEMMA RosterFollows ==
    ASSUME CvTypes, NEW p \in Procs,
           \/ JoinSeqDoes(p) \/ InsertMemberDoes(p) \/ RemoveMemberDoes(p)
           \/ TakeNumberDoes(p) \/ StoreMessageDoes(p) \/ ForwardReceiptDoes(p)
    PROVE  Follow(p)
<1>1. CASE Ended(p)
  BY <1>1, EndedFollows DEF Follow
<1>2. CASE JoinSeqDoes(p)
  <2>1. req[p].pc = "joinSeq" /\ (Moved(p, AfterAdd(p)) \/ \E n : MovedWith(p, "insertMember", n))
    BY <1>2 DEF JoinSeqDoes
  <2>2. CASE Moved(p, AfterAdd(p))
    BY <2>1, <2>2, AddedFollows DEF Follow
  <2>3. CASE \E n : MovedWith(p, "insertMember", n)
    <3>1. MovedWith(p, "insertMember", req'[p].arg)
      BY <2>3 DEF MovedWith
    <3> QED BY <2>1, <3>1, MovedFollows DEF Follow
  <2> QED BY <2>1, <2>2, <2>3
<1>3. CASE InsertMemberDoes(p)
  BY <1>3, AddedFollows DEF InsertMemberDoes, Follow
<1>4. CASE RemoveMemberDoes(p)
  BY <1>1, <1>4, MovedFollows DEF RemoveMemberDoes, Follow
<1>5. CASE TakeNumberDoes(p)
  <2>1. CASE \E n : MovedWith(p, "store", n)
    <3>1. MovedWith(p, "store", req'[p].arg)
      BY <2>1 DEF MovedWith
    <3> QED BY <1>5, <3>1, MovedFollows DEF TakeNumberDoes, Follow
  <2> QED BY <1>1, <1>5, <2>1 DEF TakeNumberDoes
<1>6. CASE StoreMessageDoes(p) \/ ForwardReceiptDoes(p)
  BY <1>1, <1>6 DEF StoreMessageDoes, ForwardReceiptDoes
<1> QED BY <1>2, <1>3, <1>4, <1>5, <1>6

LEMMA DeleteFollows ==
    ASSUME CvTypes, NEW p \in Procs,
           \/ PutBlobDoes(p) \/ RecordAttachmentDoes(p) \/ RecordFailsDoes(p) \/ UnputBlobDoes(p)
           \/ DeleteBlobsDoes(p) \/ DeleteRecordsDoes(p) \/ DeleteStepDoes(p) \/ DeleteMirrorDoes(p) \/ CallFailsDoes(p)
    PROVE  Follow(p)
<1>1. CASE Ended(p)
  BY <1>1, EndedFollows DEF Follow
<1>2. CASE PutBlobDoes(p) \/ RecordFailsDoes(p) \/ DeleteBlobsDoes(p)
  BY <1>2, MovedFollows DEF PutBlobDoes, RecordFailsDoes, DeleteBlobsDoes, Follow
<1>3. CASE RecordAttachmentDoes(p) \/ UnputBlobDoes(p) \/ DeleteMirrorDoes(p) \/ CallFailsDoes(p)
  BY <1>1, <1>3 DEF RecordAttachmentDoes, UnputBlobDoes, DeleteMirrorDoes, CallFailsDoes
<1>4. CASE DeleteRecordsDoes(p)
  <2>1. req[p].op = "delete"
    BY <1>4 DEF DeleteRecordsDoes, CvTypes, InOrder
  <2> QED BY <1>4, <2>1, DeletingFollows DEF DeleteRecordsDoes, Follow
<1>5. CASE DeleteStepDoes(p)
  BY <1>1, <1>5, DeletingFollows, MovedFollows DEF DeleteStepDoes, DeletedLast, Follow
<1> QED BY <1>2, <1>3, <1>4, <1>5

\* No row but what is left of one that was there.
RowsFewer == \A k \in Hosts, x \in Convs : RowNext(k, x) # None =>
    /\ Row(k, x) # None /\ RowNext(k, x).kind = Row(k, x).kind /\ RowNext(k, x).pair = Row(k, x).pair
    /\ RowNext(k, x).hub = Row(k, x).hub

LEMMA KeptIsFewerRows ==
    ASSUME RowsKept \/ RowsAlike \/ \E h \in Hosts, c \in Convs : RowSet(h, c, None)
    PROVE  RowsFewer
BY DEF RowsKept, RowsAlike, RowSet, RowsFewer

LEMMA FewerFits ==
    ASSUME NEW H, NEW P, Agree(H, P), RowsFewer
    PROVE  \A h \in Hosts, c \in Convs : RowFits(RowNext(h, c), c, H, P)
BY DEF Agree, RowsFewer, RowFits

LEMMA AgreeStep ==
    ASSUME NEW H, NEW P, Agree(H, P), NEW p \in Procs, OthersWait(p), ReqFits(req'[p], H, P), ids' = ids,
           \A h \in Hosts, c \in Convs : RowFits(RowNext(h, c), c, H, P),
           \A u \in Users, c \in ids : <<u, c>> \in told' => <<u, c>> \in told \/ ToldFits(u, c, H, P)
    PROVE  AgreeNext(H, P)
<1>1. \A q \in Procs : ReqFits(req'[q], H, P)
  BY DEF Agree, OthersWait
<1>2. \A u \in Users, c \in ids' : <<u, c>> \in told' => ToldFits(u, c, H, P)
  BY DEF Agree
<1> QED BY <1>1, <1>2 DEF AgreeNext

LEMMA AgreeFollows ==
    ASSUME NEW H, NEW P, Agree(H, P), NEW p \in Procs, Follow(p), RowsFewer, ids' = ids,
           \A u \in Users, c \in ids : <<u, c>> \in told' => <<u, c>> \in told \/ ToldFits(u, c, H, P)
    PROVE  AgreeNext(H, P)
<1>1. OthersWait(p) /\ ReqFits(req'[p], H, P)
  BY FollowsFits DEF Follow, Agree
<1> QED BY <1>1, FewerFits, AgreeStep

LEMMA SetMemberRoleAgrees ==
    ASSUME NEW H, NEW P, Agree(H, P), NEW c \in ids, NEW u \in Users, NEW v \in Users, SetMemberRoleDoes(u, v, c)
    PROVE  AgreeNext(H, P)
<1>1. req' = req /\ ids' = ids /\ told' = told /\ RowsKept
  BY DEF SetMemberRoleDoes
<1>2. \A h \in Hosts, x \in Convs : RowFits(RowNext(h, x), x, H, P)
  BY <1>1, KeptIsFewerRows, FewerFits
<1> QED BY <1>1, <1>2 DEF Agree, AgreeNext

LEMMA BeginsAgree ==
    ASSUME ConversationsAssumption, CvTypes, NEW H, NEW P, Agree(H, P), NEW p \in Procs, BeginsDoes(p)
    PROVE  AgreeNext(H, P)
<1>1. PICK r : BeginsAny(r) /\ BeginDoes(p, r)
  BY DEF BeginsDoes
<1>2. req'[p] = r /\ OthersWait(p) /\ ids' = ids /\ told' = told /\ RowsKept
  BY <1>1 DEF BeginDoes, DbKept
<1>3. r.pc \notin {"members", "provision", "delete"}
  BY <1>1 DEF BeginsAny, BeginsBy, BeginsGroup, BeginsDirect, BeginsAdd, BeginsRemove, BeginsPost, BeginsUpload, BeginsDelete, NewAt
<1>4. Adds(r) => P[r.c] = None /\ (Home[r.v] # r.h => H[r.c] = r.h)
  <2>1. CASE \E u \in Users, c \in ids, v \in Users : BeginsAdd(r, u, v, c)
    <3>1. PICK u \in Users, c \in ids, v \in Users : BeginsAdd(r, u, v, c)
      BY <2>1
    <3>2. r.c = c /\ r.v = v /\ r.h = Home[u] /\ Home[u] \in Hosts /\ c \in Convs
      BY <3>1 DEF BeginsAdd, NewAt, ConversationsAssumption, CvTypes, IdsInOrder
    <3>3. RowFits(Row(Home[u], c), c, H, P)
      BY <3>2 DEF Agree
    <3> QED BY <3>1, <3>2, <3>3 DEF BeginsAdd, RowFits
  <2>2. CASE ~\E u \in Users, c \in ids, v \in Users : BeginsAdd(r, u, v, c)
    <3>1. r.op # "add"
      BY <1>1, <2>2 DEF BeginsAny, BeginsBy, BeginsGroup, BeginsDirect, BeginsRemove, BeginsPost, BeginsUpload, BeginsDelete, NewAt
    <3> QED BY <3>1 DEF Adds
  <2> QED BY <2>1, <2>2
<1>5. ReqFits(r, H, P)
  BY <1>3, <1>4 DEF ReqFits, Creates, Creating, Undoing
<1>6. \A h \in Hosts, c \in Convs : RowFits(RowNext(h, c), c, H, P)
  BY <1>2, KeptIsFewerRows, FewerFits
<1> QED BY <1>2, <1>5, <1>6, AgreeStep

LEMMA ReportAgrees ==
    ASSUME NEW H, NEW P, Agree(H, P), NEW p \in Procs, NEW c \in ids, NEW u \in Users,
           NEW delivered \in Nat, NEW read \in Nat, ReportDoes(p, u, c, delivered, read)
    PROVE  AgreeNext(H, P)
<1>1. OthersWait(p) /\ ids' = ids /\ told' = told /\ RowsKept
  BY DEF ReportDoes, ReceiptDoes
<1>2. req'[p].pc = "forward" /\ req'[p].op = "receipt"
  BY DEF ReportDoes, NewRequest
<1>3. ReqFits(req'[p], H, P)
  BY <1>2 DEF ReqFits, Creates, Creating, Undoing, Adds
<1>4. \A h \in Hosts, x \in Convs : RowFits(RowNext(h, x), x, H, P)
  BY <1>1, KeptIsFewerRows, FewerFits
<1> QED BY <1>1, <1>3, <1>4, AgreeStep

\* Who is answered is of the conversation.
LEMMA FoundFits ==
    ASSUME ConversationsAssumption, CvTypes, NEW H, NEW P, Agree(H, P), NEW p \in Procs, req[p].pc \in {"find", "winner"},
           NEW c \in Convs, Row(req[p].h, c) # None, Row(req[p].h, c).pair = {req[p].u, req[p].v}
    PROVE  ToldFits(req[p].u, c, H, P)
<1>1. req[p].h \in Hosts /\ req[p].u \in Users /\ req[p].v \in Users
  BY AtWork DEF CvTypes, InOrder
<1>2. P[c] = {req[p].u, req[p].v}
  BY <1>1 DEF Agree, RowFits
<1>3. {req[p].u, req[p].v} \in Pairs
  BY <1>1 DEF Pairs
<1>4. P[c] # None
  BY <1>2, <1>3 DEF ConversationsAssumption
<1> QED BY <1>2, <1>4 DEF ToldFits

LEMMA CreatorFits ==
    ASSUME ConversationsAssumption, CvTypes, NEW H, NEW P, NEW p \in Procs, req[p].pc \in {"members", "provision", "insert"},
           req[p].op \in {"direct", "group"}, NEW c, H[c] = req[p].h, P[c] = PairOf(req[p])
    PROVE  ToldFits(req[p].u, c, H, P)
<1>1. req[p].h = Home[req[p].u] /\ req[p].u \in Users
  BY AtWork
<1>2. CASE req[p].op = "group"
  BY <1>1, <1>2 DEF PairOf, ToldFits
<1>3. CASE req[p].op = "direct"
  <2>1. req[p].v \in Users
    BY <1>3, AtWork
  <2>2. P[c] = {req[p].u, req[p].v}
    BY <1>3 DEF PairOf
  <2>3. {req[p].u, req[p].v} \in Pairs
    BY <1>1, <2>1 DEF Pairs
  <2>4. P[c] # None
    BY <2>2, <2>3 DEF ConversationsAssumption
  <2> QED BY <2>2, <2>4 DEF ToldFits
<1> QED BY <1>2, <1>3

LEMMA FindAgrees ==
    ASSUME ConversationsAssumption, CvTypes, NEW H, NEW P, Agree(H, P), NEW p \in Procs, FindDirectDoes(p) \/ WinnerDoes(p)
    PROVE  AgreeNext(H, P)
<1>1. RowsFewer /\ ids' = ids /\ req[p].pc \in {"find", "winner"}
  BY KeptIsFewerRows DEF FindDirectDoes, WinnerDoes, DbKept
<1>2. ASSUME NEW u \in Users, NEW c \in ids, <<u, c>> \in told', <<u, c>> \notin told
      PROVE  ToldFits(u, c, H, P)
  <2>1. PICK x \in Convs : /\ Row(req[p].h, x) # None /\ Row(req[p].h, x).pair = {req[p].u, req[p].v}
                           /\ told' = told \cup {<<req[p].u, x>>}
    BY <1>2 DEF FindDirectDoes, WinnerDoes
  <2>2. u = req[p].u /\ c = x
    BY <1>2, <2>1
  <2> QED BY <1>1, <2>1, <2>2, FoundFits
<1> QED BY <1>1, <1>2, CreateFollows, AgreeFollows

LEMMA InsertMembersAgrees ==
    ASSUME ConversationsAssumption, CvTypes, NEW H, NEW P, Agree(H, P), NEW p \in Procs,
           InsertMembersDoes(p) \/ InsertMembersFailsDoes(p)
    PROVE  AgreeNext(H, P)
<1>1. RowsFewer /\ ids' = ids /\ req[p].pc = "members"
  BY KeptIsFewerRows DEF InsertMembersDoes, InsertMembersFailsDoes, DbKept
<1>2. req[p].op \in {"direct", "group"}
  BY <1>1 DEF CvTypes, InOrder
<1>3. H[req[p].c] = req[p].h /\ P[req[p].c] = PairOf(req[p])
  BY <1>1, <1>2 DEF Agree, ReqFits, Creates, Creating
<1>4. ToldFits(req[p].u, req[p].c, H, P)
  BY <1>1, <1>2, <1>3, CreatorFits
<1>5. told' = told \/ told' = told \cup {<<req[p].u, req[p].c>>}
  BY DEF InsertMembersDoes, InsertMembersFailsDoes, AfterCreateDoes
<1>6. \A u \in Users, c \in ids : <<u, c>> \in told' => <<u, c>> \in told \/ ToldFits(u, c, H, P)
  BY <1>4, <1>5
<1> QED BY <1>1, <1>6, CreateFollows, AgreeFollows

LEMMA ProvisionAgrees ==
    ASSUME ConversationsAssumption, CvTypes, NEW H, NEW P, Agree(H, P), NEW p \in Procs,
           ProvisionDoes(p) \/ ProvisionFailsDoes(p)
    PROVE  AgreeNext(H, P)
<1>1. ids' = ids /\ req[p].pc = "provision"
  BY DEF ProvisionDoes, ProvisionFailsDoes
<1>2. /\ req[p] \in Requests /\ req[p].op \in {"direct", "add"} /\ req[p].u \in Users /\ req[p].v \in Users
      /\ req[p].h \in Hosts /\ req[p].c \in Convs
  BY <1>1, AtWork DEF CvTypes, InOrder
<1>3. ReqFits(req[p], H, P)
  BY DEF Agree
<1>4. H[req[p].c] = req[p].h /\ P[req[p].c] = IF req[p].op = "add" THEN None ELSE {req[p].u, req[p].v}
  BY <1>1, <1>2, <1>3 DEF ReqFits, Creates, Creating, Adds, PairOf
<1>5. RowFits(SpecRow(req[p]), req[p].c, H, P)
  <2>1. {req[p].u, req[p].v} # None
    BY <1>2 DEF ConversationsAssumption, Pairs
  <2> QED BY <1>2, <1>4, <2>1, SpecRowIs DEF RowFits
<1>6. \A h \in Hosts, c \in Convs : RowFits(RowNext(h, c), c, H, P)
  <2>1. CASE DbKept
    BY <2>1, KeptIsFewerRows, FewerFits DEF DbKept
  <2>2. CASE RowSet(Home[req[p].v], req[p].c, SpecRow(req[p]))
    BY <1>5, <2>2 DEF RowSet, Agree
  <2> QED BY <2>1, <2>2 DEF ProvisionDoes, ProvisionFailsDoes, MirrorDoes
<1>7. told' = told \/ (told' = told \cup {<<req[p].u, req[p].c>>} /\ req[p].op = "direct")
  BY DEF ProvisionDoes, ProvisionFailsDoes
<1>8. req[p].op = "direct" => ToldFits(req[p].u, req[p].c, H, P)
  <2>1. req[p].op = "direct" => P[req[p].c] = PairOf(req[p])
    BY <1>4 DEF PairOf
  <2> QED BY <1>1, <1>4, <2>1, CreatorFits
<1>9. \A u \in Users, c \in ids : <<u, c>> \in told' => <<u, c>> \in told \/ ToldFits(u, c, H, P)
  BY <1>7, <1>8
<1>10. OthersWait(p) /\ ReqFits(req'[p], H, P)
  BY <1>3, CreateFollows, FollowsFits DEF Follow
<1> QED BY <1>1, <1>6, <1>9, <1>10, AgreeStep

LEMMA RestAgrees ==
    ASSUME ConversationsAssumption, CvTypes, NEW H, NEW P, Agree(H, P), NEW p \in Procs,
           \/ JoinSeqDoes(p) \/ InsertMemberDoes(p) \/ RemoveMemberDoes(p)
           \/ TakeNumberDoes(p) \/ StoreMessageDoes(p) \/ ForwardReceiptDoes(p)
           \/ PutBlobDoes(p) \/ RecordAttachmentDoes(p) \/ RecordFailsDoes(p) \/ UnputBlobDoes(p)
           \/ DeleteBlobsDoes(p) \/ DeleteRecordsDoes(p) \/ DeleteStepDoes(p) \/ DeleteMirrorDoes(p) \/ CallFailsDoes(p)
    PROVE  AgreeNext(H, P)
<1>1. ids' = ids /\ told' = told
  BY DEF JoinSeqDoes, InsertMemberDoes, RemoveMemberDoes, TakeNumberDoes, StoreMessageDoes, ForwardReceiptDoes, PutBlobDoes,
         RecordAttachmentDoes, RecordFailsDoes, UnputBlobDoes, DeleteBlobsDoes, DeleteRecordsDoes, DeleteStepDoes,
         DeleteMirrorDoes, CallFailsDoes
<1>2. Follow(p)
  BY RosterFollows, DeleteFollows
<1> SUFFICES RowsFewer
  BY <1>1, <1>2, AgreeFollows
<1>3. CASE RowsKept \/ RowsAlike
  BY <1>3, KeptIsFewerRows
<1>4. CASE DeleteStepDoes(p)
  <2>1. req[p].h \in Hosts /\ req[p].c \in Convs
    BY <1>4, AtWork DEF DeleteStepDoes
  <2>2. RowsKept \/ RowSet(req[p].h, req[p].c, None)
    BY <1>4 DEF DeleteStepDoes
  <2> QED BY <2>1, <2>2, KeptIsFewerRows
<1>5. CASE DeleteMirrorDoes(p)
  <2>1. req[p].c \in Convs
    BY <1>5, AtWork DEF DeleteMirrorDoes
  <2>2. \A k \in Hosts : HostKept(k) \/ HostCleared(k, req[p].c)
    BY <1>5 DEF DeleteMirrorDoes
  <2> QED BY <2>1, <2>2 DEF HostKept, HostCleared, RowsFewer
<1>6. CASE ~DeleteStepDoes(p) /\ ~DeleteMirrorDoes(p)
  BY <1>3, <1>6 DEF JoinSeqDoes, JoinDoes, InsertMemberDoes, RemoveMemberDoes, TakeNumberDoes, StoreMessageDoes, ForwardReceiptDoes,
         PutBlobDoes, RecordAttachmentDoes, RecordFailsDoes, UnputBlobDoes, DeleteBlobsDoes, DeleteRecordsDoes, CallFailsDoes,
         DbKept
<1> QED BY <1>4, <1>5, <1>6

LEMMA KnownRequest ==
    ASSUME CvTypes, NEW q \in Procs, Creates(req[q]) \/ Adds(req[q])
    PROVE  req[q].c \in ids
<1>1. InOrder(req[q])
  BY DEF CvTypes
<1> QED BY <1>1 DEF InOrder, Creates, Creating, Undoing, Adds

LEMMA KnownTold ==
    ASSUME CvTypes, NEW u, NEW c, <<u, c>> \in told
    PROVE  c \in ids
BY DEF CvTypes

\* The origin of a conversation that is being made.
LEMMA NewAgrees ==
    ASSUME ConversationsAssumption, CvTypes, NEW H \in [Convs -> Hosts], NEW P \in [Convs -> Pairs \cup {None}], Agree(H, P),
           NEW p \in Procs, req[p].pc = "insert", NEW c \in Convs, c \notin ids, ids' = ids \cup {c},
           RowSet(req[p].h, c, NewRow(req[p])), (Created(p, "members", c) /\ told' = told) \/ AfterCreateDoes(p, c)
    PROVE  \E G \in [Convs -> Hosts], Q \in [Convs -> Pairs \cup {None}] :
              AgreeNext(G, Q) /\ \A x \in ids : G[x] = H[x] /\ Q[x] = P[x]
<1>1. /\ req[p] \in Requests /\ req[p].op \in {"direct", "group"} /\ req[p].u \in Users /\ req[p].h \in Hosts
      /\ (req[p].op = "direct" => req[p].v \in Users)
  BY AtWork DEF CvTypes, InOrder
<1>2. PICK h \in Hosts, pair \in Pairs \cup {None} : h = req[p].h /\ pair = PairOf(req[p])
  <2>1. PairOf(req[p]) \in Pairs \cup {None}
    <3>1. CASE req[p].op = "group"
      BY <3>1 DEF PairOf
    <3>2. CASE req[p].op = "direct"
      BY <1>1, <3>2 DEF PairOf, Pairs
    <3> QED BY <1>1, <3>1, <3>2
  <2> QED BY <1>1, <2>1
<1>3. PICK G : G = [H EXCEPT ![c] = h]
  OBVIOUS
<1>4. PICK Q : Q = [P EXCEPT ![c] = pair]
  OBVIOUS
<1>5. G \in [Convs -> Hosts] /\ G[c] = h /\ \A x \in Convs : x # c => G[x] = H[x]
  BY <1>3
<1>6. Q \in [Convs -> Pairs \cup {None}] /\ Q[c] = pair /\ \A x \in Convs : x # c => Q[x] = P[x]
  BY <1>4
<1>7. \A x \in ids : x \in Convs /\ x # c /\ G[x] = H[x] /\ Q[x] = P[x]
  BY <1>5, <1>6 DEF CvTypes, IdsInOrder
<1>8. pair = None <=> req[p].op = "group"
  <2>1. CASE req[p].op = "group"
    BY <1>2, <2>1 DEF PairOf
  <2>2. CASE req[p].op = "direct"
    <3>1. pair = {req[p].u, req[p].v} /\ pair \in Pairs
      BY <1>1, <1>2, <2>2 DEF PairOf, Pairs
    <3> QED BY <2>2, <3>1 DEF ConversationsAssumption
  <2> QED BY <1>1, <2>1, <2>2
<1>9. RowFits(NewRow(req[p]), c, G, Q)
  <2>1. /\ NewRow(req[p]).hub = h /\ NewRow(req[p]).pair = pair
        /\ NewRow(req[p]).kind = "group" <=> req[p].op = "group"
    BY <1>1, <1>2, NewRowIs DEF PairOf
  <2> QED BY <1>5, <1>6, <1>8, <2>1 DEF RowFits
<1>10. \A k \in Hosts, x \in Convs : RowFits(RowNext(k, x), x, G, Q)
  <2> SUFFICES ASSUME NEW k \in Hosts, NEW x \in Convs
               PROVE  RowFits(RowNext(k, x), x, G, Q)
    OBVIOUS
  <2>1. CASE k = req[p].h /\ x = c
    BY <1>9, <2>1 DEF RowSet
  <2>2. CASE ~(k = req[p].h /\ x = c)
    <3>1. RowNext(k, x) = Row(k, x) /\ RowFits(Row(k, x), x, H, P)
      BY <2>2 DEF RowSet, Agree
    <3>2. Row(k, x) # None => x \in ids
      BY DEF CvTypes, RowsKnown
    <3> QED BY <1>7, <3>1, <3>2 DEF RowFits
  <2> QED BY <2>1, <2>2
<1>11. \A q \in Procs : ReqFits(req'[q], G, Q)
  <2> SUFFICES ASSUME NEW q \in Procs PROVE ReqFits(req'[q], G, Q)
    OBVIOUS
  <2>1. CASE q # p
    <3>1. req'[q] = req[q]
      BY <2>1 DEF AfterCreateDoes, Created, Ended, OthersWait
    <3>2. ReqFits(req[q], H, P)
      BY DEF Agree
    <3>3. Creates(req[q]) \/ Adds(req[q]) => G[req[q].c] = H[req[q].c] /\ Q[req[q].c] = P[req[q].c]
      BY <1>7, KnownRequest
    <3> QED BY <3>1, <3>2, <3>3 DEF ReqFits
  <2>2. CASE q = p
    <3>1. CASE Ended(p)
      <4>1. req'[p].pc = "idle"
        BY <3>1, IdleForwardsNothing DEF Ended
      <4> QED BY <2>2, <4>1 DEF ReqFits, Creates, Creating, Undoing, Adds
    <3>2. CASE Created(p, "members", c) \/ (Created(p, "provision", c) /\ Home[req[p].v] # req[p].h)
      <4>1. /\ req'[p].c = c /\ req'[p].h = h /\ PairOf(req'[p]) = pair /\ req'[p].op = req[p].op
            /\ req'[p].pc = "provision" => Home[req'[p].v] # req'[p].h
        BY <1>2, <3>2 DEF Created, PairOf
      <4>2. ~Adds(req'[p])
        BY <1>1, <4>1 DEF Adds
      <4> QED BY <1>5, <1>6, <2>2, <4>1, <4>2 DEF ReqFits
    <3> QED BY <3>1, <3>2 DEF AfterCreateDoes
  <2> QED BY <2>1, <2>2
<1>12. ToldFits(req[p].u, c, G, Q)
  BY <1>1, <1>2, <1>5, <1>6, CreatorFits
<1>13. \A u \in Users, x \in ids' : <<u, x>> \in told' => ToldFits(u, x, G, Q)
  <2> SUFFICES ASSUME NEW u \in Users, NEW x \in ids', <<u, x>> \in told' PROVE ToldFits(u, x, G, Q)
    OBVIOUS
  <2>1. CASE <<u, x>> \in told
    <3>1. x \in ids /\ ToldFits(u, x, H, P)
      BY <2>1, KnownTold DEF Agree
    <3> QED BY <1>7, <3>1 DEF ToldFits
  <2>2. CASE <<u, x>> \notin told
    <3>1. <<u, x>> = <<req[p].u, c>>
      BY <2>2 DEF AfterCreateDoes
    <3>2. u = req[p].u /\ x = c
      BY <3>1
    <3> QED BY <1>12, <3>2
  <2> QED BY <2>1, <2>2
<1>14. AgreeNext(G, Q)
  BY <1>10, <1>11, <1>13 DEF AgreeNext
<1> QED BY <1>5, <1>6, <1>7, <1>14

LEMMA AgreeKept ==
    ASSUME ConversationsAssumption, CvTypes, NEW H \in [Convs -> Hosts], NEW P \in [Convs -> Pairs \cup {None}], Agree(H, P), Effect
    PROVE  \E G \in [Convs -> Hosts], Q \in [Convs -> Pairs \cup {None}] :
              AgreeNext(G, Q) /\ \A x \in ids : G[x] = H[x] /\ Q[x] = P[x]
<1>1. CASE AgreeNext(H, P)
  BY <1>1
<1>2. CASE \E c \in ids, u, v \in Users : SetMemberRoleDoes(u, v, c)
  BY <1>1, <1>2, SetMemberRoleAgrees
<1>3. CASE \E p \in Procs : BeginsDoes(p)
  BY <1>1, <1>3, BeginsAgree
<1>4. CASE \E p \in Procs, c \in ids, u \in Users, delivered, read \in Nat : ReportDoes(p, u, c, delivered, read)
  BY <1>1, <1>4, ReportAgrees
<1>5. CASE \E p \in Procs : FindDirectDoes(p) \/ WinnerDoes(p) \/ InsertMembersDoes(p) \/ InsertMembersFailsDoes(p)
                            \/ ProvisionDoes(p) \/ ProvisionFailsDoes(p)
  BY <1>1, <1>5, FindAgrees, InsertMembersAgrees, ProvisionAgrees
<1>6. CASE \E p \in Procs :
           \/ JoinSeqDoes(p) \/ InsertMemberDoes(p) \/ RemoveMemberDoes(p)
           \/ TakeNumberDoes(p) \/ StoreMessageDoes(p) \/ ForwardReceiptDoes(p)
           \/ PutBlobDoes(p) \/ RecordAttachmentDoes(p) \/ RecordFailsDoes(p) \/ UnputBlobDoes(p)
           \/ DeleteBlobsDoes(p) \/ DeleteRecordsDoes(p) \/ DeleteStepDoes(p) \/ DeleteMirrorDoes(p) \/ CallFailsDoes(p)
  BY <1>1, <1>6, RestAgrees
<1>7. CASE \E p \in Procs : InsertConversationDoes(p)
  <2>1. PICK p \in Procs : InsertConversationDoes(p)
    BY <1>7
  <2>2. CASE RowsKept /\ ids' = ids /\ told' = told /\ Moved(p, "winner")
    <3>1. Follow(p) /\ RowsFewer
      BY <2>1, <2>2, MovedFollows, KeptIsFewerRows DEF InsertConversationDoes, Follow
    <3> QED BY <1>1, <2>2, <3>1, AgreeFollows
  <2>3. CASE ~(RowsKept /\ ids' = ids /\ told' = told /\ Moved(p, "winner"))
    <3>1. PICK c \in Convs \ ids :
             /\ ids' = ids \cup {c} /\ RowSet(req[p].h, c, NewRow(req[p]))
             /\ (Created(p, "members", c) /\ told' = told) \/ AfterCreateDoes(p, c)
      BY <2>1, <2>3 DEF InsertConversationDoes
    <3> QED BY <2>1, <3>1, NewAgrees DEF InsertConversationDoes
  <2> QED BY <2>2, <2>3
<1> QED BY <1>2, <1>3, <1>4, <1>5, <1>6, <1>7 DEF Effect

LEMMA OneCreatorMade ==
    ASSUME \A p, q \in Procs : Creates(req'[p]) /\ Creates(req'[q]) /\ req'[p].c = req'[q].c => p = q
    PROVE  OneCreator'
BY DEF OneCreator, Creates, Creating, Undoing

LEMMA OneCreatorStep ==
    ASSUME OneCreator, NEW p \in Procs, OthersWait(p),
           Creates(req'[p]) => \/ Creates(req[p]) /\ req'[p].c = req[p].c
                               \/ \A q \in Procs : Creates(req[q]) => req[q].c # req'[p].c
    PROVE  OneCreator'
<1> SUFFICES ASSUME NEW a \in Procs, NEW b \in Procs, Creates(req'[a]), Creates(req'[b]), req'[a].c = req'[b].c, a # b
             PROVE  FALSE
  BY OneCreatorMade
<1>1. CASE a # p /\ b # p
  BY <1>1 DEF OneCreator, OthersWait
<1>2. CASE a = p
  BY <1>2 DEF OneCreator, OthersWait
<1>3. CASE b = p
  BY <1>3 DEF OneCreator, OthersWait
<1> QED BY <1>1, <1>2, <1>3

LEMMA OneCreatorKept ==
    ASSUME ConversationsAssumption, CvTypes, OneCreator, Effect
    PROVE  OneCreator'
<1>1. ASSUME NEW p \in Procs, Follow(p)
      PROVE  OneCreator'
  BY <1>1, OneCreatorStep DEF Follow, Follows
<1>2. CASE \E c \in ids, u, v \in Users : SetMemberRoleDoes(u, v, c)
  BY <1>2, OneCreatorMade DEF SetMemberRoleDoes, OneCreator
<1>3. CASE \E p \in Procs : BeginsDoes(p)
  <2>0. PICK p \in Procs : BeginsDoes(p)
    BY <1>3
  <2>1. PICK r : BeginsAny(r) /\ BeginDoes(p, r)
    BY <2>0 DEF BeginsDoes
  <2>2. r.pc \notin {"members", "provision", "delete"}
    BY <2>1 DEF BeginsAny, BeginsBy, BeginsGroup, BeginsDirect, BeginsAdd, BeginsRemove, BeginsPost, BeginsUpload, BeginsDelete, NewAt
  <2>3. ~Creates(req'[p]) /\ OthersWait(p)
    BY <2>1, <2>2 DEF BeginDoes, Creates, Creating, Undoing
  <2> QED BY <2>3, OneCreatorStep
<1>4. CASE \E p \in Procs, c \in ids, u \in Users, delivered, read \in Nat : ReportDoes(p, u, c, delivered, read)
  <2>1. PICK p \in Procs : OthersWait(p) /\ req'[p].pc = "forward"
    BY <1>4 DEF ReportDoes, NewRequest
  <2>2. ~Creates(req'[p])
    BY <2>1 DEF Creates, Creating, Undoing
  <2> QED BY <2>1, <2>2, OneCreatorStep
<1>5. CASE \E p \in Procs : FindDirectDoes(p) \/ WinnerDoes(p) \/ InsertMembersDoes(p) \/ InsertMembersFailsDoes(p)
                            \/ ProvisionDoes(p) \/ ProvisionFailsDoes(p)
  BY <1>1, <1>5, CreateFollows
<1>6. CASE \E p \in Procs :
           \/ JoinSeqDoes(p) \/ InsertMemberDoes(p) \/ RemoveMemberDoes(p)
           \/ TakeNumberDoes(p) \/ StoreMessageDoes(p) \/ ForwardReceiptDoes(p)
           \/ PutBlobDoes(p) \/ RecordAttachmentDoes(p) \/ RecordFailsDoes(p) \/ UnputBlobDoes(p)
           \/ DeleteBlobsDoes(p) \/ DeleteRecordsDoes(p) \/ DeleteStepDoes(p) \/ DeleteMirrorDoes(p) \/ CallFailsDoes(p)
  BY <1>1, <1>6, RosterFollows, DeleteFollows
<1>7. CASE \E p \in Procs : InsertConversationDoes(p)
  <2>1. PICK p \in Procs : InsertConversationDoes(p)
    BY <1>7
  <2>2. CASE Moved(p, "winner")
    BY <1>1, <2>1, <2>2, MovedFollows DEF InsertConversationDoes, Follow
  <2>3. CASE Ended(p)
    BY <1>1, <2>3, EndedFollows DEF Follow
  <2>4. CASE \E c \in Convs \ ids : Created(p, "members", c) \/ Created(p, "provision", c)
    BY <2>4, KnownRequest, OneCreatorStep DEF Created
  <2> QED BY <2>1, <2>2, <2>3, <2>4 DEF InsertConversationDoes, AfterCreateDoes
<1> QED BY <1>2, <1>3, <1>4, <1>5, <1>6, <1>7 DEF Effect

(***************************************************************************)
(* Who was answered is a member                                            *)
(***************************************************************************)
\* A delete has emptied the roster and has the row before it.
Wiped(h, c) == \E p \in Procs : req[p].pc = "delete" /\ req[p].todo = Todo1 /\ req[p].h = h /\ req[p].c = c
WipedNext(h, c) == \E p \in Procs : req'[p].pc = "delete" /\ req'[p].todo = Todo1 /\ req'[p].h = h /\ req'[p].c = c
\* The request that inserts their membership is on its way.
Awaited(u, c) == \E p \in Procs :
    req[p].pc = "members" /\ req[p].h = Home[u] /\ req[p].c = c /\ u \in {req[p].u, req[p].v}
AwaitedNext(u, c) == \E p \in Procs :
    req'[p].pc = "members" /\ req'[p].h = Home[u] /\ req'[p].c = c /\ u \in {req'[p].u, req'[p].v}

WantsIn(u, c) ==
    \/ <<u, c>> \in told
    \/ Row(Home[u], c) # None /\ Row(Home[u], c).pair # None /\ u \in Row(Home[u], c).pair
WantsInNext(u, c) ==
    \/ <<u, c>> \in told'
    \/ RowNext(Home[u], c) # None /\ RowNext(Home[u], c).pair # None /\ u \in RowNext(Home[u], c).pair
Settled(u, c) ==
    \/ <<u, c>> \in parted \/ c \in broken \/ Row(Home[u], c) = None \/ Mem(Home[u], c, u) # None
    \/ Wiped(Home[u], c) \/ Awaited(u, c)
SettledNext(u, c) ==
    \/ <<u, c>> \in parted' \/ c \in broken' \/ RowNext(Home[u], c) = None \/ MemNext(Home[u], c, u) # None
    \/ WipedNext(Home[u], c) \/ AwaitedNext(u, c)

AllSettled == \A u \in Users, c \in Convs : WantsIn(u, c) => Settled(u, c)
AllSettledNext == \A u \in Users, c \in Convs : WantsInNext(u, c) => SettledNext(u, c)
\* Nobody is answered with a group before its roster is there.
GroupsUntold == \A p \in Procs : req[p].pc = "members" /\ req[p].op = "group" => \A u \in Users : <<u, req[p].c>> \notin told
Rooted == \E H \in [Convs -> Hosts], P \in [Convs -> Pairs \cup {None}] : Agree(H, P)
MemberInv == OneCreator /\ Rooted /\ GroupsUntold /\ AllSettled

LEMMA AllSettledMade ==
    ASSUME AllSettledNext
    PROVE  AllSettled'
BY DEF AllSettled, AllSettledNext, WantsIn, WantsInNext, Settled, SettledNext, Wiped, WipedNext, Awaited, AwaitedNext,
       Row, RowNext, Mem, MemNext

LEMMA SettledStep ==
    ASSUME NEW p \in Procs, OthersWait(p), NEW u \in Users, NEW c \in Convs, Settled(u, c), parted \subseteq parted',
           broken \subseteq broken',
           Row(Home[u], c) = None => SettledNext(u, c),
           Mem(Home[u], c, u) # None => SettledNext(u, c),
           req[p].pc = "delete" /\ req[p].todo = Todo1 /\ req[p].h = Home[u] /\ req[p].c = c => SettledNext(u, c),
           req[p].pc = "members" /\ req[p].h = Home[u] /\ req[p].c = c /\ u \in {req[p].u, req[p].v} => SettledNext(u, c)
    PROVE  SettledNext(u, c)
<1>1. CASE <<u, c>> \in parted \/ c \in broken
  BY <1>1 DEF SettledNext
<1>2. CASE Wiped(Home[u], c)
  BY <1>2 DEF Wiped, WipedNext, OthersWait, SettledNext
<1>3. CASE Awaited(u, c)
  BY <1>3 DEF Awaited, AwaitedNext, OthersWait, SettledNext
<1> QED BY <1>1, <1>2, <1>3 DEF Settled

\* Rows as they were, and nobody loses a membership.
Calm == RowsAlike /\ \A k \in Hosts, x \in Convs, w \in Users : Mem(k, x, w) # None => MemNext(k, x, w) # None

LEMMA CalmWants ==
    ASSUME ConversationsAssumption, Calm, told' = told, NEW u \in Users, NEW c \in Convs, WantsInNext(u, c)
    PROVE  WantsIn(u, c)
<1>1. Home[u] \in Hosts
  BY DEF ConversationsAssumption
<1> QED BY <1>1 DEF Calm, RowsAlike, WantsIn, WantsInNext

LEMMA CalmSettled ==
    ASSUME ConversationsAssumption, Calm, NEW p \in Procs, OthersWait(p), parted \subseteq parted', broken \subseteq broken',
           NEW u \in Users, NEW c \in Convs, Settled(u, c),
           req[p].pc = "delete" /\ req[p].todo = Todo1 /\ req[p].h = Home[u] /\ req[p].c = c => SettledNext(u, c),
           req[p].pc = "members" /\ req[p].h = Home[u] /\ req[p].c = c /\ u \in {req[p].u, req[p].v} => SettledNext(u, c)
    PROVE  SettledNext(u, c)
<1>1. Home[u] \in Hosts
  BY DEF ConversationsAssumption
<1>2. Row(Home[u], c) = None => SettledNext(u, c)
  BY <1>1 DEF Calm, RowsAlike, SettledNext
<1>3. Mem(Home[u], c, u) # None => SettledNext(u, c)
  BY <1>1 DEF Calm, SettledNext
<1> QED BY <1>2, <1>3, SettledStep

LEMMA CalmStep ==
    ASSUME ConversationsAssumption, AllSettled, Calm, NEW p \in Procs, OthersWait(p), told' = told, parted \subseteq parted',
           broken \subseteq broken', req[p].pc \notin {"members", "delete"}
    PROVE  AllSettledNext
BY CalmWants, CalmSettled DEF AllSettled, AllSettledNext

LEMMA KeptIsCalm ==
    ASSUME RowsKept, MemsKept
    PROVE  Calm
<1>1. RowsAlike
  BY KeptIsAlike
<1> QED BY <1>1 DEF Calm, MemsKept

LEMMA TouchedIsCalm ==
    ASSUME RowsKept, NEW h, NEW c, NEW u, NEW m, MemSet(h, c, u, m), m # None
    PROVE  Calm
<1>1. RowsAlike
  BY KeptIsAlike
<1>2. \A k \in Hosts, x \in Convs, w \in Users : Mem(k, x, w) # None => MemNext(k, x, w) # None
  BY DEF MemSet
<1> QED BY <1>1, <1>2 DEF Calm

LEMMA SetMemberRoleSettled ==
    ASSUME ConversationsAssumption, AllSettled, NEW c \in ids, NEW u \in Users, NEW v \in Users, SetMemberRoleDoes(u, v, c)
    PROVE  AllSettledNext
<1>1. req' = req /\ told' = told /\ parted' = parted /\ broken' = broken /\ RowsKept
  BY DEF SetMemberRoleDoes
<1>2. Calm
  BY <1>1, TouchedIsCalm DEF SetMemberRoleDoes
<1>3. ASSUME NEW w \in Users, NEW x \in Convs, WantsInNext(w, x)
      PROVE  SettledNext(w, x)
  <2>1. Settled(w, x) /\ Home[w] \in Hosts
    BY <1>1, <1>2, <1>3, CalmWants DEF AllSettled, ConversationsAssumption
  <2> QED BY <1>1, <1>2, <2>1 DEF Settled, SettledNext, Wiped, WipedNext, Awaited, AwaitedNext, Calm, RowsAlike
<1> QED BY <1>3 DEF AllSettledNext

LEMMA QuietSettled ==
    ASSUME ConversationsAssumption, CvTypes, AllSettled, NEW p \in Procs,
           \/ BeginsDoes(p) \/ JoinSeqDoes(p) \/ InsertMemberDoes(p) \/ TakeNumberDoes(p) \/ StoreMessageDoes(p)
           \/ ForwardReceiptDoes(p)
           \/ PutBlobDoes(p) \/ RecordAttachmentDoes(p) \/ RecordFailsDoes(p) \/ UnputBlobDoes(p)
           \/ DeleteBlobsDoes(p) \/ DeleteRecordsDoes(p)
    PROVE  AllSettledNext
<1>1. /\ told' = told /\ parted' = parted /\ broken' = broken /\ req[p].pc \notin {"members", "delete"} /\ OthersWait(p)
  BY DEF BeginsDoes, BeginDoes, JoinSeqDoes, InsertMemberDoes, TakeNumberDoes, StoreMessageDoes, ForwardReceiptDoes,
         PutBlobDoes, RecordAttachmentDoes, RecordFailsDoes, UnputBlobDoes, DeleteBlobsDoes, DeleteRecordsDoes,
         Moved, MovedWith, Ended
<1> SUFFICES Calm
  BY <1>1, CalmStep
<1>2. CASE BeginsDoes(p)
  BY <1>2, KeptIsCalm DEF BeginsDoes, BeginDoes, DbKept
<1>3. ASSUME NEW n, JoinDoes(req[p].h, req[p].c, req[p].v, n)
      PROVE  Calm
  BY <1>3, KeptIsCalm, TouchedIsCalm DEF JoinDoes
<1>4. CASE JoinSeqDoes(p) \/ InsertMemberDoes(p)
  BY <1>3, <1>4, KeptIsCalm DEF JoinSeqDoes, InsertMemberDoes, DbKept
<1>5. CASE TakeNumberDoes(p)
  BY <1>5 DEF TakeNumberDoes, Calm, MemsKept
<1>6. CASE ForwardReceiptDoes(p)
  BY <1>6, KeptIsCalm, TouchedIsCalm DEF ForwardReceiptDoes, ReceiptDoes
<1>7. CASE \/ StoreMessageDoes(p) \/ PutBlobDoes(p) \/ RecordAttachmentDoes(p) \/ RecordFailsDoes(p) \/ UnputBlobDoes(p)
           \/ DeleteBlobsDoes(p) \/ DeleteRecordsDoes(p)
  BY <1>7, KeptIsCalm DEF StoreMessageDoes, PutBlobDoes, RecordAttachmentDoes, RecordFailsDoes, UnputBlobDoes, DeleteBlobsDoes,
         DeleteRecordsDoes, DbKept
<1> QED BY <1>2, <1>4, <1>5, <1>6, <1>7

LEMMA ReportSettled ==
    ASSUME ConversationsAssumption, AllSettled, NEW p \in Procs, NEW c \in ids, NEW u \in Users,
           NEW delivered \in Nat, NEW read \in Nat, ReportDoes(p, u, c, delivered, read)
    PROVE  AllSettledNext
<1>1. told' = told /\ parted' = parted /\ broken' = broken /\ req[p].pc = "idle" /\ OthersWait(p)
  BY DEF ReportDoes
<1>2. Calm
  BY TouchedIsCalm DEF ReportDoes, ReceiptDoes
<1> QED BY <1>1, <1>2, CalmStep

\* Who is told was in the row's pair before.
LEMMA FindSettled ==
    ASSUME ConversationsAssumption, CvTypes, AllSettled, NEW p \in Procs, FindDirectDoes(p) \/ WinnerDoes(p)
    PROVE  AllSettledNext
<1>1. /\ req[p].pc \in {"find", "winner"} /\ parted' = parted /\ broken' = broken /\ DbKept
  BY DEF FindDirectDoes, WinnerDoes
<1>2. OthersWait(p)
  BY DEF FindDirectDoes, WinnerDoes, Ended, Moved
<1>3. req[p].u \in Users /\ req[p].v \in Users /\ req[p].h = Home[req[p].u]
  BY <1>1, AtWork DEF CvTypes, InOrder
<1>4. {req[p].u, req[p].v} # None
  BY <1>3 DEF ConversationsAssumption, Pairs
<1>5. Calm
  BY <1>1, KeptIsCalm DEF DbKept
<1>6. ASSUME NEW u \in Users, NEW c \in Convs, WantsInNext(u, c)
      PROVE  WantsIn(u, c)
  <2>1. Home[u] \in Hosts /\ RowNext(Home[u], c) = Row(Home[u], c)
    BY <1>1 DEF DbKept, RowsKept, ConversationsAssumption
  <2>2. CASE <<u, c>> \in told' /\ <<u, c>> \notin told
    <3>1. PICK x \in Convs : /\ Row(req[p].h, x) # None /\ Row(req[p].h, x).pair = {req[p].u, req[p].v}
                             /\ told' = told \cup {<<req[p].u, x>>}
      BY <2>2 DEF FindDirectDoes, WinnerDoes
    <3>2. u = req[p].u /\ c = x
      BY <2>2, <3>1
    <3> QED BY <1>3, <1>4, <3>1, <3>2 DEF WantsIn
  <2> QED BY <1>6, <2>1, <2>2 DEF WantsIn, WantsInNext
<1> QED BY <1>1, <1>2, <1>5, <1>6, CalmSettled DEF AllSettled, AllSettledNext

LEMMA FailsSettled ==
    ASSUME ConversationsAssumption, CvTypes, AllSettled, NEW p \in Procs, InsertMembersFailsDoes(p) \/ CallFailsDoes(p)
    PROVE  AllSettledNext
<1>1. /\ told' = told /\ parted' = parted /\ broken \subseteq broken' /\ DbKept /\ OthersWait(p)
  BY DEF InsertMembersFailsDoes, CallFailsDoes, Moved, Ended
<1>2. req[p].pc \in {"members", "delete"} => req[p].c \in broken'
  <2>1. req[p].pc = "delete" => req[p].op \in {"delete", "undo"}
    BY DEF CvTypes, InOrder
  <2> QED BY <2>1 DEF InsertMembersFailsDoes, CallFailsDoes
<1>3. Calm
  BY <1>1, KeptIsCalm DEF DbKept
<1>4. ASSUME NEW u \in Users, NEW c \in Convs, WantsInNext(u, c)
      PROVE  SettledNext(u, c)
  <2>1. Settled(u, c)
    BY <1>1, <1>3, <1>4, CalmWants DEF AllSettled
  <2>2. req[p].pc \in {"members", "delete"} /\ req[p].c = c => SettledNext(u, c)
    BY <1>2 DEF SettledNext
  <2> QED BY <1>1, <1>3, <2>1, <2>2, CalmSettled
<1> QED BY <1>4 DEF AllSettledNext

LEMMA RemoveSettled ==
    ASSUME ConversationsAssumption, CvTypes, AllSettled, NEW p \in Procs, RemoveMemberDoes(p)
    PROVE  AllSettledNext
<1>1. /\ told' = told /\ parted \subseteq parted' /\ broken' = broken /\ OthersWait(p) /\ RowsKept
      /\ req[p].pc = "removeMember"
  BY DEF RemoveMemberDoes, Moved, Ended
<1>2. CASE MemsKept
  <2>1. Calm
    BY <1>1, <1>2, KeptIsCalm
  <2> QED BY <1>1, <2>1, CalmStep
<1>3. CASE MemSet(req[p].h, req[p].c, req[p].v, None) /\ parted' = parted \cup {<<req[p].v, req[p].c>>}
  <2> SUFFICES ASSUME NEW u \in Users, NEW c \in Convs, WantsInNext(u, c)
               PROVE  SettledNext(u, c)
    BY DEF AllSettledNext
  <2>1. Home[u] \in Hosts /\ RowNext(Home[u], c) = Row(Home[u], c)
    BY <1>1 DEF RowsKept, ConversationsAssumption
  <2>2. Settled(u, c)
    BY <1>1, <2>1 DEF WantsIn, WantsInNext, AllSettled
  <2>3. Row(Home[u], c) = None => SettledNext(u, c)
    BY <2>1 DEF SettledNext
  <2>4. Mem(Home[u], c, u) # None => SettledNext(u, c)
    <3>1. CASE u = req[p].v /\ c = req[p].c
      BY <1>3, <3>1 DEF SettledNext
    <3>2. CASE ~(u = req[p].v /\ c = req[p].c)
      BY <1>3, <2>1, <3>2 DEF SettledNext, MemSet
    <3> QED BY <3>1, <3>2
  <2> QED BY <1>1, <2>2, <2>3, <2>4, SettledStep
<1> QED BY <1>2, <1>3 DEF RemoveMemberDoes

\* A row that goes takes the claim with it.
LEMMA DeleteStepSettled ==
    ASSUME ConversationsAssumption, CvTypes, AllSettled, NEW p \in Procs, DeleteStepDoes(p)
    PROVE  AllSettledNext
<1>1. told' = told /\ parted' = parted /\ broken' = broken /\ req[p].pc = "delete"
  BY DEF DeleteStepDoes
<1>2. OthersWait(p)
  BY DEF DeleteStepDoes, DeletedLast, MovedWith, Moved, Ended
<1>3. req[p].h \in Hosts /\ req[p].c \in Convs
  BY <1>1, AtWork
<1>4. RowsKept \/ RowSet(req[p].h, req[p].c, None)
  BY DEF DeleteStepDoes
<1>5. RowsFewer
  BY <1>3, <1>4, KeptIsFewerRows
<1> SUFFICES ASSUME NEW u \in Users, NEW c \in Convs, WantsInNext(u, c)
             PROVE  SettledNext(u, c)
  BY DEF AllSettledNext
<1>6. Home[u] \in Hosts
  BY DEF ConversationsAssumption
<1>7. Settled(u, c)
  BY <1>1, <1>5, <1>6 DEF RowsFewer, WantsIn, WantsInNext, AllSettled
<1>8. Row(Home[u], c) = None => SettledNext(u, c)
  BY <1>5, <1>6 DEF RowsFewer, SettledNext
<1>9. ASSUME MemNext(Home[u], c, u) = None, Mem(Home[u], c, u) # None
      PROVE  SettledNext(u, c)
  <2>1. CASE req[p].todo = Todo3 \/ req[p].todo = Todo1
    <3>1. MemsKept
      BY <2>1, TodoSteps DEF DeleteStepDoes
    <3> QED BY <1>6, <1>9, <3>1 DEF MemsKept
  <2>2. CASE req[p].todo \notin {Todo3, Todo1}
    <3>1. MemsSet(req[p].h, req[p].c, NoMembers)
      BY <2>2 DEF DeleteStepDoes
    <3>2. Home[u] = req[p].h /\ c = req[p].c
      BY <1>6, <1>9, <3>1 DEF MemsSet
    <3>3. CASE req[p].todo = Todo2
      <4>1. MovedWith(p, "delete", req[p].arg) /\ req'[p].todo = Todo1
        BY <3>3, TodoSteps DEF DeleteStepDoes
      <4>2. WipedNext(Home[u], c)
        BY <3>2, <4>1 DEF WipedNext, MovedWith, Same
      <4> QED BY <4>2 DEF SettledNext
    <3>4. CASE req[p].todo # Todo2
      <4>1. RowSet(req[p].h, req[p].c, None)
        BY <2>2, <3>4 DEF DeleteStepDoes
      <4> QED BY <3>2, <4>1 DEF RowSet, SettledNext
    <3> QED BY <3>3, <3>4
  <2> QED BY <2>1, <2>2
<1>10. Mem(Home[u], c, u) # None => SettledNext(u, c)
  BY <1>9 DEF SettledNext
<1>11. ASSUME req[p].todo = Todo1, req[p].h = Home[u], req[p].c = c
       PROVE  SettledNext(u, c)
  <2>1. RowSet(req[p].h, req[p].c, None)
    BY <1>11, TodoSteps DEF DeleteStepDoes
  <2> QED BY <1>11, <2>1 DEF RowSet, SettledNext
<1> QED BY <1>1, <1>2, <1>7, <1>8, <1>10, <1>11, SettledStep

LEMMA DeleteMirrorSettled ==
    ASSUME ConversationsAssumption, CvTypes, AllSettled, NEW p \in Procs, DeleteMirrorDoes(p)
    PROVE  AllSettledNext
<1>1. /\ told' = told /\ parted' = parted /\ broken' = broken /\ req[p].pc = "propagate" /\ OthersWait(p)
  BY DEF DeleteMirrorDoes, Ended
<1>2. req[p].c \in Convs
  BY <1>1, AtWork
<1>3. \A k \in Hosts : HostKept(k) \/ HostCleared(k, req[p].c)
  BY DEF DeleteMirrorDoes
<1> SUFFICES ASSUME NEW u \in Users, NEW c \in Convs, WantsInNext(u, c)
             PROVE  SettledNext(u, c)
  BY DEF AllSettledNext
<1>4. Home[u] \in Hosts
  BY DEF ConversationsAssumption
<1>5. CASE RowNext(Home[u], c) = None
  BY <1>5 DEF SettledNext
<1>6. CASE RowNext(Home[u], c) = Row(Home[u], c) /\ MemNext(Home[u], c, u) = Mem(Home[u], c, u)
  <2>1. Settled(u, c)
    BY <1>1, <1>6 DEF WantsIn, WantsInNext, AllSettled
  <2> QED BY <1>1, <1>6, <2>1, SettledStep DEF SettledNext
<1> QED BY <1>2, <1>3, <1>4, <1>5, <1>6 DEF HostKept, HostCleared

LEMMA InsertMembersSettled ==
    ASSUME ConversationsAssumption, CvTypes, NEW H, NEW P, Agree(H, P), GroupsUntold, AllSettled, NEW p \in Procs,
           InsertMembersDoes(p)
    PROVE  AllSettledNext
<1>1. /\ req[p].pc = "members" /\ parted' = parted /\ broken' = broken /\ RowsKept
      /\ MemsSet(req[p].h, req[p].c, NewMembers(req[p])) /\ AfterCreateDoes(p, req[p].c)
  BY DEF InsertMembersDoes
<1>2. OthersWait(p)
  BY <1>1 DEF AfterCreateDoes, Created, Ended
<1>3. /\ req[p].op \in {"direct", "group"} /\ req[p].u \in Users /\ req[p].h = Home[req[p].u] /\ req[p].h \in Hosts
      /\ req[p].c \in Convs /\ req[p].c \in ids
  BY <1>1, AtWork DEF CvTypes, InOrder
<1>4. P[req[p].c] = PairOf(req[p])
  BY <1>1, <1>3 DEF Agree, ReqFits, Creates, Creating
<1>5. told \subseteq told' /\ told' \subseteq told \cup {<<req[p].u, req[p].c>>}
  BY <1>1 DEF AfterCreateDoes
<1> SUFFICES ASSUME NEW u \in Users, NEW c \in Convs, WantsInNext(u, c)
             PROVE  SettledNext(u, c)
  BY DEF AllSettledNext
<1>6. Home[u] \in Hosts /\ RowNext(Home[u], c) = Row(Home[u], c)
  BY <1>1 DEF ConversationsAssumption, RowsKept
<1>7. CASE Home[u] = req[p].h /\ c = req[p].c
  <2>1. u \in {req[p].u, req[p].v}
    <3>1. CASE req[p].op = "group"
      <4>1. P[c] = None
        BY <1>4, <1>7, <3>1 DEF PairOf
      <4>2. Row(Home[u], c) # None => Row(Home[u], c).pair = None
        BY <1>6, <4>1 DEF Agree, RowFits
      <4>3. <<u, c>> \notin told
        BY <1>1, <1>7, <3>1 DEF GroupsUntold
      <4> QED BY <1>5, <1>6, <4>2, <4>3 DEF WantsInNext
    <3>2. CASE req[p].op = "direct"
      <4>1. P[c] = {req[p].u, req[p].v} /\ P[c] # None
        <5>1. req[p].v \in Users
          BY <1>1, <3>2, AtWork
        <5>2. {req[p].u, req[p].v} \in Pairs
          BY <1>3, <5>1 DEF Pairs
        <5>3. {req[p].u, req[p].v} # None
          BY <5>2 DEF ConversationsAssumption
        <5>4. P[c] = {req[p].u, req[p].v}
          BY <1>4, <1>7, <3>2 DEF PairOf
        <5> QED BY <5>3, <5>4
      <4>2. <<u, c>> \in told => u \in P[c]
        BY <1>3, <1>7, <4>1 DEF Agree, ToldFits
      <4>3. Row(Home[u], c) # None => Row(Home[u], c).pair = P[c]
        BY <1>6 DEF Agree, RowFits
      <4> QED BY <1>5, <1>6, <4>1, <4>2, <4>3 DEF WantsInNext
    <3> QED BY <1>3, <3>1, <3>2
  <2>2. PICK f : f = NewMembers(req[p])
    OBVIOUS
  <2>3. Fresh(f[u])
    BY <2>1, <2>2, NewMembersAre
  <2>4. MemNext(Home[u], c, u) = f[u]
    BY <1>1, <1>7, <2>2 DEF MemsSet
  <2> QED BY <2>3, <2>4 DEF SettledNext, Fresh
<1>8. CASE ~(Home[u] = req[p].h /\ c = req[p].c)
  <2>1. MemNext(Home[u], c, u) = Mem(Home[u], c, u)
    BY <1>1, <1>6, <1>8 DEF MemsSet
  <2>2. <<u, c>> # <<req[p].u, req[p].c>>
    BY <1>3, <1>8
  <2>3. Settled(u, c)
    BY <1>5, <1>6, <2>2 DEF WantsIn, WantsInNext, AllSettled
  <2> QED BY <1>1, <1>2, <1>6, <1>8, <2>1, <2>3, SettledStep DEF SettledNext
<1> QED BY <1>7, <1>8

LEMMA MirrorSettled ==
    ASSUME ConversationsAssumption, CvTypes, NEW H, NEW P, Agree(H, P), AllSettled, NEW p \in Procs,
           ProvisionDoes(p) \/ ProvisionFailsDoes(p)
    PROVE  AllSettledNext
<1>1. req[p].pc = "provision" /\ parted' = parted /\ broken \subseteq broken'
  BY DEF ProvisionDoes, ProvisionFailsDoes
<1>2. OthersWait(p)
  BY CreateFollows DEF Follow
<1>3. /\ req[p] \in Requests /\ req[p].op \in {"direct", "add"} /\ req[p].u \in Users /\ req[p].v \in Users
      /\ req[p].h \in Hosts /\ req[p].h = Home[req[p].u] /\ req[p].c \in Convs /\ req[p].c \in ids
  BY <1>1, AtWork DEF CvTypes, InOrder
<1>4. ReqFits(req[p], H, P)
  BY DEF Agree
<1>5. /\ Home[req[p].v] # req[p].h /\ H[req[p].c] = req[p].h
      /\ P[req[p].c] = IF req[p].op = "add" THEN None ELSE {req[p].u, req[p].v}
  BY <1>1, <1>3, <1>4 DEF ReqFits, Creates, Creating, Adds, PairOf
<1>6. {req[p].u, req[p].v} # None
  BY <1>3 DEF ConversationsAssumption, Pairs
<1>7. told' = told \/ (told' = told \cup {<<req[p].u, req[p].c>>} /\ req[p].op = "direct")
  BY DEF ProvisionDoes, ProvisionFailsDoes
<1> SUFFICES ASSUME NEW u \in Users, NEW c \in Convs, WantsInNext(u, c)
             PROVE  SettledNext(u, c)
  BY DEF AllSettledNext
<1>8. Home[u] \in Hosts
  BY DEF ConversationsAssumption
<1>9. ASSUME RowNext(Home[u], c) = Row(Home[u], c), MemNext(Home[u], c, u) = Mem(Home[u], c, u)
      PROVE  SettledNext(u, c)
  <2>1. CASE Row(Home[u], c) = None
    BY <1>9, <2>1 DEF SettledNext
  <2>2. CASE Row(Home[u], c) # None
    <3>1. WantsIn(u, c)
      <4>1. CASE <<u, c>> \in told' /\ <<u, c>> \notin told
        <5>1. u = req[p].u /\ c = req[p].c /\ req[p].op = "direct"
          BY <1>7, <4>1
        <5>2. Row(Home[u], c).pair = {req[p].u, req[p].v}
          BY <1>3, <1>5, <1>8, <2>2, <5>1 DEF Agree, RowFits
        <5> QED BY <1>6, <2>2, <5>1, <5>2 DEF WantsIn
      <4> QED BY <1>7, <1>9, <4>1 DEF WantsIn, WantsInNext
    <3>2. Settled(u, c)
      BY <3>1 DEF AllSettled
    <3> QED BY <1>1, <1>2, <1>9, <3>2, SettledStep DEF SettledNext
  <2> QED BY <2>1, <2>2
<1>10. CASE DbKept
  BY <1>8, <1>9, <1>10 DEF DbKept, RowsKept, MemsKept
<1>11. CASE MirrorDoes(p) /\ ~DbKept
  <2>1. PICK f : /\ RowSet(Home[req[p].v], req[p].c, SpecRow(req[p])) /\ MemsSet(Home[req[p].v], req[p].c, f)
                 /\ \A w \in Users : IF w = req[p].v \/ Mem(req[p].h, req[p].c, w) # None
                                     THEN Fresh(f[w]) /\ f[w].role = "user" ELSE f[w] = None
    BY <1>11 DEF MirrorDoes
  <2>2. CASE ~(Home[u] = Home[req[p].v] /\ c = req[p].c)
    BY <1>8, <1>9, <2>1, <2>2 DEF RowSet, MemsSet
  <2>3. CASE Home[u] = Home[req[p].v] /\ c = req[p].c
    <3>1. u # req[p].u
      BY <1>3, <1>5, <2>3
    <3>2. RowNext(Home[u], c) = SpecRow(req[p])
      BY <2>1, <2>3 DEF RowSet
    <3>3. CASE req[p].op = "direct"
      <4>1. P[c] = {req[p].u, req[p].v} /\ P[c] # None
        BY <1>5, <1>6, <2>3, <3>3
      <4>2. SpecRow(req[p]).pair = {req[p].u, req[p].v}
        BY <1>3, <3>3, SpecRowIs
      <4>3. <<u, c>> \in told => u \in P[c]
        BY <1>3, <2>3, <4>1 DEF Agree, ToldFits
      <4>4. u = req[p].v
        BY <1>7, <3>1, <3>2, <4>1, <4>2, <4>3 DEF WantsInNext
      <4>5. Fresh(f[u]) /\ MemNext(Home[u], c, u) = f[u]
        BY <2>1, <2>3, <4>4 DEF MemsSet
      <4> QED BY <4>5 DEF SettledNext, Fresh
    <3>4. CASE req[p].op = "add"
      <4>1. P[c] = None /\ H[c] = req[p].h
        BY <1>5, <2>3, <3>4
      <4>2. SpecRow(req[p]).pair = None
        BY <1>3, <3>4, SpecRowIs
      <4>3. <<u, c>> \notin told
        BY <1>3, <1>5, <2>3, <4>1 DEF Agree, ToldFits
      <4> QED BY <1>7, <3>2, <3>4, <4>2, <4>3 DEF WantsInNext
    <3> QED BY <1>3, <3>3, <3>4
  <2> QED BY <2>2, <2>3
<1> QED BY <1>10, <1>11 DEF ProvisionDoes, ProvisionFailsDoes

LEMMA NewSettled ==
    ASSUME ConversationsAssumption, CvTypes, AllSettled, NEW p \in Procs, InsertConversationDoes(p)
    PROVE  AllSettledNext
<1>1. req[p].pc = "insert" /\ parted' = parted /\ broken' = broken
  BY DEF InsertConversationDoes
<1>2. /\ req[p] \in Requests /\ req[p].op \in {"direct", "group"} /\ req[p].u \in Users /\ req[p].h \in Hosts
      /\ req[p].h = Home[req[p].u] /\ (req[p].op = "direct" => req[p].v \in Users)
  BY <1>1, AtWork DEF CvTypes, InOrder
<1>3. CASE RowsKept /\ MemsKept /\ told' = told /\ Moved(p, "winner")
  <2>1. Calm /\ OthersWait(p)
    BY <1>3, KeptIsCalm DEF Moved
  <2> QED BY <1>1, <1>3, <2>1, CalmStep
<1>4. CASE ~(RowsKept /\ MemsKept /\ told' = told /\ Moved(p, "winner"))
  <2>1. PICK c \in Convs \ ids :
           /\ RowSet(req[p].h, c, NewRow(req[p]))
           /\ \/ MemsKept /\ told' = told /\ Created(p, "members", c)
              \/ MemsSet(req[p].h, c, NewMembers(req[p])) /\ AfterCreateDoes(p, c)
    BY <1>4 DEF InsertConversationDoes
  <2>2. OthersWait(p)
    BY <2>1 DEF AfterCreateDoes, Created, Ended
  <2>3. told' \subseteq told \cup {<<req[p].u, c>>}
    BY <2>1 DEF AfterCreateDoes
  <2> SUFFICES ASSUME NEW u \in Users, NEW x \in Convs, WantsInNext(u, x)
               PROVE  SettledNext(u, x)
    BY DEF AllSettledNext
  <2>4. Home[u] \in Hosts
    BY DEF ConversationsAssumption
  <2>5. CASE x # c
    <3>1. RowNext(Home[u], x) = Row(Home[u], x) /\ MemNext(Home[u], x, u) = Mem(Home[u], x, u)
      BY <2>1, <2>4, <2>5 DEF RowSet, MemsSet, MemsKept
    <3>2. Settled(u, x)
      BY <2>3, <2>5, <3>1 DEF WantsIn, WantsInNext, AllSettled
    <3> QED BY <1>1, <2>2, <3>1, <3>2, SettledStep DEF SettledNext
  <2>6. CASE x = c
    <3>1. <<u, x>> \notin told
      BY <2>1, <2>6, KnownTold
    <3>2. Home[u] = req[p].h /\ u \in {req[p].u, req[p].v}
      <4>1. CASE <<u, x>> \in told'
        BY <1>2, <2>3, <3>1, <4>1
      <4>2. CASE <<u, x>> \notin told'
        <5>1. RowNext(Home[u], x) # None /\ RowNext(Home[u], x).pair # None /\ u \in RowNext(Home[u], x).pair
          BY <4>2 DEF WantsInNext
        <5>2. Home[u] = req[p].h
          BY <2>1, <2>4, <2>6, <5>1 DEF RowSet, CvTypes, RowsKnown
        <5>3. RowNext(Home[u], x) = NewRow(req[p])
          BY <2>1, <2>6, <5>2 DEF RowSet
        <5>4. NewRow(req[p]).pair # None /\ u \in NewRow(req[p]).pair
          BY <5>1, <5>3
        <5>5. NewRow(req[p]).pair = {req[p].u, req[p].v}
          BY <1>2, <5>4, NewRowIs
        <5> QED BY <5>2, <5>4, <5>5
      <4> QED BY <4>1, <4>2
    <3>3. CASE Created(p, "members", c)
      <4>1. AwaitedNext(u, x)
        BY <2>6, <3>2, <3>3 DEF Created, AwaitedNext
      <4> QED BY <4>1 DEF SettledNext
    <3>4. CASE MemsSet(req[p].h, c, NewMembers(req[p]))
      <4>1. PICK f : f = NewMembers(req[p])
        OBVIOUS
      <4>2. Fresh(f[u])
        BY <3>2, <4>1, NewMembersAre
      <4>3. MemNext(Home[u], x, u) = f[u]
        BY <2>6, <3>2, <3>4, <4>1 DEF MemsSet
      <4> QED BY <4>2, <4>3 DEF SettledNext, Fresh
    <3> QED BY <2>1, <3>3, <3>4
  <2> QED BY <2>5, <2>6
<1> QED BY <1>3, <1>4

LEMMA SettledKept ==
    ASSUME ConversationsAssumption, CvTypes, MemberInv, Effect
    PROVE  AllSettled'
<1>1. PICK H, P : Agree(H, P)
  BY DEF MemberInv, Rooted
<1>2. AllSettled /\ GroupsUntold
  BY DEF MemberInv
<1> SUFFICES AllSettledNext
  BY AllSettledMade
<1>3. CASE \E c \in ids, u, v \in Users : SetMemberRoleDoes(u, v, c)
  BY <1>2, <1>3, SetMemberRoleSettled
<1>4. CASE \E p \in Procs, c \in ids, u \in Users, delivered, read \in Nat : ReportDoes(p, u, c, delivered, read)
  BY <1>2, <1>4, ReportSettled
<1>5. CASE \E p \in Procs :
           \/ BeginsDoes(p) \/ JoinSeqDoes(p) \/ InsertMemberDoes(p) \/ TakeNumberDoes(p) \/ StoreMessageDoes(p)
           \/ ForwardReceiptDoes(p)
           \/ PutBlobDoes(p) \/ RecordAttachmentDoes(p) \/ RecordFailsDoes(p) \/ UnputBlobDoes(p)
           \/ DeleteBlobsDoes(p) \/ DeleteRecordsDoes(p)
  BY <1>2, <1>5, QuietSettled
<1>6. CASE \E p \in Procs : FindDirectDoes(p) \/ WinnerDoes(p) \/ InsertMembersFailsDoes(p) \/ CallFailsDoes(p)
  BY <1>2, <1>6, FindSettled, FailsSettled
<1>7. CASE \E p \in Procs : InsertConversationDoes(p) \/ InsertMembersDoes(p) \/ ProvisionDoes(p) \/ ProvisionFailsDoes(p)
  BY <1>1, <1>2, <1>7, NewSettled, InsertMembersSettled, MirrorSettled
<1>8. CASE \E p \in Procs : RemoveMemberDoes(p) \/ DeleteStepDoes(p) \/ DeleteMirrorDoes(p)
  BY <1>2, <1>8, RemoveSettled, DeleteStepSettled, DeleteMirrorSettled
<1> QED BY <1>3, <1>4, <1>5, <1>6, <1>7, <1>8 DEF Effect

LEMMA UntoldMade ==
    ASSUME \A p \in Procs : req'[p].pc = "members" /\ req'[p].op = "group" => \A u \in Users : <<u, req'[p].c>> \notin told'
    PROVE  GroupsUntold'
BY DEF GroupsUntold

\* A step that gives the answer c, to whom none of the rosters still awaited belongs.
LEMMA UntoldStep ==
    ASSUME GroupsUntold, NEW p \in Procs, OthersWait(p), req'[p].pc # "members",
           \A q \in Procs \ {p}, u \in Users :
              req[q].pc = "members" /\ req[q].op = "group" /\ <<u, req[q].c>> \in told' => <<u, req[q].c>> \in told
    PROVE  GroupsUntold'
<1> SUFFICES ASSUME NEW q \in Procs, req'[q].pc = "members", req'[q].op = "group", NEW u \in Users, <<u, req'[q].c>> \in told'
             PROVE  FALSE
  BY UntoldMade
<1>1. q # p
  OBVIOUS
<1>2. req'[q] = req[q]
  BY <1>1 DEF OthersWait
<1> QED BY <1>1, <1>2 DEF GroupsUntold

LEMMA UntoldQuiet ==
    ASSUME GroupsUntold, NEW p \in Procs, OthersWait(p), req'[p].pc # "members", told' = told
    PROVE  GroupsUntold'
BY UntoldStep

LEMMA GroupHasNoPair ==
    ASSUME CvTypes, NEW H, NEW P, Agree(H, P), NEW q \in Procs, req[q].pc = "members", req[q].op = "group"
    PROVE  P[req[q].c] = None /\ req[q].c \in ids
<1>1. Creates(req[q]) /\ PairOf(req[q]) = None
  BY DEF Creates, Creating, PairOf
<1> QED BY <1>1, KnownRequest DEF Agree, ReqFits

LEMMA FindUntold ==
    ASSUME ConversationsAssumption, CvTypes, NEW H, NEW P, Agree(H, P), GroupsUntold, NEW p \in Procs,
           FindDirectDoes(p) \/ WinnerDoes(p)
    PROVE  GroupsUntold'
<1>1. req[p].pc \in {"find", "winner"}
  BY DEF FindDirectDoes, WinnerDoes
<1>2. OthersWait(p) /\ req'[p].pc # "members"
  BY IdleForwardsNothing DEF FindDirectDoes, WinnerDoes, Ended, Moved
<1>3. req[p].h \in Hosts /\ req[p].u \in Users /\ req[p].v \in Users
  BY <1>1, AtWork DEF CvTypes, InOrder
<1>4. {req[p].u, req[p].v} # None
  BY <1>3 DEF ConversationsAssumption, Pairs
<1>5. CASE told' = told
  BY <1>2, <1>5, UntoldQuiet
<1>6. CASE told' # told
  <2>1. PICK c \in Convs : /\ Row(req[p].h, c) # None /\ Row(req[p].h, c).pair = {req[p].u, req[p].v}
                           /\ told' = told \cup {<<req[p].u, c>>}
    BY <1>6 DEF FindDirectDoes, WinnerDoes
  <2>2. P[c] # None
    BY <1>3, <1>4, <2>1 DEF Agree, RowFits
  <2>3. \A q \in Procs \ {p}, u \in Users :
           req[q].pc = "members" /\ req[q].op = "group" /\ <<u, req[q].c>> \in told' => <<u, req[q].c>> \in told
    BY <2>1, <2>2, GroupHasNoPair
  <2> QED BY <1>2, <2>3, UntoldStep
<1> QED BY <1>5, <1>6

LEMMA InsertUntold ==
    ASSUME ConversationsAssumption, CvTypes, OneCreator, GroupsUntold, NEW p \in Procs,
           InsertConversationDoes(p) \/ InsertMembersDoes(p)
    PROVE  GroupsUntold'
<1>1. CASE \E c : /\ AfterCreateDoes(p, c)
                  /\ c \notin ids \/ (req[p].pc = "members" /\ c = req[p].c)
  <2>1. PICK c : /\ AfterCreateDoes(p, c)
                 /\ c \notin ids \/ (req[p].pc = "members" /\ c = req[p].c)
    BY <1>1
  <2>2. OthersWait(p) /\ req'[p].pc # "members" /\ told' \subseteq told \cup {<<req[p].u, c>>}
    BY <2>1, IdleForwardsNothing DEF AfterCreateDoes, Ended, Created
  <2>3. ASSUME NEW q \in Procs \ {p}, req[q].pc = "members", req[q].op = "group"
        PROVE  req[q].c # c
    <3>1. Creates(req[q]) /\ req[q].c \in ids
      BY <2>3, KnownRequest DEF Creates, Creating
    <3>2. req[p].pc = "members" => Creates(req[p])
      BY DEF Creates, Creating, CvTypes, InOrder
    <3> QED BY <2>1, <3>1, <3>2 DEF OneCreator
  <2>4. \A q \in Procs \ {p}, u \in Users :
           req[q].pc = "members" /\ req[q].op = "group" /\ <<u, req[q].c>> \in told' => <<u, req[q].c>> \in told
    BY <2>2, <2>3
  <2> QED BY <2>2, <2>4, UntoldStep
<1>2. CASE InsertMembersDoes(p)
  BY <1>1, <1>2 DEF InsertMembersDoes
<1>3. CASE InsertConversationDoes(p)
  <2>1. CASE told' = told /\ Moved(p, "winner")
    BY <2>1, UntoldQuiet DEF Moved
  <2>2. CASE \E c \in Convs \ ids : told' = told /\ Created(p, "members", c)
    <3>1. PICK c \in Convs \ ids : told' = told /\ Created(p, "members", c)
      BY <2>2
    <3>2. \A u : <<u, c>> \notin told
      BY <3>1, KnownTold
    <3>3. req'[p].c = c /\ OthersWait(p)
      BY <3>1 DEF Created
    <3> QED BY <3>1, <3>2, <3>3, UntoldMade DEF GroupsUntold, OthersWait
  <2>3. CASE \E c \in Convs \ ids : AfterCreateDoes(p, c)
    BY <1>1, <2>3
  <2> QED BY <1>3, <2>1, <2>2, <2>3 DEF InsertConversationDoes
<1> QED BY <1>2, <1>3

LEMMA ProvisionUntold ==
    ASSUME ConversationsAssumption, CvTypes, NEW H, NEW P, Agree(H, P), GroupsUntold, NEW p \in Procs,
           ProvisionDoes(p) \/ ProvisionFailsDoes(p)
    PROVE  GroupsUntold'
<1>1. req[p].pc = "provision"
  BY DEF ProvisionDoes, ProvisionFailsDoes
<1>2. OthersWait(p) /\ req'[p].pc # "members"
  BY IdleForwardsNothing DEF ProvisionDoes, ProvisionFailsDoes, Ended, Moved, Undone
<1>3. CASE told' = told
  BY <1>2, <1>3, UntoldQuiet
<1>4. CASE told' # told
  <2>1. told' = told \cup {<<req[p].u, req[p].c>>} /\ req[p].op = "direct"
    BY <1>4 DEF ProvisionDoes, ProvisionFailsDoes
  <2>2. P[req[p].c] = {req[p].u, req[p].v}
    BY <1>1, <2>1 DEF Agree, ReqFits, Creates, Creating, PairOf
  <2>3. {req[p].u, req[p].v} # None
    BY <1>1, <2>1, AtWork DEF ConversationsAssumption, Pairs
  <2>4. \A q \in Procs \ {p}, u \in Users :
           req[q].pc = "members" /\ req[q].op = "group" /\ <<u, req[q].c>> \in told' => <<u, req[q].c>> \in told
    BY <2>1, <2>2, <2>3, GroupHasNoPair
  <2> QED BY <1>2, <2>4, UntoldStep
<1> QED BY <1>3, <1>4

LEMMA UntoldKept ==
    ASSUME ConversationsAssumption, CvTypes, MemberInv, Effect
    PROVE  GroupsUntold'
<1>1. PICK H, P : Agree(H, P)
  BY DEF MemberInv, Rooted
<1>2. OneCreator /\ GroupsUntold
  BY DEF MemberInv
<1>3. CASE \E c \in ids, u, v \in Users : SetMemberRoleDoes(u, v, c)
  BY <1>2, <1>3, UntoldMade DEF SetMemberRoleDoes, GroupsUntold
<1>4. CASE \E p \in Procs, c \in ids, u \in Users, delivered, read \in Nat : ReportDoes(p, u, c, delivered, read)
  <2>1. PICK p \in Procs : OthersWait(p) /\ req'[p].pc = "forward" /\ told' = told
    BY <1>4 DEF ReportDoes, NewRequest
  <2> QED BY <1>2, <2>1, UntoldQuiet
<1>5. CASE \E p \in Procs : BeginsDoes(p)
  <2>0. PICK p \in Procs : BeginsDoes(p)
    BY <1>5
  <2>1. PICK r : BeginsAny(r) /\ BeginDoes(p, r)
    BY <2>0 DEF BeginsDoes
  <2>2. r.pc # "members"
    BY <2>1 DEF BeginsAny, BeginsBy, BeginsGroup, BeginsDirect, BeginsAdd, BeginsRemove, BeginsPost, BeginsUpload, BeginsDelete, NewAt
  <2> QED BY <1>2, <2>1, <2>2, UntoldQuiet DEF BeginDoes
<1>6. CASE \E p \in Procs : FindDirectDoes(p) \/ WinnerDoes(p) \/ InsertConversationDoes(p) \/ InsertMembersDoes(p)
                            \/ ProvisionDoes(p) \/ ProvisionFailsDoes(p)
  BY <1>1, <1>2, <1>6, FindUntold, InsertUntold, ProvisionUntold
<1>7. CASE \E p \in Procs : /\ InsertMembersFailsDoes(p) \/ CallFailsDoes(p) \/ JoinSeqDoes(p) \/ InsertMemberDoes(p)
                               \/ RemoveMemberDoes(p) \/ TakeNumberDoes(p) \/ StoreMessageDoes(p) \/ ForwardReceiptDoes(p)
  <2>1. PICK p \in Procs : InsertMembersFailsDoes(p) \/ CallFailsDoes(p) \/ JoinSeqDoes(p) \/ InsertMemberDoes(p)
                           \/ RemoveMemberDoes(p) \/ TakeNumberDoes(p) \/ StoreMessageDoes(p) \/ ForwardReceiptDoes(p)
    BY <1>7
  <2>2. AfterAdd(p) # "members"
    BY DEF AfterAdd
  <2>3. OthersWait(p) /\ req'[p].pc # "members" /\ told' = told
    BY <2>1, <2>2, IdleForwardsNothing DEF InsertMembersFailsDoes, CallFailsDoes, JoinSeqDoes, InsertMemberDoes,
       RemoveMemberDoes, TakeNumberDoes, StoreMessageDoes, ForwardReceiptDoes, Moved, MovedWith, Ended
  <2> QED BY <1>2, <2>3, UntoldQuiet
<1>8. CASE \E p \in Procs : /\ PutBlobDoes(p) \/ RecordAttachmentDoes(p) \/ RecordFailsDoes(p) \/ UnputBlobDoes(p)
                               \/ DeleteBlobsDoes(p) \/ DeleteRecordsDoes(p) \/ DeleteStepDoes(p) \/ DeleteMirrorDoes(p)
  <2>1. PICK p \in Procs : PutBlobDoes(p) \/ RecordAttachmentDoes(p) \/ RecordFailsDoes(p) \/ UnputBlobDoes(p)
                           \/ DeleteBlobsDoes(p) \/ DeleteRecordsDoes(p) \/ DeleteStepDoes(p) \/ DeleteMirrorDoes(p)
    BY <1>8
  <2>2. OthersWait(p) /\ req'[p].pc # "members" /\ told' = told
    BY <2>1, IdleForwardsNothing DEF PutBlobDoes, RecordAttachmentDoes, RecordFailsDoes, UnputBlobDoes, DeleteBlobsDoes,
       DeleteRecordsDoes, DeleteStepDoes, DeletedLast, DeleteMirrorDoes, Moved, MovedWith, Ended
  <2> QED BY <1>2, <2>2, UntoldQuiet
<1> QED BY <1>3, <1>4, <1>5, <1>6, <1>7, <1>8 DEF Effect

LEMMA MemberKept ==
    ASSUME ConversationsAssumption, CvTypes, MemberInv, Effect
    PROVE  MemberInv'
<1>1. PICK H \in [Convs -> Hosts], P \in [Convs -> Pairs \cup {None}] : Agree(H, P)
  BY DEF MemberInv, Rooted
<1>2. PICK G \in [Convs -> Hosts], Q \in [Convs -> Pairs \cup {None}] : AgreeNext(G, Q)
  BY <1>1, AgreeKept
<1>3. Agree(G, Q)'
  BY <1>2, AgreeMade
<1>4. Rooted'
  BY <1>3 DEF Rooted
<1>5. OneCreator'
  BY OneCreatorKept DEF MemberInv
<1> QED BY <1>4, <1>5, SettledKept, UntoldKept DEF MemberInv

LEMMA InitRooted ==
    ASSUME ConversationsAssumption, Init
    PROVE  Rooted /\ OneCreator
<1>1. InitDoes
  BY InitIs
<1>2. told = {} /\ \A p \in Procs : req[p].pc = "idle"
  BY IdleForwardsNothing DEF Init
<1>3. \A p \in Procs : ~Creates(req[p]) /\ ~Adds(req[p])
  BY <1>2 DEF Creates, Creating, Undoing, Adds
<1>4. Home[Founder] \in Hosts /\ Chat \in Pairs /\ Chat # None
  BY DEF ConversationsAssumption, Pairs
<1>5. ASSUME NEW kind \in {"group", "direct"}, NEW pair \in Pairs \cup {None}, kind = "group" <=> pair = None,
             BeginsEmpty \/ BeginsChat(kind, pair)
      PROVE  Rooted
  <2>1. PICK H : H = [c \in Convs |-> Home[Founder]]
    OBVIOUS
  <2>2. PICK P : P = [c \in Convs |-> pair]
    OBVIOUS
  <2>3. H \in [Convs -> Hosts] /\ P \in [Convs -> Pairs \cup {None}]
    BY <1>4, <2>1, <2>2
  <2>4. \A h \in Hosts, c \in Convs : RowFits(Row(h, c), c, H, P)
    BY <1>5, <2>1, <2>2 DEF RowFits, BeginsEmpty, BeginsChat
  <2>5. Agree(H, P)
    BY <1>2, <1>3, <2>4 DEF Agree, ReqFits
  <2> QED BY <2>3, <2>5 DEF Rooted
<1>6. Rooted
  BY <1>1, <1>4, <1>5 DEF InitDoes
<1> QED BY <1>3, <1>6 DEF OneCreator

LEMMA InitMembers ==
    ASSUME ConversationsAssumption, Init
    PROVE  MemberInv
<1>1. InitDoes
  BY InitIs
<1>2. told = {} /\ \A p \in Procs : req[p].pc = "idle"
  BY IdleForwardsNothing DEF Init
<1>3. ASSUME NEW u \in Users, NEW c \in Convs, WantsIn(u, c)
      PROVE  Settled(u, c)
  <2>1. Home[u] \in Hosts
    BY DEF ConversationsAssumption
  <2>2. Row(Home[u], c) # None /\ Row(Home[u], c).pair # None /\ u \in Row(Home[u], c).pair
    BY <1>2, <1>3 DEF WantsIn
  <2>3. PICK kind, pair : BeginsChat(kind, pair) /\ (pair = None \/ pair = Chat)
    BY <1>1, <2>1, <2>2 DEF InitDoes, BeginsEmpty
  <2>4. c = 1 /\ Home[u] \in {Home[w] : w \in Chat} /\ Row(Home[u], c).pair = pair
    BY <2>1, <2>2, <2>3 DEF BeginsChat
  <2>5. u \in Chat
    BY <2>2, <2>3, <2>4
  <2>6. Fresh(Mem(Home[u], c, u))
    BY <2>1, <2>3, <2>4, <2>5 DEF BeginsChat
  <2> QED BY <2>6 DEF Fresh, Settled
<1> QED BY <1>2, <1>3, InitRooted DEF MemberInv, GroupsUntold, AllSettled

LEMMA SettledAreMembers ==
    ASSUME ConversationsAssumption, CvTypes, MemberInv
    PROVE  AnsweredIsMember
<1> SUFFICES ASSUME Quiet, NEW u \in Users, NEW c \in ids, <<u, c>> \in told
             PROVE  \/ <<u, c>> \in parted \/ c \in broken
                    \/ ~Exists(Home[u], c) \/ requireMember(u, c)
  BY DEF AnsweredIsMember
<1>1. c \in Convs
  BY DEF CvTypes, IdsInOrder
<1>2. Settled(u, c)
  BY <1>1 DEF MemberInv, AllSettled, WantsIn
<1>3. ~Wiped(Home[u], c) /\ ~Awaited(u, c)
  BY DEF Quiet, At, Wiped, Awaited
<1> QED BY <1>2, <1>3 DEF Settled, Exists, requireMember, Row, Mem

LEMMA StutterMembers ==
    ASSUME MemberInv, UNCHANGED vars
    PROVE  MemberInv'
<1>1. OneCreator' /\ GroupsUntold' /\ AllSettled'
  BY DEF MemberInv, OneCreator, Creates, Creating, Undoing, GroupsUntold, AllSettled, WantsIn, Settled, Wiped, Awaited,
         Row, Mem, vars, ghosts
<1>2. PICK H \in [Convs -> Hosts], P \in [Convs -> Pairs \cup {None}] : Agree(H, P)
  BY DEF MemberInv, Rooted
<1>3. AgreeNext(H, P)
  BY <1>2 DEF Agree, AgreeNext, Row, RowNext, vars, ghosts
<1>4. Agree(H, P)'
  BY <1>3, AgreeMade
<1>5. Rooted'
  BY <1>4 DEF Rooted
<1> QED BY <1>1, <1>5 DEF MemberInv

\* Whoever createDirect or createGroup answered with a conversation is a member of it once
\* the requests have ended, on either store and on one host or across two, unless they were
\* removed, the conversation is gone from their host, or a write of it was cut short.
THEOREM TheAnsweredAreMembers == Spec => []AnsweredIsMember
<1>1. Init => CvTypes /\ MemberInv
  BY ConversationsAssumption, InitTypes, InitMembers
<1>2. CvTypes /\ MemberInv /\ [Next]_vars => (CvTypes /\ MemberInv)'
  <2>1. CvTypes /\ MemberInv /\ Next => (CvTypes /\ MemberInv)'
    BY ConversationsAssumption, NextDoes, TypesKept, MemberKept
  <2> QED BY <2>1, StutterTypes, StutterMembers
<1>3. CvTypes /\ MemberInv => AnsweredIsMember
  BY ConversationsAssumption, SettledAreMembers
<1> QED BY <1>1, <1>2, <1>3, PTL DEF Spec

(***************************************************************************)
(* One chat per pair                                                       *)
(***************************************************************************)
\* What a request does to a direct chat c.
Filling(r, c) == r.pc = "members" /\ r.c = c
Making(r, c) == r.pc \in {"members", "provision"} /\ r.c = c
Undoes(r, c) == r.pc = "delete" /\ r.op = "undo" /\ r.c = c
Leaves(r, c) == r.pc = "removeMember" /\ r.c = c
Ends(r, c) == r.pc \in {"blobs", "records", "delete", "propagate"} /\ r.op = "delete" /\ r.c = c
Clears(r, h, c) == r.pc \in {"blobs", "records", "delete"} /\ r.h = h /\ r.c = c
Wipes(r, h, c) == r.pc = "delete" /\ r.todo = Todo1 /\ r.h = h /\ r.c = c
Tells(r, h, c) == r.pc = "propagate" /\ r.h = h /\ r.c = c
Plain(r, c) == r.pc \notin {"members", "provision", "removeMember", "blobs", "records", "delete", "propagate"} \/ r.c # c

Homes(pair) == {Home[x] : x \in pair}

\* A direct chat of a pair: R are the hosts with a row of it, M the memberships <<host, user>>,
\* Q the requests, and B says that a create or a delete of it was cut short.
OnHomes(hub, pair, R) == hub \in Homes(pair) /\ R \subseteq Homes(pair)
\* Whoever has a membership has a row, and the members of other hosts beside them.
RosterWhole(c, pair, R, M, Q) == \A h \in Hosts, u \in Users : <<h, u>> \in M =>
    /\ u \in pair /\ h \in R /\ \A p \in Procs : ~Wipes(Q[p], h, c)
    /\ \A x \in pair : Home[x] # h => <<h, x>> \in M
LeaveAlone(c, Q) == \A p \in Procs : Leaves(Q[p], c) => Q[p].v = Q[p].u
\* A delete knows every other home, and has no row any more when it tells them.
EndsEverywhere(c, pair, R, Q) == \A p \in Procs : Ends(Q[p], c) =>
    /\ Q[p].h \in Homes(pair) /\ \A h \in Homes(pair) : h # Q[p].h => h \in Q[p].arg
    /\ Q[p].pc = "propagate" => Q[p].h \notin R
\* Until it is mirrored, a chat is on its hub alone.
MadeOnHub(c, hub, R, Q) == \A p \in Procs : Making(Q[p], c) =>
    /\ \A k \in R : k = hub
    /\ \A q \in Procs : Ends(Q[q], c) => Q[q].h = hub
Unfilled(c, hub, R, M, Q) == \A p \in Procs : Filling(Q[p], c) =>
    hub \in R /\ (\A u \in Users : <<hub, u>> \notin M) /\ \A q \in Procs : ~Ends(Q[q], c)
UndoneOnHub(c, hub, R, Q, B) == \A p \in Procs : Undoes(Q[p], c) => B \/ \A k \in R : k = hub
\* A row has the members of the other hosts beside it, unless it is being made or deleted.
OthersBeside(c, pair, R, M, Q, B) == \A h \in R, x \in pair : Home[x] # h =>
    \/ <<h, x>> \in M \/ B \/ \E p \in Procs : Wipes(Q[p], h, c) \/ Filling(Q[p], c)
\* The chat is on both homes or on none, unless it is being made or deleted.
BothOrNone(c, pair, R, Q, B) == \A h \in R, k \in Homes(pair) :
    k \in R \/ B \/ \E p \in Procs : Clears(Q[p], h, c) \/ Tells(Q[p], k, c) \/ Making(Q[p], c)

ChatWhole(c, hub, pair, R, M, Q, B) ==
    /\ OnHomes(hub, pair, R) /\ RosterWhole(c, pair, R, M, Q) /\ LeaveAlone(c, Q)
    /\ EndsEverywhere(c, pair, R, Q) /\ MadeOnHub(c, hub, R, Q) /\ Unfilled(c, hub, R, M, Q)
    /\ UndoneOnHub(c, hub, R, Q, B) /\ OthersBeside(c, pair, R, M, Q, B) /\ BothOrNone(c, pair, R, Q, B)

\* A request that has no more to do with the chat, and none before, or the chat is broken.
LEMMA WholeLess ==
    ASSUME NEW c, NEW hub, NEW pair, NEW R, NEW M, NEW Q, NEW Z, NEW B, NEW D, NEW p \in Procs,
           ChatWhole(c, hub, pair, R, M, Q, B), \A q \in Procs : q # p => Z[q] = Q[q],
           Plain(Z[p], c), Plain(Q[p], c) \/ Leaves(Q[p], c) \/ D, B => D
    PROVE  ChatWhole(c, hub, pair, R, M, Z, D)
<1>1. /\ ~Filling(Z[p], c) /\ ~Making(Z[p], c) /\ ~Undoes(Z[p], c) /\ ~Leaves(Z[p], c) /\ ~Ends(Z[p], c)
      /\ \A h : ~Wipes(Z[p], h, c)
  BY DEF Plain, Filling, Making, Undoes, Leaves, Ends, Wipes
<1>2. \/ D
      \/ /\ ~Filling(Q[p], c) /\ ~Making(Q[p], c)
         /\ \A h : ~Wipes(Q[p], h, c) /\ ~Clears(Q[p], h, c) /\ ~Tells(Q[p], h, c)
  BY DEF Plain, Filling, Making, Leaves, Wipes, Clears, Tells
<1>3. RosterWhole(c, pair, R, M, Z)
  BY <1>1 DEF ChatWhole, RosterWhole
<1>4. LeaveAlone(c, Z) /\ EndsEverywhere(c, pair, R, Z)
  BY <1>1 DEF ChatWhole, LeaveAlone, EndsEverywhere
<1>5. MadeOnHub(c, hub, R, Z) /\ Unfilled(c, hub, R, M, Z)
  BY <1>1 DEF ChatWhole, MadeOnHub, Unfilled
<1>6. UndoneOnHub(c, hub, R, Z, D)
  BY <1>1 DEF ChatWhole, UndoneOnHub
<1>7. OthersBeside(c, pair, R, M, Z, D)
  BY <1>2 DEF ChatWhole, OthersBeside
<1>8. BothOrNone(c, pair, R, Z, D)
  BY <1>2 DEF ChatWhole, BothOrNone
<1> QED BY <1>3, <1>4, <1>5, <1>6, <1>7, <1>8 DEF ChatWhole

\* A delete begins.
LEMMA WholeEnds ==
    ASSUME NEW c, NEW hub, NEW pair, NEW R, NEW M, NEW Q, NEW Z, NEW B, NEW p \in Procs,
           ChatWhole(c, hub, pair, R, M, Q, B), \A q \in Procs : q # p => Z[q] = Q[q],
           Plain(Q[p], c), Z[p].pc = "blobs", Z[p].op = "delete", Z[p].c = c, NEW u \in Users,
           Z[p].h = Home[u], Home[u] \in Hosts, <<Home[u], u>> \in M, pair \subseteq Users,
           \A w \in Users : <<Home[u], w>> \in M /\ Home[w] # Home[u] => Home[w] \in Z[p].arg
    PROVE  ChatWhole(c, hub, pair, R, M, Z, B)
<1>1. /\ ~Filling(Z[p], c) /\ ~Making(Z[p], c) /\ ~Undoes(Z[p], c) /\ ~Leaves(Z[p], c)
      /\ \A h : ~Wipes(Z[p], h, c)
  BY DEF Filling, Making, Undoes, Leaves, Wipes
<1>2. /\ ~Filling(Q[p], c) /\ ~Making(Q[p], c)
      /\ \A h : ~Wipes(Q[p], h, c) /\ ~Clears(Q[p], h, c) /\ ~Tells(Q[p], h, c)
  BY DEF Plain, Filling, Making, Wipes, Clears, Tells
<1>3. /\ u \in pair /\ Home[u] \in R /\ Home[u] \in Homes(pair)
      /\ \A x \in pair : Home[x] # Home[u] => <<Home[u], x>> \in M
  BY DEF ChatWhole, RosterWhole, Homes
<1>4. \A h \in Homes(pair) : h # Home[u] => h \in Z[p].arg
  BY <1>3 DEF Homes
<1>5. RosterWhole(c, pair, R, M, Z)
  BY <1>1 DEF ChatWhole, RosterWhole
<1>6. LeaveAlone(c, Z)
  BY <1>1 DEF ChatWhole, LeaveAlone
<1>7. EndsEverywhere(c, pair, R, Z)
  BY <1>3, <1>4 DEF ChatWhole, EndsEverywhere
<1>8. MadeOnHub(c, hub, R, Z)
  <2>1. ASSUME NEW q \in Procs, Making(Z[q], c) PROVE q # p /\ Making(Q[q], c) /\ Home[u] = hub
    BY <1>1, <1>3, <2>1 DEF ChatWhole, MadeOnHub
  <2> QED BY <2>1 DEF ChatWhole, MadeOnHub
<1>9. Unfilled(c, hub, R, M, Z)
  <2>1. ASSUME NEW q \in Procs, Filling(Z[q], c) PROVE FALSE
    <3>1. Filling(Q[q], c) /\ Making(Q[q], c)
      BY <1>1, <2>1 DEF Filling, Making
    <3> QED BY <1>3, <3>1 DEF ChatWhole, MadeOnHub, Unfilled
  <2> QED BY <2>1 DEF Unfilled
<1>10. UndoneOnHub(c, hub, R, Z, B)
  BY <1>1 DEF ChatWhole, UndoneOnHub
<1>11. OthersBeside(c, pair, R, M, Z, B)
  BY <1>2 DEF ChatWhole, OthersBeside
<1>12. BothOrNone(c, pair, R, Z, B)
  BY <1>2 DEF ChatWhole, BothOrNone
<1> QED BY <1>5, <1>6, <1>7, <1>8, <1>9, <1>10, <1>11, <1>12 DEF ChatWhole

\* Somebody is about to leave, and leaves.
LEMMA WholeLeaves ==
    ASSUME NEW c, NEW hub, NEW pair, NEW R, NEW M, NEW Q, NEW Z, NEW B, NEW p \in Procs,
           ChatWhole(c, hub, pair, R, M, Q, B), \A q \in Procs : q # p => Z[q] = Q[q],
           Plain(Q[p], c), Leaves(Z[p], c), Z[p].v = Z[p].u
    PROVE  ChatWhole(c, hub, pair, R, M, Z, B)
<1>1. /\ ~Filling(Z[p], c) /\ ~Making(Z[p], c) /\ ~Undoes(Z[p], c) /\ ~Ends(Z[p], c)
      /\ \A h : ~Wipes(Z[p], h, c)
  BY DEF Filling, Making, Undoes, Leaves, Wipes, Ends
<1>2. /\ ~Filling(Q[p], c) /\ ~Making(Q[p], c)
      /\ \A h : ~Wipes(Q[p], h, c) /\ ~Clears(Q[p], h, c) /\ ~Tells(Q[p], h, c)
  BY DEF Plain, Filling, Making, Wipes, Clears, Tells
<1>3. RosterWhole(c, pair, R, M, Z)
  BY <1>1 DEF ChatWhole, RosterWhole
<1>4. LeaveAlone(c, Z) /\ EndsEverywhere(c, pair, R, Z)
  BY <1>1 DEF ChatWhole, LeaveAlone, EndsEverywhere
<1>5. MadeOnHub(c, hub, R, Z) /\ Unfilled(c, hub, R, M, Z)
  BY <1>1 DEF ChatWhole, MadeOnHub, Unfilled
<1>6. UndoneOnHub(c, hub, R, Z, B)
  BY <1>1 DEF ChatWhole, UndoneOnHub
<1>7. OthersBeside(c, pair, R, M, Z, B)
  BY <1>2 DEF ChatWhole, OthersBeside
<1>8. BothOrNone(c, pair, R, Z, B)
  BY <1>2 DEF ChatWhole, BothOrNone
<1> QED BY <1>3, <1>4, <1>5, <1>6, <1>7, <1>8 DEF ChatWhole

LEMMA WholeLeft ==
    ASSUME NEW c, NEW hub, NEW pair, NEW R, NEW M, NEW Q, NEW B, NEW u, NEW N, N = M \ {<<Home[u], u>>},
           ChatWhole(c, hub, pair, R, M, Q, B)
    PROVE  ChatWhole(c, hub, pair, R, N, Q, B)
<1>1. \A h, x : <<h, x>> \in N => <<h, x>> \in M
  OBVIOUS
<1>2. \A h, x : <<h, x>> \in M /\ Home[x] # h => <<h, x>> \in N
  OBVIOUS
<1>3. RosterWhole(c, pair, R, N, Q)
  BY <1>1, <1>2 DEF ChatWhole, RosterWhole
<1>4. Unfilled(c, hub, R, N, Q)
  BY <1>1 DEF ChatWhole, Unfilled
<1>5. OthersBeside(c, pair, R, N, Q, B)
  BY <1>2 DEF ChatWhole, OthersBeside
<1> QED BY <1>3, <1>4, <1>5 DEF ChatWhole

\* A delete goes on, with the memberships still there.
LEMMA WholeGoes ==
    ASSUME NEW c, NEW hub, NEW pair, NEW R, NEW M, NEW Q, NEW Z, NEW B, NEW p \in Procs,
           ChatWhole(c, hub, pair, R, M, Q, B), \A q \in Procs : q # p => Z[q] = Q[q],
           Q[p].pc \in {"blobs", "records", "delete"}, Q[p].c = c,
           Z[p].c = c, Z[p].h = Q[p].h, Z[p].op = Q[p].op, Z[p].arg = Q[p].arg,
           \/ Q[p].op = "delete" /\ Z[p].pc \in {"records", "delete"}
           \/ Q[p].pc = "delete" /\ Z[p].pc = "delete",
           Z[p].pc = "delete" => Z[p].todo # Todo1, ~Wipes(Q[p], Q[p].h, c)
    PROVE  ChatWhole(c, hub, pair, R, M, Z, B)
<1>1. /\ ~Filling(Z[p], c) /\ ~Making(Z[p], c) /\ ~Leaves(Z[p], c)
      /\ \A h : ~Wipes(Z[p], h, c)
  BY DEF Filling, Making, Leaves, Wipes
<1>2. /\ ~Filling(Q[p], c) /\ ~Making(Q[p], c) /\ \A h : ~Wipes(Q[p], h, c) /\ ~Tells(Q[p], h, c)
  BY DEF Filling, Making, Wipes, Tells
<1>3. \A h : Clears(Q[p], h, c) => Clears(Z[p], h, c)
  BY DEF Clears
<1>4. Undoes(Z[p], c) => Undoes(Q[p], c)
  BY DEF Undoes
<1>5. (Ends(Z[p], c) => Ends(Q[p], c)) /\ Z[p].pc # "propagate"
  BY DEF Ends
<1>6. RosterWhole(c, pair, R, M, Z)
  BY <1>1 DEF ChatWhole, RosterWhole
<1>7. LeaveAlone(c, Z) /\ EndsEverywhere(c, pair, R, Z)
  BY <1>1, <1>5 DEF ChatWhole, LeaveAlone, EndsEverywhere
<1>8. MadeOnHub(c, hub, R, Z) /\ Unfilled(c, hub, R, M, Z)
  BY <1>1, <1>5 DEF ChatWhole, MadeOnHub, Unfilled
<1>9. UndoneOnHub(c, hub, R, Z, B)
  BY <1>4 DEF ChatWhole, UndoneOnHub
<1>10. OthersBeside(c, pair, R, M, Z, B)
  BY <1>2 DEF ChatWhole, OthersBeside
<1>11. BothOrNone(c, pair, R, Z, B)
  BY <1>2, <1>3 DEF ChatWhole, BothOrNone
<1> QED BY <1>6, <1>7, <1>8, <1>9, <1>10, <1>11 DEF ChatWhole

\* ... takes the memberships ...
LEMMA WholeWiped ==
    ASSUME NEW c, NEW hub, NEW pair, NEW R, NEW M, NEW N, NEW Q, NEW Z, NEW B, NEW p \in Procs, NEW h,
           ChatWhole(c, hub, pair, R, M, Q, B), \A q \in Procs : q # p => Z[q] = Q[q],
           Q[p].pc = "delete", Q[p].c = c, Q[p].h = h, Q[p].todo = Todo2,
           Z[p].pc = "delete", Z[p].c = c, Z[p].h = h, Z[p].op = Q[p].op, Z[p].arg = Q[p].arg, Z[p].todo = Todo1,
           Todo1 # Todo2, \A x : <<h, x>> \notin N, \A k, x : k # h => (<<k, x>> \in N <=> <<k, x>> \in M)
    PROVE  ChatWhole(c, hub, pair, R, N, Z, B)
<1>1. /\ ~Filling(Z[p], c) /\ ~Making(Z[p], c) /\ ~Leaves(Z[p], c)
      /\ Wipes(Z[p], h, c) /\ \A k : k # h => ~Wipes(Z[p], k, c)
  BY DEF Filling, Making, Leaves, Wipes
<1>2. /\ ~Filling(Q[p], c) /\ ~Making(Q[p], c) /\ \A k : ~Wipes(Q[p], k, c) /\ ~Tells(Q[p], k, c)
  BY DEF Filling, Making, Wipes, Tells
<1>3. \A k : Clears(Q[p], k, c) => Clears(Z[p], k, c)
  BY DEF Clears
<1>4. Undoes(Z[p], c) => Undoes(Q[p], c)
  BY DEF Undoes
<1>5. (Ends(Z[p], c) => Ends(Q[p], c)) /\ Z[p].pc # "propagate"
  BY DEF Ends
<1>6. RosterWhole(c, pair, R, N, Z)
  BY <1>1 DEF ChatWhole, RosterWhole
<1>7. LeaveAlone(c, Z) /\ EndsEverywhere(c, pair, R, Z)
  BY <1>1, <1>5 DEF ChatWhole, LeaveAlone, EndsEverywhere
<1>8. MadeOnHub(c, hub, R, Z) /\ Unfilled(c, hub, R, N, Z)
  BY <1>1, <1>5 DEF ChatWhole, MadeOnHub, Unfilled
<1>9. UndoneOnHub(c, hub, R, Z, B)
  BY <1>4 DEF ChatWhole, UndoneOnHub
<1>10. OthersBeside(c, pair, R, N, Z, B)
  BY <1>1, <1>2 DEF ChatWhole, OthersBeside
<1>11. BothOrNone(c, pair, R, Z, B)
  BY <1>2, <1>3 DEF ChatWhole, BothOrNone
<1> QED BY <1>6, <1>7, <1>8, <1>9, <1>10, <1>11 DEF ChatWhole

\* ... and then the row, and is through or goes on to tell the other host.
Through(p, c, hub, h, Q, Z) ==
    \/ /\ Q[p].op = "delete"
       /\ Z[p].pc = "propagate" /\ Z[p].c = c /\ Z[p].h = h /\ Z[p].op = "delete" /\ Z[p].arg = Q[p].arg
    \/ Undoes(Q[p], c) /\ Plain(Z[p], c) /\ h = hub /\ \A q \in Procs : q # p => ~Making(Q[q], c)

LEMMA WholeGone ==
    ASSUME NEW c, NEW hub, NEW pair, NEW R, NEW S, NEW M, NEW Q, NEW Z, NEW B, NEW p \in Procs, NEW h,
           ChatWhole(c, hub, pair, R, M, Q, B), \A q \in Procs : q # p => Z[q] = Q[q],
           Wipes(Q[p], h, c), S = R \ {h}, Through(p, c, hub, h, Q, Z)
    PROVE  ChatWhole(c, hub, pair, S, M, Z, B)
<1> USE DEF Through
<1>1. /\ ~Filling(Z[p], c) /\ ~Making(Z[p], c) /\ ~Leaves(Z[p], c) /\ ~Undoes(Z[p], c)
      /\ \A k : ~Wipes(Z[p], k, c)
  BY DEF Plain, Filling, Making, Leaves, Undoes, Wipes
<1>2. /\ ~Filling(Q[p], c) /\ ~Making(Q[p], c)
      /\ \A k : ~Tells(Q[p], k, c) /\ (k # h => ~Wipes(Q[p], k, c) /\ ~Clears(Q[p], k, c))
  BY DEF Filling, Making, Wipes, Tells, Clears
<1>3. Ends(Z[p], c) => Ends(Q[p], c) /\ Z[p].h = h /\ Q[p].h = h /\ Z[p].arg = Q[p].arg
  BY DEF Ends, Plain, Undoes, Wipes
<1>4. RosterWhole(c, pair, S, M, Z)
  <2>1. \A k \in Hosts, u \in Users : <<k, u>> \in M => k # h
    BY DEF ChatWhole, RosterWhole
  <2> QED BY <1>1, <2>1 DEF ChatWhole, RosterWhole
<1>5. LeaveAlone(c, Z) /\ EndsEverywhere(c, pair, S, Z)
  BY <1>1, <1>3 DEF ChatWhole, LeaveAlone, EndsEverywhere
<1>6. MadeOnHub(c, hub, S, Z)
  BY <1>1, <1>3 DEF ChatWhole, MadeOnHub
<1>7. Unfilled(c, hub, S, M, Z)
  <2>1. ASSUME NEW q \in Procs, Filling(Z[q], c) PROVE FALSE
    <3>1. q # p /\ Filling(Q[q], c) /\ Making(Q[q], c)
      BY <1>1, <2>1 DEF Filling, Making
    <3>2. Q[p].op = "delete" /\ Ends(Q[p], c)
      BY <3>1 DEF Ends, Wipes
    <3> QED BY <3>1, <3>2 DEF ChatWhole, Unfilled
  <2> QED BY <2>1 DEF Unfilled
<1>8. UndoneOnHub(c, hub, S, Z, B)
  BY <1>1 DEF ChatWhole, UndoneOnHub
<1>9. OthersBeside(c, pair, S, M, Z, B)
  BY <1>2 DEF ChatWhole, OthersBeside
<1>10. BothOrNone(c, pair, S, Z, B)
  <2>1. SUFFICES ASSUME NEW k \in S, NEW l \in Homes(pair), l \notin S, ~B
                 PROVE  \E q \in Procs : Clears(Z[q], k, c) \/ Tells(Z[q], l, c) \/ Making(Z[q], c)
    BY DEF BothOrNone
  <2>2. k \in R /\ k # h
    OBVIOUS
  <2>3. CASE l \in R
    <3>1. l = h
      BY <2>1, <2>3
    <3>2. CASE Undoes(Q[p], c) /\ h = hub
      BY <2>1, <2>2, <3>2 DEF ChatWhole, UndoneOnHub
    <3>3. CASE Z[p].pc = "propagate" /\ Z[p].c = c /\ Z[p].h = h
      BY <3>1, <3>3 DEF Tells
    <3> QED BY <3>2, <3>3
  <2>4. CASE l \notin R
    <3>1. PICK q \in Procs : Clears(Q[q], k, c) \/ Tells(Q[q], l, c) \/ Making(Q[q], c)
      BY <2>1, <2>2, <2>4 DEF ChatWhole, BothOrNone
    <3> QED BY <1>2, <2>2, <3>1
  <2> QED BY <2>3, <2>4
<1>11. OnHomes(hub, pair, S)
  BY DEF ChatWhole, OnHomes
<1> QED BY <1>4, <1>5, <1>6, <1>7, <1>8, <1>9, <1>10, <1>11 DEF ChatWhole

\* Who may be at work on a chat while one request makes it.
Alone(p, c, Q) == \A q \in Procs : q # p => ~Making(Q[q], c) /\ ~Undoes(Q[q], c)
Deletes(Q) == \A q \in Procs : Q[q].pc = "delete" => Q[q].op \in {"delete", "undo"}

\* A chat is given its members.
LEMMA WholeFilled ==
    ASSUME NEW c, NEW hub \in Hosts, NEW pair, pair \subseteq Users, NEW R, NEW M, NEW N, NEW Q, NEW Z, NEW B,
           NEW p \in Procs, ChatWhole(c, hub, pair, R, M, Q, B), \A q \in Procs : q # p => Z[q] = Q[q],
           Filling(Q[p], c), Alone(p, c, Q), Deletes(Q),
           (Plain(Z[p], c) /\ \A k \in Homes(pair) : k = hub) \/ (Making(Z[p], c) /\ ~Filling(Z[p], c)),
           \A x \in Users : <<hub, x>> \in N <=> x \in pair,
           \A k \in Hosts, x \in Users : k # hub => (<<k, x>> \in N <=> <<k, x>> \in M)
    PROVE  ChatWhole(c, hub, pair, R, N, Z, B)
<1>1. /\ ~Filling(Z[p], c) /\ ~Leaves(Z[p], c) /\ ~Undoes(Z[p], c) /\ ~Ends(Z[p], c)
      /\ \A k : ~Wipes(Z[p], k, c)
  BY DEF Plain, Filling, Making, Leaves, Undoes, Ends, Wipes
<1>2. /\ Making(Q[p], c) /\ hub \in R /\ (\A k \in R : k = hub) /\ \A q \in Procs : ~Ends(Q[q], c)
  <2>1. Making(Q[p], c)
    BY DEF Filling, Making
  <2> QED BY <2>1 DEF ChatWhole, MadeOnHub, Unfilled
<1>3. \A q \in Procs : q # p => ~Making(Z[q], c) /\ ~Undoes(Z[q], c) /\ ~Ends(Z[q], c) /\ ~Filling(Z[q], c)
  BY <1>2 DEF Alone, Making, Filling
<1>4. \A q \in Procs, k \in Hosts : ~Wipes(Z[q], k, c)
  BY <1>1, <1>3 DEF Deletes, Ends, Undoes, Wipes
<1>5. \A k \in Hosts, x \in Users : <<k, x>> \in N => k = hub /\ x \in pair
  BY <1>2 DEF ChatWhole, RosterWhole
<1>6. RosterWhole(c, pair, R, N, Z)
  BY <1>2, <1>4, <1>5 DEF RosterWhole
<1>7. LeaveAlone(c, Z) /\ EndsEverywhere(c, pair, R, Z)
  BY <1>1, <1>3 DEF ChatWhole, LeaveAlone, EndsEverywhere
<1>8. MadeOnHub(c, hub, R, Z)
  BY <1>1, <1>2, <1>3 DEF MadeOnHub
<1>9. Unfilled(c, hub, R, N, Z)
  BY <1>1, <1>3 DEF Unfilled
<1>10. UndoneOnHub(c, hub, R, Z, B)
  BY <1>1, <1>3 DEF UndoneOnHub
<1>11. OthersBeside(c, pair, R, N, Z, B)
  BY <1>2 DEF OthersBeside
<1>12. BothOrNone(c, pair, R, Z, B)
  BY <1>2 DEF BothOrNone
<1>13. OnHomes(hub, pair, R)
  BY DEF ChatWhole
<1> QED BY <1>6, <1>7, <1>8, <1>9, <1>10, <1>11, <1>12, <1>13 DEF ChatWhole

\* A chat is mirrored, and its creator hears of it or not.
LEMMA WholeMirrored ==
    ASSUME NEW c, NEW hub \in Hosts, NEW pair, NEW u \in Users, NEW v \in Users, pair = {u, v}, Home[v] # hub,
           Home[v] \in Hosts, NEW R, NEW S, NEW M, NEW N, NEW Q, NEW Z, NEW B, NEW D, B => D,
           NEW p \in Procs, ChatWhole(c, hub, pair, R, M, Q, B), \A q \in Procs : q # p => Z[q] = Q[q],
           Making(Q[p], c), Alone(p, c, Q), Deletes(Q), S = R \cup {Home[v]}, Home[u] = hub,
           Plain(Z[p], c) \/ (D /\ Undoes(Z[p], c) /\ Z[p].todo # Todo1),
           NEW w \in Users, w # v, <<hub, w>> \in M,
           \A x \in Users : <<Home[v], x>> \in N <=> (x = v \/ <<hub, x>> \in M),
           \A k \in Hosts, x \in Users : k # Home[v] => (<<k, x>> \in N <=> <<k, x>> \in M)
    PROVE  ChatWhole(c, hub, pair, S, N, Z, D)
<1>1. /\ ~Filling(Z[p], c) /\ ~Making(Z[p], c) /\ ~Leaves(Z[p], c) /\ ~Ends(Z[p], c)
      /\ (\A k : ~Wipes(Z[p], k, c)) /\ (Undoes(Z[p], c) => D)
  BY DEF Plain, Filling, Making, Leaves, Undoes, Ends, Wipes
<1>2. (\A k \in R : k = hub) /\ \A q \in Procs : Ends(Q[q], c) => Q[q].h = hub
  BY DEF ChatWhole, MadeOnHub
<1>3. w = u /\ hub \in R /\ <<hub, v>> \in M /\ <<hub, u>> \in M
  BY DEF ChatWhole, RosterWhole
<1>4. \A q \in Procs : q # p => ~Making(Z[q], c) /\ ~Undoes(Z[q], c) /\ ~Filling(Z[q], c)
  BY DEF Alone, Making, Filling
<1>5. \A q \in Procs : ~Wipes(Z[q], Home[v], c)
  BY <1>1, <1>2, <1>4 DEF Deletes, Ends, Undoes, Wipes
<1>6. \A k \in Hosts, x \in Users : <<k, x>> \in N => (k = hub /\ <<hub, x>> \in M) \/ (k = Home[v] /\ x \in pair)
  BY <1>2 DEF ChatWhole, RosterWhole
<1>7. \A q \in Procs : ~Wipes(Z[q], hub, c)
  BY <1>1, <1>3 DEF ChatWhole, RosterWhole
<1>8. RosterWhole(c, pair, S, N, Z)
  <2>1. SUFFICES ASSUME NEW k \in Hosts, NEW x \in Users, <<k, x>> \in N
                 PROVE  /\ x \in pair /\ k \in S /\ \A q \in Procs : ~Wipes(Z[q], k, c)
                        /\ \A y \in pair : Home[y] # k => <<k, y>> \in N
    BY DEF RosterWhole
  <2>2. CASE k = hub
    <3>1. x \in pair
      BY <1>6, <2>1, <2>2 DEF ChatWhole, RosterWhole
    <3> QED BY <1>3, <1>7, <2>2, <3>1
  <2>3. CASE k = Home[v]
    <3>1. x \in pair
      BY <1>6, <2>1, <2>3
    <3> QED BY <1>3, <1>5, <2>3, <3>1
  <2> QED BY <1>6, <2>1, <2>2, <2>3
<1>9. LeaveAlone(c, Z)
  BY <1>1 DEF ChatWhole, LeaveAlone
<1>10. EndsEverywhere(c, pair, S, Z)
  BY <1>1, <1>2, <1>3 DEF ChatWhole, EndsEverywhere
<1>11. MadeOnHub(c, hub, S, Z) /\ Unfilled(c, hub, S, N, Z)
  BY <1>1, <1>4 DEF MadeOnHub, Unfilled
<1>12. UndoneOnHub(c, hub, S, Z, D)
  BY <1>1, <1>4 DEF UndoneOnHub
<1>13. OthersBeside(c, pair, S, N, Z, D)
  BY <1>2, <1>3 DEF OthersBeside
<1>14. BothOrNone(c, pair, S, Z, D)
  BY <1>3 DEF BothOrNone, Homes
<1>15. OnHomes(hub, pair, S)
  BY DEF ChatWhole, OnHomes, Homes
<1> QED BY <1>8, <1>9, <1>10, <1>11, <1>12, <1>13, <1>14, <1>15 DEF ChatWhole

\* A chat that could not be mirrored is going to be undone.
LEMMA WholeUndone ==
    ASSUME NEW c, NEW hub, NEW pair, NEW R, NEW M, NEW Q, NEW Z, NEW B,
           NEW p \in Procs, ChatWhole(c, hub, pair, R, M, Q, B), \A q \in Procs : q # p => Z[q] = Q[q],
           Making(Q[p], c), ~Filling(Q[p], c), Alone(p, c, Q),
           Undoes(Z[p], c), Z[p].todo # Todo1, Z[p].h = hub
    PROVE  ChatWhole(c, hub, pair, R, M, Z, B)
<1>1. /\ ~Filling(Z[p], c) /\ ~Making(Z[p], c) /\ ~Leaves(Z[p], c) /\ ~Ends(Z[p], c)
      /\ (\A k : ~Wipes(Z[p], k, c)) /\ Clears(Z[p], hub, c)
  BY DEF Filling, Making, Leaves, Undoes, Ends, Wipes, Clears
<1>2. \A k \in R : k = hub
  BY DEF ChatWhole, MadeOnHub
<1>3. \A k : ~Wipes(Q[p], k, c)
  BY DEF Making, Wipes
<1>4. RosterWhole(c, pair, R, M, Z)
  BY <1>1 DEF ChatWhole, RosterWhole
<1>5. LeaveAlone(c, Z) /\ EndsEverywhere(c, pair, R, Z)
  BY <1>1 DEF ChatWhole, LeaveAlone, EndsEverywhere
<1>6. MadeOnHub(c, hub, R, Z) /\ Unfilled(c, hub, R, M, Z)
  BY <1>1 DEF ChatWhole, Alone, MadeOnHub, Unfilled
<1>7. UndoneOnHub(c, hub, R, Z, B)
  BY <1>2 DEF UndoneOnHub
<1>8. OthersBeside(c, pair, R, M, Z, B)
  BY <1>3 DEF ChatWhole, OthersBeside
<1>9. BothOrNone(c, pair, R, Z, B)
  BY <1>1, <1>2 DEF BothOrNone
<1> QED BY <1>4, <1>5, <1>6, <1>7, <1>8, <1>9 DEF ChatWhole

\* A delete has told the other home, which took the chat off its tables or refused to.
LEMMA WholeTold ==
    ASSUME NEW c, NEW hub, NEW pair, NEW a \in Users, NEW b \in Users, pair = {a, b},
           NEW R, R \subseteq Hosts, NEW S, S \subseteq Hosts, NEW M, NEW N, NEW Q, NEW Z, NEW B,
           NEW p \in Procs, ChatWhole(c, hub, pair, R, M, Q, B), \A q \in Procs : q # p => Z[q] = Q[q],
           Q[p].pc = "propagate", Q[p].op = "delete", Q[p].c = c, Plain(Z[p], c),
           \A k \in Hosts :
              \/ /\ (k \in S <=> k \in R) /\ \A x \in Users : <<k, x>> \in N <=> <<k, x>> \in M
                 /\ k \in Q[p].arg /\ k \in R =>
                       hub # Q[p].h /\ \A x \in Users : <<k, x>> \in M => Home[x] # Q[p].h
              \/ k \notin S /\ \A x \in Users : <<k, x>> \notin N
    PROVE  ChatWhole(c, hub, pair, S, N, Z, B)
<1>1. /\ ~Filling(Z[p], c) /\ ~Making(Z[p], c) /\ ~Leaves(Z[p], c) /\ ~Undoes(Z[p], c) /\ ~Ends(Z[p], c)
      /\ \A k : ~Wipes(Z[p], k, c)
  BY DEF Plain, Filling, Making, Leaves, Undoes, Ends, Wipes
<1>2. /\ ~Filling(Q[p], c) /\ ~Making(Q[p], c) /\ Ends(Q[p], c)
      /\ \A k : ~Wipes(Q[p], k, c)
  BY DEF Filling, Making, Wipes, Ends
<1>3. PICK o : o = Q[p].h
  OBVIOUS
<1>4. o \in Homes(pair) /\ (\A k \in Homes(pair) : k # o => k \in Q[p].arg) /\ o \notin R
  BY <1>2, <1>3 DEF ChatWhole, EndsEverywhere
<1>5. \A k \in S : k \in R /\ k \in Hosts /\ k \in Homes(pair) /\ k # o
  BY <1>4 DEF ChatWhole, OnHomes
<1>6. \A k \in Hosts, x \in Users : <<k, x>> \in N => <<k, x>> \in M /\ (k \in R => k \in S)
  OBVIOUS
<1>7. \A k \in S, x \in Users : <<k, x>> \in N <=> <<k, x>> \in M
  BY <1>5
<1>8. \A q \in Procs : ~Filling(Q[q], c)
  BY <1>2 DEF ChatWhole, Unfilled
<1>9. RosterWhole(c, pair, S, N, Z)
  <2>1. SUFFICES ASSUME NEW k \in Hosts, NEW x \in Users, <<k, x>> \in N
                 PROVE  /\ x \in pair /\ k \in S /\ \A q \in Procs : ~Wipes(Z[q], k, c)
                        /\ \A y \in pair : Home[y] # k => <<k, y>> \in N
    BY DEF RosterWhole
  <2>2. /\ x \in pair /\ k \in R /\ \A q \in Procs : ~Wipes(Q[q], k, c)
        /\ \A y \in pair : Home[y] # k => <<k, y>> \in M
    BY <1>6, <2>1 DEF ChatWhole, RosterWhole
  <2>3. k \in S
    BY <1>6, <2>1, <2>2
  <2> QED BY <1>1, <1>7, <2>2, <2>3
<1>10. LeaveAlone(c, Z) /\ EndsEverywhere(c, pair, S, Z)
  BY <1>1, <1>5 DEF ChatWhole, LeaveAlone, EndsEverywhere
<1>11. MadeOnHub(c, hub, S, Z)
  BY <1>1, <1>5 DEF ChatWhole, MadeOnHub
<1>12. Unfilled(c, hub, S, N, Z)
  BY <1>1, <1>8 DEF Unfilled
<1>13. UndoneOnHub(c, hub, S, Z, B)
  BY <1>1, <1>5 DEF ChatWhole, UndoneOnHub
<1>14. OthersBeside(c, pair, S, N, Z, B)
  <2>1. SUFFICES ASSUME NEW k \in S, NEW x \in pair, Home[x] # k
                 PROVE  <<k, x>> \in N \/ B \/ \E q \in Procs : Wipes(Z[q], k, c) \/ Filling(Z[q], c)
    BY DEF OthersBeside
  <2>2. <<k, x>> \in M \/ B \/ \E q \in Procs : Wipes(Q[q], k, c) \/ Filling(Q[q], c)
    BY <1>5, <2>1 DEF ChatWhole, OthersBeside
  <2> QED BY <1>2, <1>7, <2>2
<1>15. BothOrNone(c, pair, S, Z, B)
  <2>1. SUFFICES ASSUME NEW k \in S, NEW l \in Homes(pair), l \notin S, ~B
                 PROVE  \E q \in Procs : Clears(Z[q], k, c)
    BY DEF BothOrNone
  <2>2. k # o /\ k \in R /\ k \in Homes(pair) /\ k \in Hosts /\ k \in Q[p].arg
    BY <1>4, <1>5
  <2>3. PICK x \in pair : Home[x] = o
    BY <1>4 DEF Homes
  <2>4. <<k, x>> \notin M
    BY <1>3, <2>2, <2>3
  <2>5. PICK q \in Procs : Wipes(Q[q], k, c)
    BY <1>8, <2>1, <2>2, <2>3, <2>4 DEF ChatWhole, OthersBeside
  <2>6. q # p /\ Clears(Q[q], k, c)
    BY <1>2, <2>5 DEF Wipes, Clears
  <2> QED BY <2>6
<1>16. OnHomes(hub, pair, S)
  BY <1>5 DEF ChatWhole, OnHomes
<1> QED BY <1>9, <1>10, <1>11, <1>12, <1>13, <1>14, <1>15, <1>16 DEF ChatWhole

\* A chat is new.
LEMMA WholeNew ==
    ASSUME NEW c, NEW hub \in Hosts, NEW pair, hub \in Homes(pair), NEW R, R = {hub}, NEW M, \A k, x : <<k, x>> \notin M,
           NEW Z, NEW B, NEW p \in Procs, \A q \in Procs : q # p => Plain(Z[q], c), Filling(Z[p], c)
    PROVE  ChatWhole(c, hub, pair, R, M, Z, B)
<1>1. \A q \in Procs : /\ ~Leaves(Z[q], c) /\ ~Undoes(Z[q], c) /\ ~Ends(Z[q], c)
  BY DEF Plain, Filling, Leaves, Undoes, Ends
<1>2. Making(Z[p], c)
  BY DEF Making, Filling
<1> QED BY <1>1, <1>2 DEF ChatWhole, OnHomes, RosterWhole, LeaveAlone, EndsEverywhere, MadeOnHub, Unfilled, UndoneOnHub,
           OthersBeside, BothOrNone

\* The chat as the tables have it, and after the step.
RowHosts(c) == {h \in Hosts : Row(h, c) # None}
RowHostsNext(c) == {h \in Hosts : RowNext(h, c) # None}
MemberSet(c) == {m \in Hosts \X Users : Mem(m[1], c, m[2]) # None}
MemberSetNext(c) == {m \in Hosts \X Users : MemNext(m[1], c, m[2]) # None}
Whole(c, hub, pair) == ChatWhole(c, hub, pair, RowHosts(c), MemberSet(c), req, c \in broken)
WholeNext(c, hub, pair) == ChatWhole(c, hub, pair, RowHostsNext(c), MemberSetNext(c), req', c \in broken')

LEMMA ViewsAre ==
    ASSUME NEW c
    PROVE  /\ RowHosts(c) \subseteq Hosts /\ RowHostsNext(c) \subseteq Hosts
           /\ \A h \in Hosts : h \in RowHosts(c) <=> Row(h, c) # None
           /\ \A h \in Hosts : h \in RowHostsNext(c) <=> RowNext(h, c) # None
           /\ \A h, u : <<h, u>> \in MemberSet(c) <=> h \in Hosts /\ u \in Users /\ Mem(h, c, u) # None
           /\ \A h, u : <<h, u>> \in MemberSetNext(c) <=> h \in Hosts /\ u \in Users /\ MemNext(h, c, u) # None
           /\ MemberSet(c) \subseteq Hosts \X Users /\ MemberSetNext(c) \subseteq Hosts \X Users
BY DEF RowHosts, RowHostsNext, MemberSet, MemberSetNext

\* Nobody gets or loses a row of the chat.
RowsStay(c) == \A h \in Hosts : RowNext(h, c) = None <=> Row(h, c) = None
MemsStay(c) == \A h \in Hosts, u \in Users : MemNext(h, c, u) = None <=> Mem(h, c, u) = None
Untouched(c) == RowsStay(c) /\ MemsStay(c)

LEMMA StayingViews ==
    ASSUME NEW c
    PROVE  /\ RowsStay(c) => RowHostsNext(c) = RowHosts(c)
           /\ MemsStay(c) => MemberSetNext(c) = MemberSet(c)
<1>1. RowsStay(c) => RowHostsNext(c) = RowHosts(c)
  BY DEF RowsStay, RowHosts, RowHostsNext
<1>2. ASSUME MemsStay(c) PROVE MemberSetNext(c) = MemberSet(c)
  <2>1. \A m \in Hosts \X Users : m[1] \in Hosts /\ m[2] \in Users
    OBVIOUS
  <2>2. \A m \in Hosts \X Users : MemNext(m[1], c, m[2]) # None <=> Mem(m[1], c, m[2]) # None
    BY <1>2, <2>1 DEF MemsStay
  <2> QED BY <2>2 DEF MemberSet, MemberSetNext
<1> QED BY <1>1, <1>2

LEMMA WholeUntouched ==
    ASSUME NEW c, NEW hub, NEW pair, Whole(c, hub, pair), Untouched(c), NEW p \in Procs, OthersWait(p),
           broken \subseteq broken', Plain(req'[p], c),
           Plain(req[p], c) \/ Leaves(req[p], c) \/ c \in broken'
    PROVE  WholeNext(c, hub, pair)
<1>1. PICK R, M : R = RowHosts(c) /\ M = MemberSet(c)
  OBVIOUS
<1>2. RowHostsNext(c) = R /\ MemberSetNext(c) = M
  BY <1>1, StayingViews DEF Untouched
<1>3. PICK B, D : B = (c \in broken) /\ D = (c \in broken')
  OBVIOUS
<1>4. ChatWhole(c, hub, pair, R, M, req, B) /\ (B => D)
  BY <1>1, <1>3 DEF Whole
<1>5. \A q \in Procs : q # p => req'[q] = req[q]
  BY DEF OthersWait
<1>6. Plain(req[p], c) \/ Leaves(req[p], c) \/ D
  BY <1>3
<1>7. ChatWhole(c, hub, pair, R, M, req', D)
  BY <1>4, <1>5, <1>6, WholeLess
<1> QED BY <1>2, <1>3, <1>7 DEF WholeNext

LEMMA KeptUntouched ==
    ASSUME NEW c \in Convs, RowsKept \/ RowsAlike, MemsKept
    PROVE  Untouched(c)
BY DEF RowsKept, RowsAlike, MemsKept, Untouched, RowsStay, MemsStay

\* Writes of another conversation.
LEMMA ElsewhereUntouched ==
    ASSUME NEW c \in Convs, NEW x, x # c
    PROVE  /\ \A h, f : MemsSet(h, x, f) => MemsStay(c)
           /\ \A h, u, m : MemSet(h, x, u, m) => MemsStay(c)
           /\ \A h, row : RowSet(h, x, row) => RowsStay(c)
           /\ RowsKept => RowsStay(c)
           /\ MemsKept => MemsStay(c)
BY DEF MemsSet, MemSet, RowSet, RowsKept, MemsKept, RowsStay, MemsStay

LEMMA EndedIsPlain ==
    ASSUME NEW p \in Procs, Ended(p), NEW c
    PROVE  OthersWait(p) /\ Plain(req'[p], c)
BY IdleForwardsNothing DEF Ended, Plain

\* Requests that have nothing to do with a direct chat.
LEMMA MessageWhole ==
    ASSUME CvTypes, NEW p \in Procs, NEW c \in Convs, NEW hub, NEW pair, Whole(c, hub, pair),
           \/ FindDirectDoes(p) \/ WinnerDoes(p) \/ TakeNumberDoes(p) \/ StoreMessageDoes(p) \/ PutBlobDoes(p)
           \/ RecordAttachmentDoes(p) \/ RecordFailsDoes(p) \/ UnputBlobDoes(p)
    PROVE  WholeNext(c, hub, pair)
<1>1. Untouched(c)
  BY KeptUntouched DEF FindDirectDoes, WinnerDoes, TakeNumberDoes, StoreMessageDoes, PutBlobDoes, RecordAttachmentDoes,
         RecordFailsDoes, UnputBlobDoes, DbKept
<1>2. broken \subseteq broken'
  BY DEF FindDirectDoes, WinnerDoes, TakeNumberDoes, StoreMessageDoes, PutBlobDoes, RecordAttachmentDoes,
         RecordFailsDoes, UnputBlobDoes
<1>3. Plain(req[p], c)
  BY DEF FindDirectDoes, WinnerDoes, TakeNumberDoes, StoreMessageDoes, PutBlobDoes, RecordAttachmentDoes,
         RecordFailsDoes, UnputBlobDoes, Plain
<1>4. OthersWait(p) /\ Plain(req'[p], c)
  <2>1. CASE Ended(p)
    BY <2>1, EndedIsPlain
  <2>2. CASE Moved(p, "insert") \/ Moved(p, "record") \/ Moved(p, "unput") \/ \E n \in Nat : MovedWith(p, "store", n)
    BY <2>2 DEF Moved, MovedWith, Plain
  <2> QED BY <2>1, <2>2 DEF FindDirectDoes, WinnerDoes, TakeNumberDoes, StoreMessageDoes, PutBlobDoes,
         RecordAttachmentDoes, RecordFailsDoes, UnputBlobDoes
<1> QED BY <1>1, <1>2, <1>3, <1>4, WholeUntouched

LEMMA ReceiptUntouched ==
    ASSUME NEW h \in Hosts, NEW x \in Convs, NEW u \in Users, NEW delivered, NEW read, Mem(h, x, u) # None,
           ReceiptDoes(h, x, u, delivered, read), NEW c \in Convs
    PROVE  Untouched(c)
<1>1. PICK m : m # None /\ MemSet(h, x, u, m) /\ RowsKept
  BY DEF ReceiptDoes
<1> QED BY <1>1 DEF MemSet, RowsKept, Untouched, RowsStay, MemsStay

LEMMA ForwardReceiptWhole ==
    ASSUME CvTypes, NEW p \in Procs, NEW c \in Convs, NEW hub, NEW pair, Whole(c, hub, pair), ForwardReceiptDoes(p)
    PROVE  WholeNext(c, hub, pair)
<1>1. req[p].pc = "forward" /\ broken' = broken /\ Ended(p) /\ RowsKept
  BY DEF ForwardReceiptDoes
<1>2. req[p].c \in Convs /\ req[p].u \in Users
  BY <1>1, AtWork
<1>3. CASE MemsKept
  BY <1>1, <1>3, EndedIsPlain, KeptUntouched, WholeUntouched DEF Plain
<1>4. CASE ~MemsKept
  <2>1. Untouched(c)
    BY <1>2, <1>4, ReceiptUntouched DEF ForwardReceiptDoes
  <2> QED BY <1>1, <2>1, EndedIsPlain, WholeUntouched DEF Plain
<1> QED BY <1>3, <1>4

LEMMA ReportWhole ==
    ASSUME ConversationsAssumption, CvTypes, NEW p \in Procs, NEW c \in Convs, NEW hub, NEW pair, Whole(c, hub, pair),
           NEW x \in ids, NEW u \in Users, NEW delivered, NEW read, ReportDoes(p, u, x, delivered, read)
    PROVE  WholeNext(c, hub, pair)
<1>1. Home[u] \in Hosts /\ x \in Convs
  BY DEF ConversationsAssumption, CvTypes, IdsInOrder
<1>2. Untouched(c)
  BY <1>1, ReceiptUntouched DEF ReportDoes
<1>3. PICK a : req'[p] = NewRequest("forward", "receipt", u, None, x, a)
  BY DEF ReportDoes
<1>4. req'[p].pc = "forward" /\ req[p].pc = "idle" /\ OthersWait(p) /\ broken' = broken
  BY <1>3 DEF ReportDoes, NewRequest
<1> QED BY <1>2, <1>4, WholeUntouched DEF Plain

LEMMA SetMemberRoleWhole ==
    ASSUME ConversationsAssumption, CvTypes, NEW c \in Convs, NEW hub, NEW pair, Whole(c, hub, pair),
           NEW x \in ids, NEW u \in Users, NEW v \in Users, SetMemberRoleDoes(u, v, x)
    PROVE  WholeNext(c, hub, pair)
<1>1. Home[u] \in Hosts /\ x \in Convs
  BY DEF ConversationsAssumption, CvTypes, IdsInOrder
<1>2. PICK m : m # None /\ MemSet(Home[u], x, v, m) /\ RowsKept /\ Mem(Home[u], x, v) # None /\ req' = req /\ broken' = broken
  BY DEF SetMemberRoleDoes
<1>3. RowsStay(c) /\ MemsStay(c)
  BY <1>1, <1>2 DEF MemSet, RowsKept, RowsStay, MemsStay
<1>4. RowHostsNext(c) = RowHosts(c) /\ MemberSetNext(c) = MemberSet(c)
  BY <1>3, StayingViews
<1> QED BY <1>2, <1>4 DEF Whole, WholeNext

LEMMA PairIs ==
    ASSUME ConversationsAssumption, NEW P \in [Convs -> Pairs \cup {None}], NEW c \in Convs, P[c] # None
    PROVE  \E u, v \in Users : P[c] = {u, v}
BY DEF Pairs

\* Whoever makes or undoes a direct chat is its creator, and alone at it.
LEMMA MakerIs ==
    ASSUME ConversationsAssumption, CvTypes, OneCreator, NEW H, NEW P, Agree(H, P), NEW c \in ids, P[c] # None,
           NEW p \in Procs, Making(req[p], c) \/ Undoes(req[p], c)
    PROVE  /\ req[p].u \in Users /\ req[p].v \in Users /\ req[p].h \in Hosts
           /\ req[p].h = Home[req[p].u] /\ H[c] = req[p].h /\ P[c] = {req[p].u, req[p].v}
           /\ Making(req[p], c) => req[p].op = "direct"
           /\ Alone(p, c, req)
<1>1. ASSUME NEW q \in Procs, Making(req[q], c) \/ Undoes(req[q], c)
      PROVE  Creates(req[q]) /\ req[q].c = c /\ req[q].op \in {"direct", "undo"} /\ H[c] = req[q].h /\ P[c] = {req[q].u, req[q].v}
  <2>1. InOrder(req[q]) /\ ReqFits(req[q], H, P)
    BY DEF CvTypes, Agree
  <2>2. req[q].c = c /\ req[q].pc \in {"members", "provision", "delete"} /\ (req[q].pc = "delete" => req[q].op = "undo")
    BY <1>1 DEF Making, Undoes
  <2>3. req[q].op # "add"
    BY <2>1, <2>2 DEF ReqFits, Adds
  <2>4. Creates(req[q])
    BY <2>1, <2>2, <2>3 DEF InOrder, Creates, Creating, Undoing
  <2>5. H[c] = req[q].h /\ P[c] = PairOf(req[q])
    BY <2>1, <2>2, <2>4 DEF ReqFits
  <2>6. req[q].op # "group"
    BY <2>5 DEF PairOf
  <2> QED BY <2>1, <2>2, <2>3, <2>4, <2>5, <2>6 DEF InOrder, PairOf
<1>2. req[p].pc # "idle"
  BY DEF Making, Undoes
<1>3. /\ Creates(req[p]) /\ req[p].c = c /\ req[p].op \in {"direct", "undo"} /\ H[c] = req[p].h
      /\ P[c] = {req[p].u, req[p].v}
  BY <1>1
<1>4. req[p].u \in Users /\ req[p].v \in Users /\ req[p].h \in Hosts /\ req[p].h = Home[req[p].u]
  BY <1>2, <1>3, AtWork
<1>5. Making(req[p], c) => req[p].op = "direct"
  BY <1>3 DEF Making, CvTypes, InOrder
<1>6. Alone(p, c, req)
  BY <1>1, <1>3 DEF Alone, OneCreator
<1> QED BY <1>3, <1>4, <1>5, <1>6

LEMMA InsertMembersWhole ==
    ASSUME ConversationsAssumption, CvTypes, OneCreator, NEW H \in [Convs -> Hosts], NEW P \in [Convs -> Pairs \cup {None}],
           Agree(H, P), NEW c \in ids, P[c] # None, Whole(c, H[c], P[c]), NEW p \in Procs, InsertMembersDoes(p)
    PROVE  WholeNext(c, H[c], P[c])
<1>1. c \in Convs
  BY DEF CvTypes, IdsInOrder
<1>2. PICK r : r = req[p]
  OBVIOUS
<1>3. /\ r.pc = "members" /\ broken' = broken /\ RowsKept /\ MemsSet(r.h, r.c, NewMembers(r)) /\ AfterCreateDoes(p, r.c)
  BY <1>2 DEF InsertMembersDoes
<1>4. \/ Ended(p) /\ ~(r.op = "direct" /\ Home[r.v] # r.h)
      \/ Created(p, "provision", r.c) /\ r.op = "direct" /\ Home[r.v] # r.h
  BY <1>2, <1>3 DEF AfterCreateDoes
<1>5. OthersWait(p) /\ (req'[p].pc = "idle" \/ (req'[p].pc = "provision" /\ req'[p].c = r.c))
  <2>1. CASE Ended(p)
    <3>1. OthersWait(p) /\ req'[p].pc = "idle"
      BY <2>1, IdleForwardsNothing DEF Ended
    <3> QED BY <3>1
  <2>2. CASE Created(p, "provision", r.c)
    BY <2>2 DEF Created
  <2> QED BY <1>4, <2>1, <2>2
<1>6. CASE r.c # c
  <2>1. Untouched(c)
    BY <1>1, <1>3, <1>6, ElsewhereUntouched DEF Untouched
  <2>2. Plain(r, c) /\ Plain(req'[p], c)
    BY <1>5, <1>6 DEF Plain
  <2> QED BY <1>2, <1>3, <1>5, <2>1, <2>2, WholeUntouched
<1>7. CASE r.c = c
  <2>1. Filling(r, c) /\ Making(r, c)
    BY <1>3, <1>7 DEF Filling, Making
  <2>2. /\ r.u \in Users /\ r.v \in Users /\ r.h \in Hosts /\ r.h = Home[r.u] /\ H[c] = r.h
        /\ P[c] = {r.u, r.v} /\ r.op = "direct" /\ Alone(p, c, req)
    BY <1>2, <2>1, MakerIs
  <2>3. PICK hub, pair : hub = H[c] /\ pair = P[c]
    OBVIOUS
  <2>4. hub \in Hosts /\ pair \subseteq Users /\ pair = {r.u, r.v} /\ hub = r.h
    BY <2>2, <2>3
  <2>5. PICK R, M, N : R = RowHosts(c) /\ M = MemberSet(c) /\ N = MemberSetNext(c)
    OBVIOUS
  <2>6. RowHostsNext(c) = R
    BY <1>1, <1>3, <2>5, StayingViews DEF RowsKept, RowsStay
  <2>7. PICK B : B = (c \in broken)
    OBVIOUS
  <2>8. ChatWhole(c, hub, pair, R, M, req, B)
    BY <2>3, <2>5, <2>7 DEF Whole
  <2>9. \A x \in Users : NewMembers(r)[x] # None <=> x \in {r.u, r.v}
    BY NewMembersAre DEF Fresh
  <2>10. \A x \in Users : <<hub, x>> \in N <=> x \in pair
    BY <1>1, <1>3, <1>7, <2>4, <2>5, <2>9, ViewsAre DEF MemsSet
  <2>11. \A k \in Hosts, x \in Users : k # hub => (<<k, x>> \in N <=> <<k, x>> \in M)
    BY <1>1, <1>3, <1>7, <2>4, <2>5, ViewsAre DEF MemsSet
  <2>12. Deletes(req)
    BY DEF CvTypes, InOrder, Deletes
  <2>13. (Plain(req'[p], c) /\ \A k \in Homes(pair) : k = hub) \/ (Making(req'[p], c) /\ ~Filling(req'[p], c))
    <3>1. CASE Ended(p)
      <4>1. req'[p].pc # "provision"
        BY <3>1, IdleForwardsNothing DEF Ended
      <4>2. Home[r.v] = r.h
        BY <1>4, <2>2, <4>1 DEF Created
      <4>3. \A k \in Homes(pair) : k = hub
        BY <2>2, <2>4, <4>2 DEF Homes
      <4>4. Plain(req'[p], c)
        BY <3>1, EndedIsPlain
      <4> QED BY <4>3, <4>4
    <3>2. CASE Created(p, "provision", r.c)
      BY <1>7, <3>2 DEF Created, Making, Filling
    <3> QED BY <1>4, <3>1, <3>2
  <2>14. \A q \in Procs : q # p => req'[q] = req[q]
    BY <1>5 DEF OthersWait
  <2>15. ChatWhole(c, hub, pair, R, N, req', B)
    <3>1. Filling(req[p], c) /\ Alone(p, c, req) /\ Deletes(req)
      BY <1>2, <2>1, <2>2, <2>12
    <3> QED BY <2>4, <2>8, <2>10, <2>11, <2>13, <2>14, <3>1, WholeFilled
  <2> QED BY <1>3, <2>3, <2>5, <2>6, <2>7, <2>15 DEF WholeNext
<1> QED BY <1>6, <1>7

LEMMA FailsWhole ==
    ASSUME CvTypes, NEW c \in ids, NEW hub, NEW pair, Whole(c, hub, pair), NEW p \in Procs,
           InsertMembersFailsDoes(p) \/ CallFailsDoes(p)
    PROVE  WholeNext(c, hub, pair)
<1>1. c \in Convs
  BY DEF CvTypes, IdsInOrder
<1>2. Untouched(c) /\ broken \subseteq broken'
  BY <1>1, KeptUntouched DEF InsertMembersFailsDoes, CallFailsDoes, DbKept
<1>3. OthersWait(p) /\ Plain(req'[p], c)
  <2>1. Ended(p) \/ Moved(p, "winner")
    BY DEF InsertMembersFailsDoes, CallFailsDoes
  <2> QED BY <2>1, EndedIsPlain DEF Moved, Plain
<1>4. Plain(req[p], c) \/ Leaves(req[p], c) \/ c \in broken'
  <2>1. CASE InsertMembersFailsDoes(p)
    BY <2>1 DEF InsertMembersFailsDoes, Plain
  <2>2. CASE CallFailsDoes(p)
    <3>1. /\ req[p].pc \notin {"members", "provision"}
          /\ broken' = IF req[p].op \in {"delete", "undo"} THEN broken \cup {req[p].c} ELSE broken
      BY <2>2 DEF CallFailsDoes
    <3>2. InOrder(req[p])
      BY DEF CvTypes
    <3>3. CASE req[p].pc \in {"blobs", "records", "delete", "propagate"}
      BY <3>1, <3>2, <3>3 DEF InOrder, Plain
    <3>4. CASE req[p].pc \notin {"blobs", "records", "delete", "propagate"}
      BY <3>1, <3>4 DEF Plain, Leaves
    <3> QED BY <3>3, <3>4
  <2> QED BY <2>1, <2>2
<1> QED BY <1>2, <1>3, <1>4, WholeUntouched

LEMMA AddingWhole ==
    ASSUME CvTypes, NEW H, NEW P, Agree(H, P), NEW c \in ids, P[c] # None, Whole(c, H[c], P[c]), NEW p \in Procs,
           JoinSeqDoes(p) \/ InsertMemberDoes(p)
    PROVE  WholeNext(c, H[c], P[c])
<1>1. c \in Convs
  BY DEF CvTypes, IdsInOrder
<1>2. req[p].pc \in {"joinSeq", "insertMember"} /\ broken' = broken
  BY DEF JoinSeqDoes, InsertMemberDoes
<1>3. req[p].op = "add" /\ ReqFits(req[p], H, P)
  BY <1>2 DEF CvTypes, InOrder, Agree
<1>4. req[p].c # c
  BY <1>2, <1>3 DEF ReqFits, Adds
<1>5. OthersWait(p) /\ req'[p].c = req[p].c
  BY DEF JoinSeqDoes, InsertMemberDoes, Moved, MovedWith, Same
<1>6. Plain(req[p], c) /\ Plain(req'[p], c)
  BY <1>4, <1>5 DEF Plain
<1>7. DbKept \/ \E n : JoinDoes(req[p].h, req[p].c, req[p].v, n)
  BY DEF JoinSeqDoes, InsertMemberDoes
<1>8. Untouched(c)
  <2>1. CASE DbKept
    BY <1>1, <2>1, KeptUntouched DEF DbKept
  <2>2. CASE \E n : JoinDoes(req[p].h, req[p].c, req[p].v, n)
    <3>1. RowsKept /\ (MemsKept \/ \E m : MemSet(req[p].h, req[p].c, req[p].v, m))
      BY <2>2 DEF JoinDoes
    <3> QED BY <1>1, <1>4, <3>1, ElsewhereUntouched DEF Untouched
  <2> QED BY <1>7, <2>1, <2>2
<1> QED BY <1>2, <1>5, <1>6, <1>8, WholeUntouched

LEMMA RemoveMemberWhole ==
    ASSUME CvTypes, NEW c \in ids, NEW hub, NEW pair, Whole(c, hub, pair), NEW p \in Procs, RemoveMemberDoes(p)
    PROVE  WholeNext(c, hub, pair)
<1>1. c \in Convs
  BY DEF CvTypes, IdsInOrder
<1>2. req[p].pc = "removeMember" /\ broken' = broken /\ RowsKept
  BY DEF RemoveMemberDoes
<1>3. OthersWait(p) /\ Plain(req'[p], c)
  <2>1. Ended(p) \/ Moved(p, "number")
    BY DEF RemoveMemberDoes
  <2> QED BY <2>1, EndedIsPlain DEF Moved, Plain
<1>4. Plain(req[p], c) \/ Leaves(req[p], c)
  BY <1>2 DEF Plain, Leaves
<1>5. CASE MemsKept
  BY <1>1, <1>2, <1>3, <1>4, <1>5, KeptUntouched, WholeUntouched
<1>6. CASE MemSet(req[p].h, req[p].c, req[p].v, None) /\ req[p].c # c
  <2>1. Untouched(c)
    BY <1>1, <1>2, <1>6, ElsewhereUntouched DEF Untouched
  <2> QED BY <1>2, <1>3, <1>4, <2>1, WholeUntouched
<1>7. CASE MemSet(req[p].h, req[p].c, req[p].v, None) /\ req[p].c = c
  <2>1. PICK R, M, N, u : R = RowHosts(c) /\ M = MemberSet(c) /\ N = MemberSetNext(c) /\ u = req[p].u
    OBVIOUS
  <2>2. PICK B : B = (c \in broken)
    OBVIOUS
  <2>3. ChatWhole(c, hub, pair, R, M, req, B)
    BY <2>1, <2>2 DEF Whole
  <2>4. u \in Users /\ req[p].h = Home[u] /\ Home[u] \in Hosts
    BY <1>2, <2>1, AtWork
  <2>5. req[p].v = u
    BY <1>2, <1>7, <2>1, <2>3 DEF ChatWhole, LeaveAlone, Leaves
  <2>6. MemSet(Home[u], c, u, None)
    BY <1>7, <2>4, <2>5
  <2>7. \A h, x : <<h, x>> \in N <=> <<h, x>> \in M /\ <<h, x>> # <<Home[u], u>>
    <3>1. SUFFICES ASSUME NEW h \in Hosts, NEW x \in Users
                   PROVE  <<h, x>> \in N <=> <<h, x>> \in M /\ <<h, x>> # <<Home[u], u>>
      BY <2>1, ViewsAre
    <3>2. /\ <<h, x>> \in N <=> MemNext(h, c, x) # None
          /\ <<h, x>> \in M <=> Mem(h, c, x) # None
      BY <2>1, ViewsAre
    <3>3. CASE h = Home[u] /\ x = u
      BY <2>6, <3>2, <3>3 DEF MemSet
    <3>4. CASE ~(h = Home[u] /\ x = u)
      <4>1. MemNext(h, c, x) = Mem(h, c, x)
        BY <1>1, <2>6, <3>4 DEF MemSet
      <4> QED BY <3>2, <3>4, <4>1
    <3> QED BY <3>3, <3>4
  <2>8. M \subseteq Hosts \X Users /\ N \subseteq Hosts \X Users
    BY <2>1, ViewsAre
  <2>9. N = M \ {<<Home[u], u>>}
    BY <2>7, <2>8
  <2>10. ChatWhole(c, hub, pair, R, N, req, B)
    BY <2>3, <2>9, WholeLeft
  <2>11. \A q \in Procs : q # p => req'[q] = req[q]
    BY <1>3 DEF OthersWait
  <2>12. ChatWhole(c, hub, pair, R, N, req', B)
    BY <1>3, <1>4, <2>10, <2>11, WholeLess
  <2>13. RowHostsNext(c) = R
    BY <1>1, <1>2, <2>1, StayingViews DEF RowsKept, RowsStay
  <2> QED BY <1>2, <2>1, <2>2, <2>12, <2>13 DEF WholeNext
<1> QED BY <1>5, <1>6, <1>7 DEF RemoveMemberDoes

\* In a direct chat nobody is an administrator.
NoAdmins(c) == \A h \in Hosts, u \in Users : Mem(h, c, u) # None => Mem(h, c, u).role = "user"

LEMMA BeginsWhole ==
    ASSUME ConversationsAssumption, CvTypes, NEW c \in ids, NEW hub, NEW pair, pair \subseteq Users, Whole(c, hub, pair), NoAdmins(c),
           NEW p \in Procs, BeginsDoes(p)
    PROVE  WholeNext(c, hub, pair)
<1>1. c \in Convs
  BY DEF CvTypes, IdsInOrder
<1>2. PICK r, u : u \in Users /\ BeginsBy(r, u) /\ BeginDoes(p, r)
  BY DEF BeginsDoes, BeginsAny
<1>3. req[p].pc = "idle" /\ req'[p] = r /\ OthersWait(p) /\ broken' = broken /\ RowsKept /\ MemsKept
  BY <1>2 DEF BeginDoes, DbKept
<1>4. Untouched(c) /\ Plain(req[p], c)
  BY <1>1, <1>3, KeptUntouched DEF Plain
<1>5. CASE Plain(r, c)
  BY <1>3, <1>4, <1>5, WholeUntouched
<1>6. PICK R, M : R = RowHosts(c) /\ M = MemberSet(c)
  OBVIOUS
<1>7. PICK B : B = (c \in broken)
  OBVIOUS
<1>8. ChatWhole(c, hub, pair, R, M, req, B) /\ RowHostsNext(c) = R /\ MemberSetNext(c) = M
  BY <1>4, <1>6, <1>7, StayingViews DEF Whole, Untouched
<1>9. \A q \in Procs : q # p => req'[q] = req[q]
  BY <1>3 DEF OthersWait
<1>10. Home[u] \in Hosts
  BY <1>2 DEF ConversationsAssumption
<1>11. CASE \E v \in Users : BeginsRemove(r, u, v, c)
  <2>1. PICK v \in Users : BeginsRemove(r, u, v, c)
    BY <1>11
  <2>2. r.pc = "removeMember" /\ r.u = u /\ r.v = v /\ r.c = c /\ Mem(Home[u], c, u) # None /\ (u = v \/ Mem(Home[u], c, u).role = "admin")
    BY <2>1 DEF BeginsRemove, NewAt
  <2>3. Mem(Home[u], c, u).role = "user"
    BY <1>2, <1>10, <2>2 DEF NoAdmins
  <2>4. u = v
    BY <2>2, <2>3
  <2>5. Leaves(req'[p], c) /\ req'[p].v = req'[p].u
    BY <1>3, <2>2, <2>4 DEF Leaves
  <2>6. ChatWhole(c, hub, pair, R, M, req', B)
    BY <1>4, <1>8, <1>9, <2>5, WholeLeaves
  <2> QED BY <1>3, <1>7, <1>8, <2>6 DEF WholeNext
<1>12. CASE BeginsDelete(r, u, c)
  <2>1. /\ r.pc = "blobs" /\ r.op = "delete" /\ r.c = c /\ r.h = Home[u] /\ Mem(Home[u], c, u) # None
        /\ \A w \in Users : Mem(Home[u], c, w) # None /\ Home[w] # Home[u] => Home[w] \in r.arg
    BY <1>12 DEF BeginsDelete, NewAt
  <2>2. <<Home[u], u>> \in M
    BY <1>2, <1>6, <1>10, <2>1, ViewsAre
  <2>3. \A w \in Users : <<Home[u], w>> \in M /\ Home[w] # Home[u] => Home[w] \in req'[p].arg
    BY <1>3, <1>6, <2>1, ViewsAre
  <2>4. req'[p].pc = "blobs" /\ req'[p].op = "delete" /\ req'[p].c = c /\ req'[p].h = Home[u]
    BY <1>3, <2>1
  <2>5. ChatWhole(c, hub, pair, R, M, req', B)
    BY <1>2, <1>4, <1>8, <1>9, <1>10, <2>2, <2>3, <2>4, WholeEnds
  <2> QED BY <1>3, <1>7, <1>8, <2>5 DEF WholeNext
<1>13. \/ Plain(r, c) \/ BeginsDelete(r, u, c) \/ \E v \in Users : BeginsRemove(r, u, v, c)
  <2>1. CASE BeginsGroup(r, u)
    BY <2>1 DEF BeginsGroup, NewAt, Plain
  <2>2. CASE \E v \in Users : BeginsDirect(r, u, v)
    BY <2>2 DEF BeginsDirect, NewAt, Plain
  <2>3. CASE \E x \in ids, v \in Users : BeginsAdd(r, u, v, x)
    BY <2>3 DEF BeginsAdd, NewAt, Plain
  <2>4. CASE \E x \in ids : BeginsPost(r, u, x)
    BY <2>4 DEF BeginsPost, NewAt, Plain
  <2>5. CASE \E x \in ids : BeginsUpload(r, u, x)
    BY <2>5 DEF BeginsUpload, NewAt, Plain
  <2>6. CASE \E x \in ids, v \in Users : BeginsRemove(r, u, v, x)
    <3>1. PICK x \in ids, v \in Users : BeginsRemove(r, u, v, x)
      BY <2>6
    <3>2. r.c = x
      BY <3>1 DEF BeginsRemove, NewAt
    <3>3. x # c => Plain(r, c)
      BY <3>2 DEF Plain
    <3> QED BY <3>1, <3>3
  <2>7. CASE \E x \in ids : BeginsDelete(r, u, x)
    <3>1. PICK x \in ids : BeginsDelete(r, u, x)
      BY <2>7
    <3>2. r.c = x
      BY <3>1 DEF BeginsDelete, NewAt
    <3>3. x # c => Plain(r, c)
      BY <3>2 DEF Plain
    <3> QED BY <3>1, <3>3
  <2> QED BY <1>2, <2>1, <2>2, <2>3, <2>4, <2>5, <2>6, <2>7 DEF BeginsBy
<1> QED BY <1>5, <1>11, <1>12, <1>13

LEMMA InsertConversationWhole ==
    ASSUME CvTypes, Mongo, NEW c \in ids, NEW hub, NEW pair, Whole(c, hub, pair), NEW p \in Procs, InsertConversationDoes(p)
    PROVE  WholeNext(c, hub, pair)
<1>1. c \in Convs
  BY DEF CvTypes, IdsInOrder
<1>2. req[p].pc = "insert" /\ broken' = broken
  BY DEF InsertConversationDoes
<1>3. CASE RowsKept /\ MemsKept /\ Moved(p, "winner")
  BY <1>1, <1>2, <1>3, KeptUntouched, WholeUntouched DEF Moved, Plain
<1>4. CASE \E x \in Convs \ ids : RowSet(req[p].h, x, NewRow(req[p])) /\ MemsKept /\ Created(p, "members", x)
  <2>1. PICK x \in Convs \ ids : RowSet(req[p].h, x, NewRow(req[p])) /\ MemsKept /\ Created(p, "members", x)
    BY <1>4
  <2>2. Untouched(c)
    BY <1>1, <2>1, ElsewhereUntouched DEF Untouched
  <2> QED BY <1>2, <2>1, <2>2, WholeUntouched DEF Created, Plain
<1> QED BY <1>3, <1>4 DEF InsertConversationDoes

\* The chat that is inserted.
LEMMA InsertedWhole ==
    ASSUME ConversationsAssumption, CvTypes, NEW c \in Convs, c \notin ids, NEW hub \in Hosts, NEW pair, hub \in Homes(pair),
           NEW p \in Procs, RowSet(hub, c, NewRow(req[p])), NewRow(req[p]) # None, MemsKept,
           \A h \in Hosts, u \in Users : Mem(h, c, u) = None, Created(p, "members", c)
    PROVE  WholeNext(c, hub, pair)
<1>1. PICK R, M : R = RowHostsNext(c) /\ M = MemberSetNext(c)
  OBVIOUS
<1>2. PICK B : B = (c \in broken')
  OBVIOUS
<1>3. \A h \in Hosts : h # hub => Row(h, c) = None
  BY DEF CvTypes, RowsKnown
<1>4. R = {hub}
  BY <1>1, <1>3, ViewsAre DEF RowSet
<1>5. \A k, x : <<k, x>> \notin M
  <2>1. \A k \in Hosts, x \in Users : MemNext(k, c, x) = None
    BY DEF MemsKept
  <2>2. \A k, x : <<k, x>> \in M => k \in Hosts /\ x \in Users /\ MemNext(k, c, x) # None
    BY <1>1, ViewsAre
  <2> QED BY <2>1, <2>2
<1>6. \A q \in Procs : q # p => Plain(req'[q], c)
  <2>1. ASSUME NEW q \in Procs, q # p PROVE Plain(req'[q], c)
    <3>1. req'[q] = req[q] /\ InOrder(req[q])
      BY <2>1 DEF Created, OthersWait, CvTypes
    <3> QED BY <3>1 DEF InOrder, Plain
  <2> QED BY <2>1
<1>7. Filling(req'[p], c)
  BY DEF Created, Filling
<1>8. ChatWhole(c, hub, pair, R, M, req', B)
  BY <1>4, <1>5, <1>6, <1>7, WholeNew
<1> QED BY <1>1, <1>2, <1>8 DEF WholeNext

\* ProvisionMirror of a direct chat.
LEMMA MirrorWhole ==
    ASSUME ConversationsAssumption, CvTypes, OneCreator, NEW H \in [Convs -> Hosts], NEW P \in [Convs -> Pairs \cup {None}],
           Agree(H, P), NEW c \in ids, P[c] # None, Whole(c, H[c], P[c]), NEW p \in Procs, req[p].pc = "provision", req[p].c = c,
           MirrorDoes(p), OthersWait(p), broken \subseteq broken',
           Plain(req'[p], c) \/ (c \in broken' /\ Undoes(req'[p], c) /\ req'[p].todo # Todo1)
    PROVE  WholeNext(c, H[c], P[c])
<1>1. c \in Convs
  BY DEF CvTypes, IdsInOrder
<1>2. PICK u, v, hub, pair : u = req[p].u /\ v = req[p].v /\ hub = H[c] /\ pair = P[c]
  OBVIOUS
<1>3. Making(req[p], c)
  BY DEF Making
<1>4. /\ u \in Users /\ v \in Users /\ req[p].h \in Hosts /\ req[p].h = Home[u] /\ hub = req[p].h
      /\ pair = {u, v} /\ req[p].op = "direct" /\ Alone(p, c, req)
  BY <1>2, <1>3, MakerIs
<1>5. Home[v] # hub /\ Home[v] \in Hosts /\ hub \in Hosts
  BY <1>2, <1>4 DEF ConversationsAssumption, Agree, ReqFits
<1>6. PICK R, S, M, N : R = RowHosts(c) /\ S = RowHostsNext(c) /\ M = MemberSet(c) /\ N = MemberSetNext(c)
  OBVIOUS
<1>7. PICK B, D : B = (c \in broken) /\ D = (c \in broken')
  OBVIOUS
<1>8. ChatWhole(c, hub, pair, R, M, req, B) /\ (B => D)
  BY <1>2, <1>6, <1>7 DEF Whole
<1>9. Row(Home[v], c) = None
  BY <1>3, <1>5, <1>6, <1>8, ViewsAre DEF ChatWhole, MadeOnHub
<1>10. /\ RowSet(Home[v], c, SpecRow(req[p]))
       /\ \E w \in Users \ {v} : Home[w] = req[p].h /\ Mem(req[p].h, c, w) # None
       /\ \E f : /\ MemsSet(Home[v], c, f)
                 /\ \A x \in Users : IF x = v \/ Mem(req[p].h, c, x) # None
                                     THEN Fresh(f[x]) /\ f[x].role = "user" ELSE f[x] = None
  BY <1>2, <1>9 DEF MirrorDoes
<1>11. SpecRow(req[p]) # None
  BY <1>2, <1>4, AtWork, SpecRowIs
<1>12. S = R \cup {Home[v]}
  BY <1>1, <1>5, <1>6, <1>10, <1>11, ViewsAre DEF RowSet
<1>13. PICK w \in Users : w # v /\ <<hub, w>> \in M
  BY <1>4, <1>6, <1>10, ViewsAre
<1>14. PICK f : /\ MemsSet(Home[v], c, f)
                /\ \A x \in Users : f[x] # None <=> (x = v \/ Mem(hub, c, x) # None)
  BY <1>4, <1>10 DEF Fresh
<1>15. \A x \in Users : <<Home[v], x>> \in N <=> (x = v \/ <<hub, x>> \in M)
  BY <1>5, <1>6, <1>14, ViewsAre DEF MemsSet
<1>16. \A k \in Hosts, x \in Users : k # Home[v] => (<<k, x>> \in N <=> <<k, x>> \in M)
  BY <1>1, <1>6, <1>14, ViewsAre DEF MemsSet
<1>17. Deletes(req) /\ Alone(p, c, req) /\ \A q \in Procs : q # p => req'[q] = req[q]
  BY <1>4 DEF CvTypes, InOrder, Deletes, OthersWait
<1>18. Plain(req'[p], c) \/ (D /\ Undoes(req'[p], c) /\ req'[p].todo # Todo1)
  BY <1>7
<1>19. pair = {u, v} /\ Home[u] = hub
  BY <1>4
<1>20. ChatWhole(c, hub, pair, S, N, req', D)
  BY <1>3, <1>4, <1>5, <1>8, <1>12, <1>13, <1>15, <1>16, <1>17, <1>18, <1>19, WholeMirrored
<1> QED BY <1>2, <1>6, <1>7, <1>20 DEF WholeNext

LEMMA ProvisionWhole ==
    ASSUME ConversationsAssumption, CvTypes, Mongo, OneCreator, NEW H \in [Convs -> Hosts], NEW P \in [Convs -> Pairs \cup {None}],
           Agree(H, P), NEW c \in ids, P[c] # None, Whole(c, H[c], P[c]), NEW p \in Procs, ProvisionDoes(p) \/ ProvisionFailsDoes(p)
    PROVE  WholeNext(c, H[c], P[c])
<1>1. c \in Convs
  BY DEF CvTypes, IdsInOrder
<1>2. req[p].pc = "provision" /\ broken \subseteq broken' /\ (DbKept \/ MirrorDoes(p))
  BY DEF ProvisionDoes, ProvisionFailsDoes
<1>3. Ended(p) \/ Moved(p, "number") \/ Undone(p)
  BY DEF ProvisionDoes, ProvisionFailsDoes
<1>4. OthersWait(p) /\ (Undone(p) \/ Plain(req'[p], c))
  <2>1. CASE Ended(p)
    BY <2>1, EndedIsPlain
  <2>2. CASE Moved(p, "number")
    BY <2>2 DEF Moved, Plain
  <2>3. CASE Undone(p)
    BY <2>3 DEF Undone
  <2> QED BY <1>3, <2>1, <2>2, <2>3
<1>5. CASE req[p].c # c
  <2>1. DbKept \/ ((\E h, row : RowSet(h, req[p].c, row)) /\ \E h, f : MemsSet(h, req[p].c, f))
    BY <1>2 DEF MirrorDoes
  <2>2. Untouched(c)
    BY <1>1, <1>5, <2>1, KeptUntouched, ElsewhereUntouched DEF DbKept, Untouched
  <2>3. Plain(req[p], c) /\ Plain(req'[p], c)
    BY <1>4, <1>5 DEF Undone, Plain
  <2> QED BY <1>2, <1>4, <2>2, <2>3, WholeUntouched
<1>6. CASE req[p].c = c
  <2>1. Making(req[p], c) /\ ~Filling(req[p], c)
    BY <1>2, <1>6 DEF Making, Filling
  <2>2. req[p].op = "direct" /\ H[c] = req[p].h /\ Alone(p, c, req)
    BY <2>1, MakerIs
  <2>3. Undone(p) => Undoes(req'[p], c) /\ req'[p].todo # Todo1 /\ req'[p].h = H[c]
    BY <1>6, <2>2, TodoSteps DEF Undone, Undoes
  <2>4. CASE ProvisionDoes(p)
    <3>1. MirrorDoes(p) /\ Ended(p)
      BY <2>2, <2>4 DEF ProvisionDoes
    <3> QED BY <1>2, <1>4, <1>6, <3>1, EndedIsPlain, MirrorWhole
  <2>5. CASE ProvisionFailsDoes(p)
    <3>1. Undone(p) /\ ((DbKept /\ broken' = broken) \/ (MirrorDoes(p) /\ c \in broken'))
      BY <1>6, <2>2, <2>5 DEF ProvisionFailsDoes
    <3>2. CASE MirrorDoes(p) /\ c \in broken'
      BY <1>2, <1>4, <1>6, <2>3, <3>1, <3>2, MirrorWhole
    <3>3. CASE DbKept /\ broken' = broken
      <4>1. PICK R, M : R = RowHosts(c) /\ M = MemberSet(c)
        OBVIOUS
      <4>2. PICK B, hub, pair : B = (c \in broken) /\ hub = H[c] /\ pair = P[c]
        OBVIOUS
      <4>3. RowHostsNext(c) = R /\ MemberSetNext(c) = M
        BY <1>1, <3>3, <4>1, KeptUntouched, StayingViews DEF DbKept, Untouched
      <4>4. ChatWhole(c, hub, pair, R, M, req, B)
        BY <4>1, <4>2 DEF Whole
      <4>5. \A q \in Procs : q # p => req'[q] = req[q]
        BY <1>4 DEF OthersWait
      <4>6. Undoes(req'[p], c) /\ req'[p].todo # Todo1 /\ req'[p].h = hub
        BY <2>3, <3>1, <4>2
      <4>7. ChatWhole(c, hub, pair, R, M, req', B)
        BY <2>1, <2>2, <4>4, <4>5, <4>6, WholeUndone
      <4> QED BY <3>3, <4>2, <4>3, <4>7 DEF WholeNext
    <3> QED BY <3>1, <3>2, <3>3
  <2> QED BY <2>4, <2>5
<1> QED BY <1>5, <1>6

\* A delete of a direct chat, call by call.
LEMMA DeleteGoesWhole ==
    ASSUME CvTypes, Mongo, NEW c \in ids, NEW hub, NEW pair, Whole(c, hub, pair), NEW p \in Procs,
           DeleteBlobsDoes(p) \/ DeleteRecordsDoes(p) \/ (DeleteStepDoes(p) /\ req[p].todo = Todo3)
    PROVE  WholeNext(c, hub, pair)
<1>1. c \in Convs
  BY DEF CvTypes, IdsInOrder
<1>2. broken' = broken /\ Untouched(c)
  BY <1>1, KeptUntouched, TodoSteps DEF DeleteBlobsDoes, DeleteRecordsDoes, DeleteStepDoes
<1>3. /\ OthersWait(p) /\ Same(req'[p], req[p]) /\ req'[p].arg = req[p].arg
      /\ req[p].pc \in {"blobs", "records", "delete"}
      /\ \/ req[p].pc \in {"blobs", "records"} /\ req'[p].pc \in {"records", "delete"}
         \/ req[p].pc = "delete" /\ req'[p].pc = "delete"
      /\ (req[p].pc = "delete" => req[p].todo # Todo1) /\ (req'[p].pc = "delete" => req'[p].todo # Todo1)
  <2>1. CASE DeleteBlobsDoes(p)
    BY <2>1 DEF DeleteBlobsDoes, Moved
  <2>2. CASE DeleteRecordsDoes(p)
    BY <2>2, TodoSteps DEF DeleteRecordsDoes, MovedWith
  <2>3. CASE DeleteStepDoes(p) /\ req[p].todo = Todo3
    <3>1. req[p].pc = "delete" /\ MovedWith(p, "delete", req[p].arg) /\ req'[p].todo = Todo2
      BY <2>3, TodoSteps DEF DeleteStepDoes
    <3> QED BY <2>3, <3>1, TodoSteps DEF MovedWith
  <2> QED BY <2>1, <2>2, <2>3
<1>4. CASE req[p].c # c
  <2>1. Plain(req[p], c) /\ Plain(req'[p], c)
    BY <1>3, <1>4 DEF Same, Plain
  <2> QED BY <1>2, <1>3, <2>1, WholeUntouched
<1>5. CASE req[p].c = c
  <2>1. PICK R, M : R = RowHosts(c) /\ M = MemberSet(c)
    OBVIOUS
  <2>2. PICK B : B = (c \in broken)
    OBVIOUS
  <2>3. RowHostsNext(c) = R /\ MemberSetNext(c) = M /\ ChatWhole(c, hub, pair, R, M, req, B)
    BY <1>2, <2>1, <2>2, StayingViews DEF Whole, Untouched
  <2>4. \A q \in Procs : q # p => req'[q] = req[q]
    BY <1>3 DEF OthersWait
  <2>5. req'[p].c = c /\ req'[p].h = req[p].h /\ req'[p].op = req[p].op /\ req'[p].arg = req[p].arg
    BY <1>3, <1>5 DEF Same
  <2>6. \/ req[p].op = "delete" /\ req'[p].pc \in {"records", "delete"}
        \/ req[p].pc = "delete" /\ req'[p].pc = "delete"
    BY <1>3 DEF CvTypes, InOrder
  <2>7. ~Wipes(req[p], req[p].h, c)
    BY <1>3 DEF Wipes
  <2>8. ChatWhole(c, hub, pair, R, M, req', B)
    BY <1>3, <1>5, <2>3, <2>4, <2>5, <2>6, <2>7, WholeGoes
  <2> QED BY <1>2, <2>2, <2>3, <2>8 DEF WholeNext
<1> QED BY <1>4, <1>5

LEMMA DeleteStepWhole ==
    ASSUME ConversationsAssumption, CvTypes, Mongo, OneCreator, NEW H, NEW P, Agree(H, P), NEW c \in ids, P[c] # None,
           Whole(c, H[c], P[c]), NEW p \in Procs, DeleteStepDoes(p)
    PROVE  WholeNext(c, H[c], P[c])
<1>1. c \in Convs
  BY DEF CvTypes, IdsInOrder
<1>2. req[p].pc = "delete" /\ broken' = broken /\ req[p].todo \in {Todo1, Todo2, Todo3} /\ req[p].h \in Hosts
  BY AtWork DEF DeleteStepDoes, CvTypes, InOrder
<1>3. CASE req[p].todo = Todo3
  BY <1>3, DeleteGoesWhole
<1>4. PICK R, S, M, N : R = RowHosts(c) /\ S = RowHostsNext(c) /\ M = MemberSet(c) /\ N = MemberSetNext(c)
  OBVIOUS
<1>5. PICK B, hub, pair, h : B = (c \in broken) /\ hub = H[c] /\ pair = P[c] /\ h = req[p].h
  OBVIOUS
<1>6. ChatWhole(c, hub, pair, R, M, req, B)
  BY <1>4, <1>5 DEF Whole
<1>7. CASE req[p].todo = Todo2
  <2>1. /\ RowsKept /\ MemsSet(h, req[p].c, NoMembers) /\ MovedWith(p, "delete", req[p].arg) /\ req'[p].todo = Todo1
    BY <1>5, <1>7, TodoSteps DEF DeleteStepDoes
  <2>2. OthersWait(p) /\ Same(req'[p], req[p]) /\ req'[p].pc = "delete" /\ req'[p].arg = req[p].arg
    BY <2>1 DEF MovedWith
  <2>3. CASE req[p].c # c
    <3>1. Untouched(c)
      BY <1>1, <2>1, <2>3, ElsewhereUntouched DEF Untouched
    <3>2. Plain(req[p], c) /\ Plain(req'[p], c)
      BY <2>2, <2>3 DEF Same, Plain
    <3> QED BY <1>2, <2>2, <3>1, <3>2, WholeUntouched
  <2>4. CASE req[p].c = c
    <3>1. S = R
      BY <1>1, <1>4, <2>1, StayingViews DEF RowsKept, RowsStay
    <3>2. \A x \in Users : MemNext(h, c, x) = None
      BY <2>1, <2>4 DEF MemsSet, NoMembers
    <3>3. \A x : <<h, x>> \notin N
      <4>1. \A x : <<h, x>> \in N => x \in Users /\ MemNext(h, c, x) # None
        BY <1>4, ViewsAre
      <4> QED BY <3>2, <4>1
    <3>4. \A k \in Hosts, x \in Users : k # h => MemNext(k, c, x) = Mem(k, c, x)
      BY <1>1, <2>1, <2>4 DEF MemsSet
    <3>5. \A k, x : k # h => (<<k, x>> \in N <=> <<k, x>> \in M)
      <4>1. \A k, x : <<k, x>> \in N <=> k \in Hosts /\ x \in Users /\ MemNext(k, c, x) # None
        BY <1>4, ViewsAre
      <4>2. \A k, x : <<k, x>> \in M <=> k \in Hosts /\ x \in Users /\ Mem(k, c, x) # None
        BY <1>4, ViewsAre
      <4> QED BY <3>4, <4>1, <4>2
    <3>6. \A q \in Procs : q # p => req'[q] = req[q]
      BY <2>2 DEF OthersWait
    <3>7. req'[p].c = c /\ req'[p].h = h /\ req'[p].op = req[p].op /\ Todo1 # Todo2
      BY <1>5, <2>2, <2>4, TodoSteps DEF Same
    <3>8. ChatWhole(c, hub, pair, R, N, req', B)
      BY <1>2, <1>5, <1>6, <1>7, <2>1, <2>2, <2>4, <3>3, <3>5, <3>6, <3>7, WholeWiped
    <3> QED BY <1>2, <1>4, <1>5, <3>1, <3>8 DEF WholeNext
  <2> QED BY <2>3, <2>4
<1>8. CASE req[p].todo = Todo1
  <2>1. RowSet(h, req[p].c, None) /\ MemsKept /\ DeletedLast(p)
    BY <1>5, <1>8, TodoSteps DEF DeleteStepDoes
  <2>2. \/ req[p].op = "undo" /\ Ended(p)
        \/ req[p].op = "delete" /\ Moved(p, "propagate")
    BY <1>2, <2>1 DEF DeletedLast, CvTypes, InOrder
  <2>3. OthersWait(p) /\ (Plain(req'[p], c) \/ (Same(req'[p], req[p]) /\ req'[p].pc = "propagate"))
    BY <2>2, EndedIsPlain DEF Moved
  <2>4. CASE req[p].c # c
    <3>1. Untouched(c)
      BY <1>1, <2>1, <2>4, ElsewhereUntouched DEF Untouched
    <3>2. Plain(req[p], c) /\ Plain(req'[p], c)
      BY <2>3, <2>4 DEF Same, Plain
    <3> QED BY <1>2, <2>3, <3>1, <3>2, WholeUntouched
  <2>5. CASE req[p].c = c
    <3>1. N = M
      BY <1>1, <1>4, <2>1, StayingViews DEF MemsKept, MemsStay
    <3>2. S = R \ {h}
      <4>1. RowNext(h, c) = None /\ \A k \in Hosts : k # h => RowNext(k, c) = Row(k, c)
        BY <1>1, <2>1, <2>5 DEF RowSet
      <4>2. \A k \in Hosts : k \in S <=> k \in R /\ k # h
        BY <1>4, <4>1, ViewsAre
      <4>3. S \subseteq Hosts /\ R \subseteq Hosts
        BY <1>4, ViewsAre
      <4> QED BY <4>2, <4>3
    <3>3. Wipes(req[p], h, c)
      BY <1>2, <1>5, <1>8, <2>5 DEF Wipes
    <3>4. \A q \in Procs : q # p => req'[q] = req[q]
      BY <2>3 DEF OthersWait
    <3>5. Through(p, c, hub, h, req, req')
      <4>1. CASE req[p].op = "delete" /\ Moved(p, "propagate")
        BY <1>5, <2>5, <4>1 DEF Moved, Same, Through
      <4>2. CASE req[p].op = "undo" /\ Ended(p)
        <5>1. Undoes(req[p], c)
          BY <1>2, <2>5, <4>2 DEF Undoes
        <5>2. h = hub /\ Alone(p, c, req)
          BY <1>5, <5>1, MakerIs
        <5>3. Plain(req'[p], c)
          BY <4>2, EndedIsPlain
        <5> QED BY <5>1, <5>2, <5>3 DEF Alone, Through
      <4> QED BY <2>2, <4>1, <4>2
    <3>6. ChatWhole(c, hub, pair, S, M, req', B)
      BY <1>6, <3>2, <3>3, <3>4, <3>5, WholeGone
    <3> QED BY <1>2, <1>4, <1>5, <3>1, <3>6 DEF WholeNext
  <2> QED BY <2>4, <2>5
<1> QED BY <1>2, <1>3, <1>7, <1>8

LEMMA DeleteMirrorWhole ==
    ASSUME ConversationsAssumption, CvTypes, NEW H, NEW P \in [Convs -> Pairs \cup {None}], Agree(H, P), NEW c \in ids, P[c] # None,
           Whole(c, H[c], P[c]), NEW p \in Procs, DeleteMirrorDoes(p)
    PROVE  WholeNext(c, H[c], P[c])
<1>1. c \in Convs
  BY DEF CvTypes, IdsInOrder
<1>2. req[p].pc = "propagate" /\ Ended(p) /\ broken' = broken
  BY DEF DeleteMirrorDoes
<1>3. OthersWait(p) /\ Plain(req'[p], c)
  BY <1>2, EndedIsPlain
<1>4. CASE req[p].c # c
  <2>1. \A k \in Hosts : HostKept(k) \/ HostCleared(k, req[p].c)
    BY DEF DeleteMirrorDoes
  <2>2. \A k \in Hosts : RowNext(k, c) = Row(k, c) /\ \A w \in Users : MemNext(k, c, w) = Mem(k, c, w)
    BY <1>1, <1>4, <2>1 DEF HostKept, HostCleared
  <2>3. Untouched(c)
    BY <2>2 DEF Untouched, RowsStay, MemsStay
  <2> QED BY <1>2, <1>3, <1>4, <2>3, WholeUntouched DEF Plain
<1>5. CASE req[p].c = c
  <2>1. PICK R, S, M, N : R = RowHosts(c) /\ S = RowHostsNext(c) /\ M = MemberSet(c) /\ N = MemberSetNext(c)
    OBVIOUS
  <2>2. PICK B, hub, pair : B = (c \in broken) /\ hub = H[c] /\ pair = P[c]
    OBVIOUS
  <2>3. ChatWhole(c, hub, pair, R, M, req, B)
    BY <2>1, <2>2 DEF Whole
  <2>4. PICK a, b : a \in Users /\ b \in Users /\ pair = {a, b}
    BY <1>1, <2>2, PairIs
  <2>5. R \subseteq Hosts /\ S \subseteq Hosts
    BY <2>1, ViewsAre
  <2>6. req[p].op = "delete"
    BY <1>2 DEF CvTypes, InOrder
  <2>7. ASSUME NEW k \in Hosts
        PROVE  \/ /\ (k \in S <=> k \in R) /\ \A x \in Users : <<k, x>> \in N <=> <<k, x>> \in M
                  /\ k \in req[p].arg /\ k \in R =>
                        hub # req[p].h /\ \A x \in Users : <<k, x>> \in M => Home[x] # req[p].h
               \/ k \notin S /\ \A x \in Users : <<k, x>> \notin N
    <3>1. (k \in R <=> Row(k, c) # None) /\ (k \in S <=> RowNext(k, c) # None)
      BY <2>1, ViewsAre
    <3>2. \A x \in Users : (<<k, x>> \in M <=> Mem(k, c, x) # None) /\ (<<k, x>> \in N <=> MemNext(k, c, x) # None)
      BY <2>1, ViewsAre
    <3>3. CASE HostCleared(k, c)
      BY <3>1, <3>2, <3>3 DEF HostCleared
    <3>4. CASE HostKept(k) /\ (k \in req[p].arg /\ Row(k, c) # None => ~InConversation(k, c, req[p].h))
      <4>1. (k \in S <=> k \in R) /\ \A x \in Users : <<k, x>> \in N <=> <<k, x>> \in M
        BY <1>1, <3>1, <3>2, <3>4 DEF HostKept
      <4>2. ASSUME k \in req[p].arg, k \in R
            PROVE  hub # req[p].h /\ \A x \in Users : <<k, x>> \in M => Home[x] # req[p].h
        <5>1. Row(k, c) # None /\ Row(k, c).hub = hub
          BY <1>1, <2>2, <3>1, <4>2 DEF Agree, RowFits
        <5> QED BY <3>2, <3>4, <4>2, <5>1 DEF InConversation
      <4> QED BY <4>1, <4>2
    <3> QED BY <1>5, <3>3, <3>4 DEF DeleteMirrorDoes
  <2>8. \A q \in Procs : q # p => req'[q] = req[q]
    BY <1>3 DEF OthersWait
  <2>9. ChatWhole(c, hub, pair, S, N, req', B)
    BY <1>2, <1>3, <1>5, <2>3, <2>4, <2>5, <2>6, <2>7, <2>8, WholeTold
  <2> QED BY <1>2, <2>1, <2>2, <2>9 DEF WholeNext
<1> QED BY <1>4, <1>5

\* The unique index on the pair, on every host.
OnePerHost == \A h \in Hosts, c, d \in Convs :
    Row(h, c) # None /\ Row(h, d) # None /\ Row(h, c).pair # None /\ Row(h, c).pair = Row(h, d).pair => c = d
OnePerHostNext == \A h \in Hosts, c, d \in Convs :
    /\ RowNext(h, c) # None /\ RowNext(h, d) # None
    /\ RowNext(h, c).pair # None /\ RowNext(h, c).pair = RowNext(h, d).pair
    => c = d

LEMMA FewerOnePerHost ==
    ASSUME OnePerHost, RowsFewer
    PROVE  OnePerHostNext
BY DEF OnePerHost, OnePerHostNext, RowsFewer

LEMMA UniqueOnePerHost ==
    ASSUME OnePerHost, NEW h \in Hosts, NEW c \in Convs, NEW row, RowSet(h, c, row),
           row.pair # None => \A x \in Convs : Row(h, x) # None => Row(h, x).pair # row.pair
    PROVE  OnePerHostNext
<1>1. SUFFICES ASSUME NEW k \in Hosts, NEW x \in Convs, NEW y \in Convs, RowNext(k, x) # None, RowNext(k, y) # None,
                      RowNext(k, x).pair # None, RowNext(k, x).pair = RowNext(k, y).pair, x # y
               PROVE  FALSE
  BY DEF OnePerHostNext
<1>2. CASE k # h \/ (x # c /\ y # c)
  <2>1. RowNext(k, x) = Row(k, x) /\ RowNext(k, y) = Row(k, y)
    BY <1>2 DEF RowSet
  <2> QED BY <1>1, <2>1 DEF OnePerHost
<1>3. CASE k = h /\ x = c
  <2>1. RowNext(k, x) = row /\ RowNext(k, y) = Row(k, y)
    BY <1>1, <1>3 DEF RowSet
  <2> QED BY <1>1, <1>3, <2>1
<1>4. CASE k = h /\ y = c
  <2>1. RowNext(k, y) = row /\ RowNext(k, x) = Row(k, x)
    BY <1>1, <1>4 DEF RowSet
  <2> QED BY <1>1, <1>4, <2>1
<1> QED BY <1>2, <1>3, <1>4

LEMMA MirrorOnePerHost ==
    ASSUME ConversationsAssumption, CvTypes, Mongo, OnePerHost, NEW p \in Procs, req[p].pc = "provision", MirrorDoes(p)
    PROVE  OnePerHostNext
<1>1. req[p].v \in Users /\ req[p].c \in Convs
  BY AtWork DEF CvTypes, InOrder
<1>2. Home[req[p].v] \in Hosts
  BY <1>1 DEF ConversationsAssumption
<1>3. CASE DbKept
  BY <1>3, KeptIsFewerRows, FewerOnePerHost DEF DbKept
<1>4. CASE /\ RowSet(Home[req[p].v], req[p].c, SpecRow(req[p]))
           /\ SpecRow(req[p]).pair # None =>
                 \A x \in Convs : Row(Home[req[p].v], x) # None => Row(Home[req[p].v], x).pair # SpecRow(req[p]).pair
  BY <1>1, <1>2, <1>4, UniqueOnePerHost
<1> QED BY <1>3, <1>4 DEF MirrorDoes

LEMMA OnePerHostKept ==
    ASSUME ConversationsAssumption, CvTypes, Mongo, OnePerHost, Effect
    PROVE  OnePerHostNext
<1>1. CASE RowsKept \/ RowsAlike
  BY <1>1, KeptIsFewerRows, FewerOnePerHost
<1>2. CASE \E c \in ids, u, v \in Users : SetMemberRoleDoes(u, v, c)
  BY <1>1, <1>2 DEF SetMemberRoleDoes
<1>3. CASE \E p \in Procs : BeginsDoes(p)
  BY <1>1, <1>3 DEF BeginsDoes, BeginDoes, DbKept
<1>4. CASE \E p \in Procs, c \in ids, u \in Users, delivered, read \in Nat : ReportDoes(p, u, c, delivered, read)
  BY <1>1, <1>4 DEF ReportDoes, ReceiptDoes
<1>5. ASSUME NEW p \in Procs, FindDirectDoes(p) \/ WinnerDoes(p) \/ InsertMembersDoes(p) \/ InsertMembersFailsDoes(p)
      PROVE  OnePerHostNext
  BY <1>1, <1>5 DEF FindDirectDoes, WinnerDoes, InsertMembersDoes, InsertMembersFailsDoes, DbKept
<1>6. ASSUME NEW p \in Procs, InsertConversationDoes(p)
      PROVE  OnePerHostNext
  <2>1. req[p].h \in Hosts
    BY <1>6, AtWork DEF InsertConversationDoes
  <2>2. CASE \E c \in Convs : /\ RowSet(req[p].h, c, NewRow(req[p]))
                              /\ NewRow(req[p]).pair # None => \A x \in Convs : Row(req[p].h, x) # None =>
                                    Row(req[p].h, x).pair # NewRow(req[p]).pair
    BY <2>1, <2>2, UniqueOnePerHost
  <2> QED BY <1>1, <1>6, <2>2 DEF InsertConversationDoes
<1>7. ASSUME NEW p \in Procs, ProvisionDoes(p) \/ ProvisionFailsDoes(p)
      PROVE  OnePerHostNext
  <2>1. req[p].pc = "provision" /\ (DbKept \/ MirrorDoes(p))
    BY <1>7 DEF ProvisionDoes, ProvisionFailsDoes
  <2> QED BY <1>1, <2>1, MirrorOnePerHost DEF DbKept
<1>8. ASSUME NEW p \in Procs,
             \/ JoinSeqDoes(p) \/ InsertMemberDoes(p) \/ RemoveMemberDoes(p)
             \/ TakeNumberDoes(p) \/ StoreMessageDoes(p) \/ ForwardReceiptDoes(p)
             \/ PutBlobDoes(p) \/ RecordAttachmentDoes(p) \/ RecordFailsDoes(p) \/ UnputBlobDoes(p)
             \/ DeleteBlobsDoes(p) \/ DeleteRecordsDoes(p) \/ CallFailsDoes(p)
      PROVE  OnePerHostNext
  BY <1>1, <1>8 DEF JoinSeqDoes, JoinDoes, InsertMemberDoes, RemoveMemberDoes, TakeNumberDoes, StoreMessageDoes,
         ForwardReceiptDoes, PutBlobDoes, RecordAttachmentDoes, RecordFailsDoes, UnputBlobDoes, DeleteBlobsDoes,
         DeleteRecordsDoes, CallFailsDoes, DbKept
<1>9. ASSUME NEW p \in Procs, DeleteStepDoes(p)
      PROVE  OnePerHostNext
  <2>1. req[p].h \in Hosts /\ req[p].c \in Convs
    BY <1>9, AtWork DEF DeleteStepDoes
  <2>2. RowsKept \/ RowSet(req[p].h, req[p].c, None)
    BY <1>9 DEF DeleteStepDoes
  <2> QED BY <2>1, <2>2, KeptIsFewerRows, FewerOnePerHost
<1>10. ASSUME NEW p \in Procs, DeleteMirrorDoes(p)
       PROVE  OnePerHostNext
  <2>1. \A k \in Hosts : HostKept(k) \/ HostCleared(k, req[p].c)
    BY <1>10 DEF DeleteMirrorDoes
  <2>2. RowsFewer
    BY <2>1 DEF HostKept, HostCleared, RowsFewer
  <2> QED BY <2>2, FewerOnePerHost
<1> QED BY <1>2, <1>3, <1>4, <1>5, <1>6, <1>7, <1>8, <1>9, <1>10 DEF Effect

\* Memberships are of conversations given out, and nobody is an administrator of a direct chat.
MemFits(m, c, P) == m # None => c \in ids /\ (P[c] = None \/ m.role = "user")
MemsFit(P) == \A h \in Hosts, c \in Convs, u \in Users : MemFits(Mem(h, c, u), c, P)
MemsFitNext(P) == \A h \in Hosts, c \in Convs, u \in Users : MemFits(MemNext(h, c, u), c, P)

LEMMA KeptFit ==
    ASSUME NEW P, MemsFit(P)
    PROVE  /\ MemsKept => MemsFitNext(P)
           /\ \A h \in Hosts, c \in Convs, u \in Users : \A m : MemSet(h, c, u, m) /\ MemFits(m, c, P) => MemsFitNext(P)
           /\ \A h \in Hosts, c \in Convs : \A f : MemsSet(h, c, f) /\ (\A u \in Users : MemFits(f[u], c, P)) => MemsFitNext(P)
<1>1. MemsKept => MemsFitNext(P)
  BY DEF MemsKept, MemsFit, MemsFitNext
<1>2. ASSUME NEW h \in Hosts, NEW c \in Convs, NEW u \in Users, NEW m, MemSet(h, c, u, m), MemFits(m, c, P)
      PROVE  MemsFitNext(P)
  <2>1. SUFFICES ASSUME NEW k \in Hosts, NEW x \in Convs, NEW w \in Users
                 PROVE  MemFits(MemNext(k, x, w), x, P)
    BY DEF MemsFitNext
  <2>2. CASE k = h /\ x = c /\ w = u
    BY <1>2, <2>2 DEF MemSet
  <2>3. CASE ~(k = h /\ x = c /\ w = u)
    BY <1>2, <2>3 DEF MemSet, MemsFit
  <2> QED BY <2>2, <2>3
<1>3. ASSUME NEW h \in Hosts, NEW c \in Convs, NEW f, MemsSet(h, c, f), \A u \in Users : MemFits(f[u], c, P)
      PROVE  MemsFitNext(P)
  <2>1. SUFFICES ASSUME NEW k \in Hosts, NEW x \in Convs, NEW w \in Users
                 PROVE  MemFits(MemNext(k, x, w), x, P)
    BY DEF MemsFitNext
  <2>2. CASE k = h /\ x = c
    BY <1>3, <2>2 DEF MemsSet
  <2>3. CASE ~(k = h /\ x = c)
    BY <1>3, <2>3 DEF MemsSet, MemsFit
  <2> QED BY <2>2, <2>3
<1> QED BY <1>1, <1>2, <1>3

LEMMA ReceiptFits ==
    ASSUME NEW P, MemsFit(P), NEW h \in Hosts, NEW c \in Convs, NEW u \in Users, NEW delivered, NEW read, Mem(h, c, u) # None,
           ReceiptDoes(h, c, u, delivered, read)
    PROVE  MemsFitNext(P)
<1>1. PICK m : m.role = Mem(h, c, u).role /\ MemSet(h, c, u, m)
  BY DEF ReceiptDoes
<1>2. MemFits(Mem(h, c, u), c, P)
  BY DEF MemsFit
<1>3. MemFits(m, c, P)
  BY <1>1, <1>2 DEF MemFits
<1> QED BY <1>1, <1>3, KeptFit

LEMMA CreateFits ==
    ASSUME ConversationsAssumption, CvTypes, NEW H, NEW P, Agree(H, P), MemsFit(P), NEW p \in Procs,
           InsertMembersDoes(p) \/ ProvisionDoes(p) \/ ProvisionFailsDoes(p)
    PROVE  MemsFitNext(P)
<1>1. CASE MemsKept
  BY <1>1, KeptFit
<1>2. req[p].pc \in {"members", "provision"}
  BY DEF InsertMembersDoes, ProvisionDoes, ProvisionFailsDoes
<1>3. req[p].c \in ids /\ req[p].c \in Convs /\ req[p].h \in Hosts
  BY <1>2, AtWork
<1>4. CASE InsertMembersDoes(p)
  <2>1. PICK f : f = NewMembers(req[p])
    OBVIOUS
  <2>2. MemsSet(req[p].h, req[p].c, f) /\ req[p].pc = "members"
    BY <1>4, <2>1 DEF InsertMembersDoes
  <2>3. req[p].op \in {"direct", "group"} /\ ReqFits(req[p], H, P)
    BY <2>2 DEF CvTypes, InOrder, Agree
  <2>4. P[req[p].c] = PairOf(req[p])
    BY <2>2, <2>3 DEF ReqFits, Creates, Creating
  <2>5. req[p].op = "group" => P[req[p].c] = None
    BY <2>4 DEF PairOf
  <2>6. req[p].op # "group" => \A u \in Users : f[u] # None => f[u].role = "user"
    BY <2>1, NewMembersAre
  <2>7. \A u \in Users : MemFits(f[u], req[p].c, P)
    BY <1>3, <2>5, <2>6 DEF MemFits
  <2> QED BY <1>3, <2>2, <2>7, KeptFit
<1>5. CASE ProvisionDoes(p) \/ ProvisionFailsDoes(p)
  <2>1. DbKept \/ MirrorDoes(p)
    BY <1>5 DEF ProvisionDoes, ProvisionFailsDoes
  <2>2. req[p].v \in Users
    BY <1>5, AtWork DEF CvTypes, InOrder, ProvisionDoes, ProvisionFailsDoes
  <2>3. Home[req[p].v] \in Hosts
    BY <2>2 DEF ConversationsAssumption
  <2>4. CASE \E f : /\ MemsSet(Home[req[p].v], req[p].c, f)
                    /\ \A u \in Users : f[u] # None => f[u].role = "user"
    <3>1. PICK f : /\ MemsSet(Home[req[p].v], req[p].c, f)
                   /\ \A u \in Users : f[u] # None => f[u].role = "user"
      BY <2>4
    <3>2. \A u \in Users : MemFits(f[u], req[p].c, P)
      BY <1>3, <3>1 DEF MemFits
    <3> QED BY <1>3, <2>3, <3>1, <3>2, KeptFit
  <2>5. DbKept \/ \E f : /\ MemsSet(Home[req[p].v], req[p].c, f)
                         /\ \A u \in Users : f[u] # None => f[u].role = "user"
    BY <2>1 DEF MirrorDoes, Fresh
  <2> QED BY <1>1, <2>4, <2>5 DEF DbKept
<1> QED BY <1>4, <1>5

LEMMA RosterFits ==
    ASSUME ConversationsAssumption, CvTypes, NEW P, MemsFit(P), NEW p \in Procs,
           JoinSeqDoes(p) \/ InsertMemberDoes(p) \/ RemoveMemberDoes(p)
    PROVE  MemsFitNext(P)
<1>1. CASE MemsKept
  BY <1>1, KeptFit
<1>2. req[p].pc \in {"joinSeq", "insertMember", "removeMember"}
  BY DEF JoinSeqDoes, InsertMemberDoes, RemoveMemberDoes
<1>3. req[p].c \in ids /\ req[p].c \in Convs /\ req[p].h \in Hosts /\ req[p].v \in Users
  BY <1>2, AtWork DEF CvTypes, InOrder
<1>4. MemsKept \/ \E m : (m = None \/ m.role = "user") /\ MemSet(req[p].h, req[p].c, req[p].v, m)
  BY DEF JoinSeqDoes, JoinDoes, InsertMemberDoes, RemoveMemberDoes, DbKept
<1>5. CASE \E m : (m = None \/ m.role = "user") /\ MemSet(req[p].h, req[p].c, req[p].v, m)
  <2>1. PICK m : (m = None \/ m.role = "user") /\ MemSet(req[p].h, req[p].c, req[p].v, m)
    BY <1>5
  <2>2. MemFits(m, req[p].c, P)
    BY <1>3, <2>1 DEF MemFits
  <2> QED BY <1>3, <2>1, <2>2, KeptFit
<1> QED BY <1>1, <1>4, <1>5

LEMMA SetMemberRoleFits ==
    ASSUME ConversationsAssumption, CvTypes, NEW H, NEW P, Agree(H, P), MemsFit(P),
           NEW c \in ids, NEW u \in Users, NEW v \in Users, SetMemberRoleDoes(u, v, c)
    PROVE  MemsFitNext(P)
<1>1. Home[u] \in Hosts /\ c \in Convs
  BY DEF ConversationsAssumption, CvTypes, IdsInOrder
<1>2. PICK m : MemSet(Home[u], c, v, m) /\ Row(Home[u], c) # None /\ Row(Home[u], c).kind = "group"
  BY DEF SetMemberRoleDoes
<1>3. P[c] = None
  BY <1>1, <1>2 DEF Agree, RowFits
<1>4. MemFits(m, c, P)
  BY <1>3 DEF MemFits
<1> QED BY <1>1, <1>2, <1>4, KeptFit

LEMMA DeleteFits ==
    ASSUME CvTypes, Mongo, NEW P, MemsFit(P), NEW p \in Procs, DeleteStepDoes(p) \/ DeleteMirrorDoes(p)
    PROVE  MemsFitNext(P)
<1>1. CASE DeleteStepDoes(p)
  <2>1. req[p].c \in Convs /\ req[p].h \in Hosts
    BY <1>1, AtWork DEF DeleteStepDoes
  <2>2. MemsKept \/ MemsSet(req[p].h, req[p].c, NoMembers)
    BY <1>1 DEF DeleteStepDoes
  <2>3. \A u \in Users : MemFits(NoMembers[u], req[p].c, P)
    BY DEF MemFits, NoMembers
  <2> QED BY <2>1, <2>2, <2>3, KeptFit
<1>2. CASE DeleteMirrorDoes(p)
  <2>1. \A k \in Hosts : HostKept(k) \/ HostCleared(k, req[p].c)
    BY <1>2 DEF DeleteMirrorDoes
  <2>2. \A k \in Hosts, x \in Convs, w \in Users : MemNext(k, x, w) = Mem(k, x, w) \/ MemNext(k, x, w) = None
    BY <2>1 DEF HostKept, HostCleared
  <2>3. ASSUME NEW k \in Hosts, NEW x \in Convs, NEW w \in Users PROVE MemFits(MemNext(k, x, w), x, P)
    <3>1. MemFits(Mem(k, x, w), x, P)
      BY DEF MemsFit
    <3> QED BY <2>2, <3>1 DEF MemFits
  <2> QED BY <2>3 DEF MemsFitNext
<1> QED BY <1>1, <1>2

LEMMA MemsFitKept ==
    ASSUME ConversationsAssumption, CvTypes, Mongo, NEW H, NEW P, Agree(H, P), MemsFit(P), Effect
    PROVE  MemsFitNext(P)
<1>1. CASE MemsKept
  BY <1>1, KeptFit
<1>2. CASE \E c \in ids, u, v \in Users : SetMemberRoleDoes(u, v, c)
  BY <1>2, SetMemberRoleFits
<1>3. CASE \E p \in Procs : BeginsDoes(p)
  BY <1>1, <1>3 DEF BeginsDoes, BeginDoes, DbKept
<1>4. CASE \E p \in Procs, c \in ids, u \in Users, delivered, read \in Nat : ReportDoes(p, u, c, delivered, read)
  <2>1. PICK p \in Procs, c \in ids, u \in Users, delivered \in Nat, read \in Nat : ReportDoes(p, u, c, delivered, read)
    BY <1>4
  <2>2. Home[u] \in Hosts /\ c \in Convs
    BY DEF ConversationsAssumption, CvTypes, IdsInOrder
  <2> QED BY <2>1, <2>2, ReceiptFits DEF ReportDoes
<1>5. ASSUME NEW p \in Procs, ForwardReceiptDoes(p)
      PROVE  MemsFitNext(P)
  <2>1. req[p].c \in Convs /\ req[p].u \in Users
    BY <1>5, AtWork DEF ForwardReceiptDoes
  <2> QED BY <1>1, <1>5, <2>1, ReceiptFits DEF ForwardReceiptDoes
<1>6. ASSUME NEW p \in Procs,
             \/ FindDirectDoes(p) \/ WinnerDoes(p) \/ InsertConversationDoes(p) \/ InsertMembersFailsDoes(p)
             \/ TakeNumberDoes(p) \/ StoreMessageDoes(p)
             \/ PutBlobDoes(p) \/ RecordAttachmentDoes(p) \/ RecordFailsDoes(p) \/ UnputBlobDoes(p)
             \/ DeleteBlobsDoes(p) \/ DeleteRecordsDoes(p) \/ CallFailsDoes(p)
      PROVE  MemsFitNext(P)
  BY <1>1, <1>6 DEF FindDirectDoes, WinnerDoes, InsertConversationDoes, InsertMembersFailsDoes, TakeNumberDoes, StoreMessageDoes,
         PutBlobDoes, RecordAttachmentDoes, RecordFailsDoes, UnputBlobDoes, DeleteBlobsDoes, DeleteRecordsDoes, CallFailsDoes, DbKept
<1>7. ASSUME NEW p \in Procs, InsertMembersDoes(p) \/ ProvisionDoes(p) \/ ProvisionFailsDoes(p)
      PROVE  MemsFitNext(P)
  BY <1>7, CreateFits
<1>8. ASSUME NEW p \in Procs, JoinSeqDoes(p) \/ InsertMemberDoes(p) \/ RemoveMemberDoes(p)
      PROVE  MemsFitNext(P)
  BY <1>8, RosterFits
<1>9. ASSUME NEW p \in Procs, DeleteStepDoes(p) \/ DeleteMirrorDoes(p)
      PROVE  MemsFitNext(P)
  BY <1>9, DeleteFits
<1> QED BY <1>2, <1>3, <1>4, <1>5, <1>6, <1>7, <1>8, <1>9 DEF Effect

\* Every direct chat there is, through a step.
LEMMA WholeKept ==
    ASSUME ConversationsAssumption, CvTypes, Mongo, OneCreator, NEW H \in [Convs -> Hosts], NEW P \in [Convs -> Pairs \cup {None}],
           Agree(H, P), MemsFit(P), NEW c \in ids, P[c] # None, Whole(c, H[c], P[c]), Effect
    PROVE  WholeNext(c, H[c], P[c])
<1>1. c \in Convs
  BY DEF CvTypes, IdsInOrder
<1>2. PICK hub, pair : hub = H[c] /\ pair = P[c]
  OBVIOUS
<1>3. Whole(c, hub, pair) /\ (WholeNext(c, hub, pair) => WholeNext(c, H[c], P[c]))
  BY <1>2
<1>4. pair \subseteq Users
  BY <1>1, <1>2, PairIs
<1>5. NoAdmins(c)
  BY <1>1 DEF MemsFit, MemFits, NoAdmins
<1>6. CASE \E x \in ids, u, v \in Users : SetMemberRoleDoes(u, v, x)
  BY <1>1, <1>3, <1>6, SetMemberRoleWhole
<1>7. CASE \E p \in Procs : BeginsDoes(p)
  BY <1>3, <1>4, <1>5, <1>7, BeginsWhole
<1>8. CASE \E p \in Procs, x \in ids, u \in Users, delivered, read \in Nat : ReportDoes(p, u, x, delivered, read)
  BY <1>1, <1>3, <1>8, ReportWhole
<1>9. ASSUME NEW p \in Procs,
             \/ FindDirectDoes(p) \/ WinnerDoes(p) \/ TakeNumberDoes(p) \/ StoreMessageDoes(p) \/ PutBlobDoes(p)
             \/ RecordAttachmentDoes(p) \/ RecordFailsDoes(p) \/ UnputBlobDoes(p)
      PROVE  WholeNext(c, H[c], P[c])
  BY <1>1, <1>9, MessageWhole
<1>10. ASSUME NEW p \in Procs, ForwardReceiptDoes(p) PROVE WholeNext(c, H[c], P[c])
  BY <1>1, <1>10, ForwardReceiptWhole
<1>11. ASSUME NEW p \in Procs, InsertConversationDoes(p) PROVE WholeNext(c, H[c], P[c])
  BY <1>11, InsertConversationWhole
<1>12. ASSUME NEW p \in Procs, InsertMembersDoes(p) PROVE WholeNext(c, H[c], P[c])
  BY <1>12, InsertMembersWhole
<1>13. ASSUME NEW p \in Procs, InsertMembersFailsDoes(p) \/ CallFailsDoes(p) PROVE WholeNext(c, H[c], P[c])
  BY <1>13, FailsWhole
<1>14. ASSUME NEW p \in Procs, ProvisionDoes(p) \/ ProvisionFailsDoes(p) PROVE WholeNext(c, H[c], P[c])
  BY <1>14, ProvisionWhole
<1>15. ASSUME NEW p \in Procs, JoinSeqDoes(p) \/ InsertMemberDoes(p) PROVE WholeNext(c, H[c], P[c])
  BY <1>15, AddingWhole
<1>16. ASSUME NEW p \in Procs, RemoveMemberDoes(p) PROVE WholeNext(c, H[c], P[c])
  BY <1>16, RemoveMemberWhole
<1>17. ASSUME NEW p \in Procs, DeleteBlobsDoes(p) \/ DeleteRecordsDoes(p) PROVE WholeNext(c, H[c], P[c])
  BY <1>17, DeleteGoesWhole
<1>18. ASSUME NEW p \in Procs, DeleteStepDoes(p) PROVE WholeNext(c, H[c], P[c])
  BY <1>18, DeleteStepWhole
<1>19. ASSUME NEW p \in Procs, DeleteMirrorDoes(p) PROVE WholeNext(c, H[c], P[c])
  BY <1>19, DeleteMirrorWhole
<1>20. CASE \E p \in Procs :
        \/ FindDirectDoes(p) \/ InsertConversationDoes(p) \/ InsertMembersDoes(p) \/ InsertMembersFailsDoes(p)
        \/ WinnerDoes(p) \/ ProvisionDoes(p) \/ ProvisionFailsDoes(p)
        \/ JoinSeqDoes(p) \/ InsertMemberDoes(p) \/ RemoveMemberDoes(p)
        \/ TakeNumberDoes(p) \/ StoreMessageDoes(p) \/ ForwardReceiptDoes(p)
        \/ PutBlobDoes(p) \/ RecordAttachmentDoes(p) \/ RecordFailsDoes(p) \/ UnputBlobDoes(p)
        \/ DeleteBlobsDoes(p) \/ DeleteRecordsDoes(p) \/ DeleteStepDoes(p) \/ DeleteMirrorDoes(p)
        \/ CallFailsDoes(p)
  BY <1>9, <1>10, <1>11, <1>12, <1>13, <1>14, <1>15, <1>16, <1>17, <1>18, <1>19, <1>20
<1> QED BY <1>6, <1>7, <1>8, <1>20 DEF Effect

\* Conversations are given out one at a time, by the insert.
LEMMA GivenOut ==
    ASSUME Effect
    PROVE  /\ ids' = ids \/ \E p \in Procs : InsertConversationDoes(p)
           /\ ids \subseteq ids' /\ backend' = backend
<1>1. CASE \E c \in ids, u, v \in Users : SetMemberRoleDoes(u, v, c)
  BY <1>1 DEF SetMemberRoleDoes
<1>2. CASE \E p \in Procs : BeginsDoes(p)
  BY <1>2 DEF BeginsDoes, BeginDoes
<1>3. CASE \E p \in Procs, c \in ids, u \in Users, delivered, read \in Nat : ReportDoes(p, u, c, delivered, read)
  BY <1>3 DEF ReportDoes
<1>4. ASSUME NEW p \in Procs, InsertConversationDoes(p)
      PROVE  ids \subseteq ids' /\ backend' = backend
  BY <1>4 DEF InsertConversationDoes
<1>5. ASSUME NEW p \in Procs,
             \/ FindDirectDoes(p) \/ WinnerDoes(p) \/ InsertMembersDoes(p) \/ InsertMembersFailsDoes(p) \/ CallFailsDoes(p)
             \/ ProvisionDoes(p) \/ ProvisionFailsDoes(p) \/ JoinSeqDoes(p) \/ InsertMemberDoes(p) \/ RemoveMemberDoes(p)
      PROVE  ids' = ids /\ backend' = backend
  BY <1>5 DEF FindDirectDoes, WinnerDoes, InsertMembersDoes, InsertMembersFailsDoes, CallFailsDoes, ProvisionDoes,
         ProvisionFailsDoes, JoinSeqDoes, InsertMemberDoes, RemoveMemberDoes
<1>6. ASSUME NEW p \in Procs,
             \/ TakeNumberDoes(p) \/ StoreMessageDoes(p) \/ ForwardReceiptDoes(p) \/ PutBlobDoes(p) \/ RecordAttachmentDoes(p)
             \/ RecordFailsDoes(p) \/ UnputBlobDoes(p) \/ DeleteBlobsDoes(p) \/ DeleteRecordsDoes(p) \/ DeleteStepDoes(p)
             \/ DeleteMirrorDoes(p)
      PROVE  ids' = ids /\ backend' = backend
  BY <1>6 DEF TakeNumberDoes, StoreMessageDoes, ForwardReceiptDoes, PutBlobDoes, RecordAttachmentDoes,
         RecordFailsDoes, UnputBlobDoes, DeleteBlobsDoes, DeleteRecordsDoes, DeleteStepDoes, DeleteMirrorDoes
<1> QED BY <1>1, <1>2, <1>3, <1>4, <1>5, <1>6 DEF Effect

LEMMA NewWhole ==
    ASSUME ConversationsAssumption, CvTypes, Mongo, NEW P, MemsFit(P), NEW G \in [Convs -> Hosts],
           NEW Q \in [Convs -> Pairs \cup {None}], AgreeNext(G, Q), Effect, NEW c \in ids', c \notin ids, Q[c] # None
    PROVE  WholeNext(c, G[c], Q[c])
<1>1. PICK p \in Procs : InsertConversationDoes(p)
  BY GivenOut
<1>2. /\ req[p].pc = "insert" /\ c \in Convs /\ RowSet(req[p].h, c, NewRow(req[p])) /\ MemsKept /\ Created(p, "members", c)
  BY <1>1 DEF InsertConversationDoes
<1>3. /\ req[p].op \in {"direct", "group"} /\ req[p].u \in Users /\ req[p].h \in Hosts /\ req[p].h = Home[req[p].u]
  BY <1>2, AtWork DEF CvTypes, InOrder
<1>4. req'[p].pc = "members" /\ req'[p].c = c /\ req'[p].op = req[p].op /\ req'[p].u = req[p].u /\ req'[p].v = req[p].v
      /\ req'[p].h = req[p].h
  BY <1>2 DEF Created
<1>5. ReqFits(req'[p], G, Q)
  BY DEF AgreeNext
<1>6. G[c] = req[p].h /\ Q[c] = PairOf(req'[p])
  BY <1>3, <1>4, <1>5 DEF ReqFits, Creates, Creating
<1>7. Q[c] = {req[p].u, req[p].v}
  BY <1>4, <1>6 DEF PairOf
<1>8. G[c] \in Homes(Q[c]) /\ G[c] \in Hosts
  BY <1>3, <1>6, <1>7 DEF Homes
<1>9. \A h \in Hosts, u \in Users : Mem(h, c, u) = None
  BY <1>2 DEF MemsFit, MemFits
<1>10. NewRow(req[p]) # None
  <2>1. req[p] \in Requests /\ (req[p].op = "direct" => req[p].v \in Users)
    BY <1>2, AtWork DEF CvTypes, InOrder
  <2> QED BY <1>3, <2>1, NewRowIs
<1> QED BY <1>2, <1>6, <1>8, <1>9, <1>10, InsertedWhole

\* The invariant of the pairs, on MongoDB hosts.
ChatsWhole(H, P) == \A c \in ids : P[c] # None => Whole(c, H[c], P[c])
ChatsWholeNext(H, P) == \A c \in ids' : P[c] # None => WholeNext(c, H[c], P[c])
Paired(H, P) == Agree(H, P) /\ MemsFit(P) /\ ChatsWhole(H, P)
PairInv == Mongo =>
    /\ OnePerHost
    /\ \E H \in [Convs -> Hosts], P \in [Convs -> Pairs \cup {None}] : Paired(H, P)

LEMMA WholeMade ==
    ASSUME NEW c, NEW hub, NEW pair, WholeNext(c, hub, pair)
    PROVE  Whole(c, hub, pair)'
<1>1. RowHosts(c)' = RowHostsNext(c) /\ MemberSet(c)' = MemberSetNext(c)
  BY DEF RowHosts, RowHostsNext, MemberSet, MemberSetNext, Row, RowNext, Mem, MemNext
<1>2. PICK R, M, Q, B : R = RowHostsNext(c) /\ M = MemberSetNext(c) /\ Q = req' /\ B = (c \in broken')
  OBVIOUS
<1>3. ChatWhole(c, hub, pair, R, M, Q, B)
  BY <1>2 DEF WholeNext
<1>4. R = RowHosts(c)' /\ M = MemberSet(c)'
  BY <1>1, <1>2
<1>5. OnHomes(hub, pair, RowHosts(c))'
  BY <1>3, <1>4 DEF ChatWhole, OnHomes, Homes
<1>6. RosterWhole(c, pair, RowHosts(c), MemberSet(c), req)'
  BY <1>2, <1>3, <1>4 DEF ChatWhole, RosterWhole, Wipes
<1>7. LeaveAlone(c, req)'
  BY <1>2, <1>3 DEF ChatWhole, LeaveAlone, Leaves
<1>8. EndsEverywhere(c, pair, RowHosts(c), req)'
  BY <1>2, <1>3, <1>4 DEF ChatWhole, EndsEverywhere, Ends, Homes
<1>9. MadeOnHub(c, hub, RowHosts(c), req)'
  BY <1>2, <1>3, <1>4 DEF ChatWhole, MadeOnHub, Making, Ends
<1>10. Unfilled(c, hub, RowHosts(c), MemberSet(c), req)'
  BY <1>2, <1>3, <1>4 DEF ChatWhole, Unfilled, Filling, Ends
<1>11. UndoneOnHub(c, hub, RowHosts(c), req, c \in broken)'
  BY <1>2, <1>3, <1>4 DEF ChatWhole, UndoneOnHub, Undoes
<1>12. OthersBeside(c, pair, RowHosts(c), MemberSet(c), req, c \in broken)'
  BY <1>2, <1>3, <1>4 DEF ChatWhole, OthersBeside, Wipes, Filling
<1>13. BothOrNone(c, pair, RowHosts(c), req, c \in broken)'
  <2>1. PICK S : S = Homes(pair)
    OBVIOUS
  <2>2. S = Homes(pair)'
    BY <2>1 DEF Homes
  <2>3. \A h \in R, k \in S : k \in R \/ B \/ \E p \in Procs : Clears(Q[p], h, c) \/ Tells(Q[p], k, c) \/ Making(Q[p], c)
    BY <1>3, <2>1 DEF ChatWhole, BothOrNone
  <2>4. ASSUME NEW h \in R, NEW k \in S
        PROVE  (k \in RowHosts(c) \/ c \in broken \/ \E p \in Procs : Clears(req[p], h, c) \/ Tells(req[p], k, c) \/ Making(req[p], c))'
    <3>1. CASE k \in R \/ B
      BY <1>2, <1>4, <3>1
    <3>2. CASE \E p \in Procs : Clears(Q[p], h, c) \/ Tells(Q[p], k, c) \/ Making(Q[p], c)
      BY <1>2, <3>2 DEF Clears, Tells, Making
    <3> QED BY <2>3, <3>1, <3>2
  <2> QED BY <1>4, <2>2, <2>4 DEF BothOrNone
<1> QED BY <1>5, <1>6, <1>7, <1>8, <1>9, <1>10, <1>11, <1>12, <1>13 DEF Whole, ChatWhole

LEMMA PairedMade ==
    ASSUME NEW P, NEW G, NEW Q, AgreeNext(G, Q), MemsFitNext(P), ids \subseteq ids', \A x \in ids : Q[x] = P[x], ChatsWholeNext(G, Q)
    PROVE  Paired(G, Q)'
<1>1. Agree(G, Q)'
  BY AgreeMade
<1>2. MemsFit(Q)'
  BY DEF MemsFit, MemsFitNext, MemFits, Mem, MemNext
<1>3. ChatsWhole(G, Q)'
  BY WholeMade DEF ChatsWhole, ChatsWholeNext
<1> QED BY <1>1, <1>2, <1>3 DEF Paired

LEMMA OnePerHostMade ==
    ASSUME OnePerHostNext
    PROVE  OnePerHost'
BY DEF OnePerHost, OnePerHostNext, Row, RowNext

LEMMA PairKept ==
    ASSUME ConversationsAssumption, CvTypes, MemberInv, PairInv, Effect
    PROVE  PairInv'
<1>1. SUFFICES ASSUME Mongo'
               PROVE  OnePerHost' /\ \E H \in [Convs -> Hosts], P \in [Convs -> Pairs \cup {None}] : Paired(H, P)'
  BY DEF PairInv
<1>2. Mongo
  <2>1. backend' = backend
    BY GivenOut
  <2> QED BY <1>1, <2>1 DEF Mongo
<1>3. ids \subseteq ids'
  BY GivenOut
<1>4. OnePerHost /\ OneCreator
  BY <1>2 DEF PairInv, MemberInv
<1>5. OnePerHost'
  BY <1>2, <1>4, OnePerHostKept, OnePerHostMade
<1>6. PICK H \in [Convs -> Hosts], P \in [Convs -> Pairs \cup {None}] : Paired(H, P)
  BY <1>2 DEF PairInv
<1>7. Agree(H, P) /\ MemsFit(P) /\ ChatsWhole(H, P)
  BY <1>6 DEF Paired
<1>8. PICK G \in [Convs -> Hosts], Q \in [Convs -> Pairs \cup {None}] :
         AgreeNext(G, Q) /\ \A x \in ids : G[x] = H[x] /\ Q[x] = P[x]
  BY <1>7, AgreeKept
<1>9. MemsFitNext(P)
  BY <1>2, <1>7, MemsFitKept
<1>10. ASSUME NEW c \in ids', Q[c] # None
       PROVE  WholeNext(c, G[c], Q[c])
  <2>1. CASE c \in ids
    <3>1. G[c] = H[c] /\ Q[c] = P[c] /\ P[c] # None
      BY <1>8, <1>10, <2>1
    <3>2. Whole(c, H[c], P[c])
      BY <1>7, <2>1, <3>1 DEF ChatsWhole
    <3>3. WholeNext(c, H[c], P[c])
      BY <1>2, <1>4, <1>7, <2>1, <3>1, <3>2, WholeKept
    <3> QED BY <3>1, <3>3
  <2>2. CASE c \notin ids
    BY <1>2, <1>7, <1>8, <1>10, <2>2, NewWhole
  <2> QED BY <2>1, <2>2
<1>11. ChatsWholeNext(G, Q)
  BY <1>10 DEF ChatsWholeNext
<1>12. Paired(G, Q)'
  BY <1>3, <1>8, <1>9, <1>11, PairedMade
<1> QED BY <1>5, <1>8, <1>12

\* The chat of the pair that begins with one.
LEMMA StartWhole ==
    ASSUME ConversationsAssumption, BeginsChat("direct", Chat), \A p \in Procs : req[p].pc = "idle"
    PROVE  Whole(1, Home[Founder], Chat)
<1>1. PICK R, M : R = RowHosts(1) /\ M = MemberSet(1)
  OBVIOUS
<1>2. 1 \in Convs /\ Chat \subseteq Users /\ Founder \in Chat /\ \A u \in Users : Home[u] \in Hosts
  BY DEF ConversationsAssumption, Pairs
<1>3. \A h \in Hosts : h \in R <=> h \in Homes(Chat)
  BY <1>1, <1>2, ViewsAre DEF BeginsChat, Homes
<1>4. \A h \in Hosts, u \in Users : <<h, u>> \in M <=> h \in Homes(Chat) /\ u \in Chat
  <2>1. SUFFICES ASSUME NEW h \in Hosts, NEW u \in Users
                 PROVE  Mem(h, 1, u) # None <=> h \in Homes(Chat) /\ u \in Chat
    BY <1>1, ViewsAre
  <2> QED BY <1>2 DEF BeginsChat, Homes, Fresh
<1>5. R = Homes(Chat)
  <2>1. R \subseteq Hosts /\ Homes(Chat) \subseteq Hosts
    BY <1>1, <1>2, ViewsAre DEF Homes
  <2> QED BY <1>3, <2>1
<1>6. Home[Founder] \in Homes(Chat)
  BY <1>2 DEF Homes
<1>7. \A p \in Procs : /\ ~Filling(req[p], 1) /\ ~Making(req[p], 1) /\ ~Undoes(req[p], 1) /\ ~Leaves(req[p], 1) /\ ~Ends(req[p], 1)
                       /\ \A h : ~Wipes(req[p], h, 1)
  BY DEF Filling, Making, Undoes, Leaves, Ends, Wipes
<1>8. PICK B : B = (1 \in broken)
  OBVIOUS
<1>9. OnHomes(Home[Founder], Chat, R) /\ LeaveAlone(1, req)
  BY <1>5, <1>6, <1>7 DEF OnHomes, LeaveAlone
<1>10. RosterWhole(1, Chat, R, M, req)
  BY <1>2, <1>4, <1>5, <1>7 DEF RosterWhole
<1>11. /\ EndsEverywhere(1, Chat, R, req) /\ MadeOnHub(1, Home[Founder], R, req) /\ Unfilled(1, Home[Founder], R, M, req)
       /\ UndoneOnHub(1, Home[Founder], R, req, B)
  BY <1>7 DEF EndsEverywhere, MadeOnHub, Unfilled, UndoneOnHub
<1>12. OthersBeside(1, Chat, R, M, req, B) /\ BothOrNone(1, Chat, R, req, B)
  <2>1. \A h \in R, x \in Chat : <<h, x>> \in M
    BY <1>1, <1>2, <1>4, <1>5, ViewsAre
  <2> QED BY <1>5, <2>1 DEF OthersBeside, BothOrNone
<1> QED BY <1>1, <1>8, <1>9, <1>10, <1>11, <1>12 DEF Whole, ChatWhole

LEMMA InitPairs ==
    ASSUME ConversationsAssumption, Init
    PROVE  PairInv
<1>1. InitDoes
  BY InitIs
<1>2. told = {} /\ \A p \in Procs : req[p].pc = "idle"
  BY IdleForwardsNothing DEF Init
<1>3. \A p \in Procs : ~Creates(req[p]) /\ ~Adds(req[p])
  BY <1>2 DEF Creates, Creating, Undoing, Adds
<1>4. Home[Founder] \in Hosts /\ Chat \in Pairs /\ Chat # None
  BY DEF ConversationsAssumption, Pairs
<1>5. ASSUME NEW kind \in {"group", "direct"}, NEW pair \in {Chat, None}, kind = "group" <=> pair = None,
             (BeginsEmpty /\ ids = {}) \/ (BeginsChat(kind, pair) /\ ids = {1})
      PROVE  PairInv
  <2>1. PICK H : H = [c \in Convs |-> Home[Founder]]
    OBVIOUS
  <2>2. PICK P : P = [c \in Convs |-> pair]
    OBVIOUS
  <2>3. H \in [Convs -> Hosts] /\ P \in [Convs -> Pairs \cup {None}]
    BY <1>4, <2>1, <2>2
  <2>4. \A h \in Hosts, c \in Convs : RowFits(Row(h, c), c, H, P)
    BY <1>5, <2>1, <2>2 DEF RowFits, BeginsEmpty, BeginsChat
  <2>5. Agree(H, P)
    BY <1>2, <1>3, <2>4 DEF Agree, ReqFits
  <2>6. MemsFit(P)
    BY <1>5, <2>2 DEF MemsFit, MemFits, BeginsEmpty, BeginsChat
  <2>7. OnePerHost
    BY <1>5 DEF OnePerHost, BeginsEmpty, BeginsChat
  <2>8. ChatsWhole(H, P)
    <3>1. SUFFICES ASSUME NEW c \in ids, P[c] # None PROVE Whole(c, H[c], P[c])
      BY DEF ChatsWhole
    <3>2. c = 1 /\ 1 \in Convs /\ BeginsChat(kind, pair)
      BY <1>5 DEF ConversationsAssumption
    <3>3. pair = Chat /\ kind = "direct" /\ P[1] = Chat /\ H[1] = Home[Founder]
      BY <1>5, <2>1, <2>2, <3>1, <3>2
    <3>4. Whole(1, Home[Founder], Chat)
      BY <1>2, <3>2, <3>3, StartWhole
    <3> QED BY <3>2, <3>3, <3>4
  <2>9. Paired(H, P)
    BY <2>5, <2>6, <2>8 DEF Paired
  <2> QED BY <2>3, <2>7, <2>9 DEF PairInv
<1> QED BY <1>1, <1>4, <1>5 DEF InitDoes

\* Once the requests have ended with nothing cut short, the homes of a pair have the same chat.
LEMMA PairsAreOne ==
    ASSUME ConversationsAssumption, CvTypes, PairInv
    PROVE  OneChatPerPair
<1> SUFFICES ASSUME Mongo, NEW h \in Hosts, NEW k \in Hosts, NEW c \in ids, NEW d \in ids, c # d, Exists(h, c), Exists(k, d),
                    db[h].rows[c].pair # None, h = k \/ (Quiet /\ broken = {}), db[h].rows[c].pair = db[k].rows[d].pair
             PROVE  FALSE
  BY DEF OneChatPerPair
<1>1. c \in Convs /\ d \in Convs
  BY DEF CvTypes, IdsInOrder
<1>2. Row(h, c) # None /\ Row(k, d) # None /\ Row(h, c).pair # None /\ Row(h, c).pair = Row(k, d).pair
  BY DEF Exists, Row
<1>3. OnePerHost
  BY DEF PairInv
<1>4. CASE h = k
  BY <1>1, <1>2, <1>3, <1>4 DEF OnePerHost
<1>5. CASE Quiet /\ broken = {}
  <2>1. PICK H \in [Convs -> Hosts], P \in [Convs -> Pairs \cup {None}] : Paired(H, P)
    BY DEF PairInv
  <2>2. P[c] = Row(h, c).pair /\ P[d] = Row(k, d).pair
    BY <1>1, <1>2, <2>1 DEF Paired, Agree, RowFits
  <2>3. Whole(c, H[c], P[c]) /\ Whole(d, H[d], P[d])
    BY <1>2, <2>1, <2>2 DEF Paired, ChatsWhole
  <2>4. k \in Homes(P[d])
    <3>1. k \in RowHosts(d)
      BY <1>2, ViewsAre
    <3> QED BY <2>3, <3>1 DEF Whole, ChatWhole, OnHomes
  <2>5. h \in RowHosts(c) /\ c \notin broken
    BY <1>2, <1>5, ViewsAre
  <2>6. \A p \in Procs : ~Clears(req[p], h, c) /\ ~Tells(req[p], k, c) /\ ~Making(req[p], c)
    BY <1>5 DEF Quiet, At, Clears, Tells, Making
  <2>7. BothOrNone(c, P[c], RowHosts(c), req, c \in broken)
    BY <2>3 DEF Whole, ChatWhole
  <2>8. k \in RowHosts(c)
    BY <1>2, <2>2, <2>4, <2>5, <2>6, <2>7 DEF BothOrNone
  <2>9. Row(k, c) # None
    BY <2>8, ViewsAre
  <2>10. Row(k, c).pair = P[c]
    BY <1>1, <2>1, <2>9 DEF Paired, Agree, RowFits
  <2> QED BY <1>1, <1>2, <1>3, <2>2, <2>9, <2>10 DEF OnePerHost
<1> QED BY <1>4, <1>5

LEMMA StutterPairs ==
    ASSUME PairInv, UNCHANGED vars
    PROVE  PairInv'
<1>1. SUFFICES ASSUME Mongo'
               PROVE  OnePerHost' /\ \E H \in [Convs -> Hosts], P \in [Convs -> Pairs \cup {None}] : Paired(H, P)'
  BY DEF PairInv
<1>2. Mongo /\ ids' = ids /\ db' = db /\ req' = req /\ told' = told /\ broken' = broken
  BY <1>1 DEF Mongo, vars, ghosts
<1>3. OnePerHostNext
  BY <1>2 DEF PairInv, OnePerHost, OnePerHostNext, Row, RowNext
<1>4. PICK H \in [Convs -> Hosts], P \in [Convs -> Pairs \cup {None}] : Paired(H, P)
  BY <1>2 DEF PairInv
<1>5. AgreeNext(H, P) /\ MemsFitNext(P)
  BY <1>2, <1>4 DEF Paired, Agree, AgreeNext, Row, RowNext, MemsFit, MemsFitNext, Mem, MemNext
<1>6. ChatsWholeNext(H, P)
  <2>1. \A c : RowHostsNext(c) = RowHosts(c) /\ MemberSetNext(c) = MemberSet(c)
    BY <1>2 DEF RowHosts, RowHostsNext, MemberSet, MemberSetNext, Row, RowNext, Mem, MemNext
  <2> QED BY <1>2, <1>4, <2>1 DEF Paired, ChatsWhole, ChatsWholeNext, Whole, WholeNext
<1>7. Paired(H, P)'
  BY <1>2, <1>5, <1>6, PairedMade
<1> QED BY <1>3, <1>4, <1>7, OnePerHostMade

\* However many ends create the direct chat of a pair at once, one conversation comes out of
\* it on MongoDB hosts: the unique index keeps a host from having two, and once the requests
\* have ended with nothing cut short both homes have the same one, whatever was created,
\* mirrored, refused, undone, left and deleted in between (createDirect, ProvisionMirror,
\* deleteConversation, DeleteMirror).
THEOREM OneChatComesOut == Spec => []OneChatPerPair
<1>1. Init => CvTypes /\ MemberInv /\ PairInv
  BY ConversationsAssumption, InitTypes, InitMembers, InitPairs
<1>2. CvTypes /\ MemberInv /\ PairInv /\ [Next]_vars => (CvTypes /\ MemberInv /\ PairInv)'
  <2>1. CvTypes /\ MemberInv /\ PairInv /\ Next => (CvTypes /\ MemberInv /\ PairInv)'
    BY ConversationsAssumption, NextDoes, TypesKept, MemberKept, PairKept
  <2> QED BY <2>1, StutterTypes, StutterMembers, StutterPairs
<1>3. CvTypes /\ MemberInv /\ PairInv => OneChatPerPair
  BY ConversationsAssumption, PairsAreOne
<1> QED BY <1>1, <1>2, <1>3, PTL DEF Spec
=============================================================================
