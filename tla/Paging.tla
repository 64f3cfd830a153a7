-------------------------------- MODULE Paging --------------------------------
(***************************************************************************)
(* Reading a transcript backwards, page by page, while it grows: a chat,   *)
(* ordered by time and number, and a channel's messages or a message's     *)
(* comments, ordered by time alone.  A message gets its time in the        *)
(* handler, its number in the store, and is stored afterwards, so messages *)
(* need not appear in their order.                                         *)
(*                                                                         *)
(*   post   stamp -> number -> store                                       *)
(*   walk   page -> page -> ... until a page is short                      *)
(***************************************************************************)
EXTENDS Naturals, FiniteSets

CONSTANTS Posts, NoCursor,
          Limit,      \* messages on a page
          MaxMillis   \* bound on the clock

PagingAssumption == IsFiniteSet(Posts) /\ NoCursor \notin Posts /\ Limit \in Nat

VARIABLES feed,       \* "chat" or "channel"
          pgStore,    \* "mongo" or "memory"
          millis,
          post,       \* post -> where it is, its time and number, whether it is protocol traffic
          numbers,    \* numbers taken
          clearedAt,  \* the reader's clear-history watermark
          walk,       \* where the walk is: its cursor and the posts read on it
          due,        \* ghost: posts stored when the walk began
          twice,      \* ghost: posts read twice on this walk
          lostAnchor, \* ghost: the post at the cursor was deleted
          stuck       \* ghost: an answer left older posts out and gave no cursor

pgVars == <<feed, pgStore, millis, post, numbers, clearedAt, walk, due, twice, lostAnchor, stuck>>
pgGhosts == <<due, twice, lostAnchor>>

PgInit ==
    /\ feed \in {"chat", "channel"} /\ pgStore \in {"mongo", "memory"}
    /\ millis = 1 /\ numbers = 0 /\ clearedAt = 0
    /\ post = [p \in Posts |-> [pc |-> "new", at |-> 0, seq |-> 0, protocol |-> FALSE]]
    /\ walk = [pc |-> "idle", cursor |-> NoCursor, read |-> {}]
    /\ due = {} /\ twice = {} /\ lostAnchor = FALSE /\ stuck = FALSE

Stored == {p \in Posts : post[p].pc = "stored"}

PgTick ==
    /\ millis < MaxMillis
    /\ millis' = millis + 1
    /\ UNCHANGED <<feed, pgStore, post, numbers, clearedAt, walk, pgGhosts, stuck>>

(***************************************************************************)
(* Posting                                                                 *)
(***************************************************************************)
Stamp(p, protocol) ==
    /\ post[p].pc = "new" /\ (protocol => feed = "chat")
    /\ post' = [post EXCEPT ![p].pc = "stamped", ![p].at = millis, ![p].protocol = protocol]
    /\ UNCHANGED <<feed, pgStore, millis, numbers, clearedAt, walk, pgGhosts, stuck>>

\* The number and the insert are two calls; the memory store takes it under its lock, and a
\* channel's message has none.
TakeSeq(p) ==
    /\ post[p].pc = "stamped" /\ feed = "chat" /\ pgStore = "mongo"
    /\ numbers' = numbers + 1
    /\ post' = [post EXCEPT ![p].pc = "numbered", ![p].seq = numbers + 1]
    /\ UNCHANGED <<feed, pgStore, millis, clearedAt, walk, pgGhosts, stuck>>

StoreNumbered(p) ==
    /\ post[p].pc = "numbered"
    /\ post' = [post EXCEPT ![p].pc = "stored"]
    /\ UNCHANGED <<feed, pgStore, millis, numbers, clearedAt, walk, pgGhosts, stuck>>

StoreStamped(p) ==
    /\ post[p].pc = "stamped" /\ ~(feed = "chat" /\ pgStore = "mongo")
    /\ numbers' = IF feed = "chat" THEN numbers + 1 ELSE numbers
    /\ post' = [post EXCEPT ![p].pc = "stored", ![p].seq = numbers']
    /\ UNCHANGED <<feed, pgStore, millis, clearedAt, walk, pgGhosts, stuck>>

\* Only a channel's messages and comments are deleted one by one.
DeletePost(p) ==
    /\ feed = "channel" /\ p \in Stored
    /\ post' = [post EXCEPT ![p].pc = "deleted"]
    /\ lostAnchor' = (lostAnchor \/ walk.cursor = p)
    /\ UNCHANGED <<feed, pgStore, millis, numbers, clearedAt, walk, due, twice, stuck>>

clearMessages ==
    /\ feed = "chat" /\ clearedAt < millis
    /\ clearedAt' = millis
    /\ UNCHANGED <<feed, pgStore, millis, post, numbers, walk, pgGhosts, stuck>>

(***************************************************************************)
(* Reading.  Older(feed, p, q): p comes after q, newest first.             *)
(***************************************************************************)
OlderByTime(p, q) == post[p].at < post[q].at

\* Protocol traffic and what the watermark hides are left out before a page is cut.
Transcript == {p \in Stored : ~post[p].protocol /\ post[p].at > clearedAt}

\* Mutant: time alone orders the chat.
ChatOlderByTime(p, q) == OlderByTime(p, q)

\* The order of the chat, and the bound its cursor puts on a page: time, then number.
ChatOlder(p, q) == OlderByTime(p, q) \/ (post[p].at = post[q].at /\ post[p].seq < post[q].seq)

Older(p, q) == IF feed = "chat" THEN ChatOlder(p, q) ELSE OlderByTime(p, q)

\* What lies beyond the cursor.  Mongo bounds the query by the anchor's key and drops the bound
\* when the anchor is gone; the memory store sorts and skips through the anchor, so among
\* messages with equal keys what follows the anchor is any set of them, and an anchor that is
\* gone leaves nothing.
MongoBeyond(cursor) ==
    IF cursor = NoCursor \/ post[cursor].pc = "deleted" THEN {Transcript}
    ELSE {{p \in Transcript : Older(p, cursor)}}

MemoryBeyond(cursor) ==
    IF cursor = NoCursor THEN {Transcript}
    ELSE IF cursor \notin Transcript THEN {{}}
    ELSE {{p \in Transcript : Older(p, cursor)} \cup ties :
              ties \in SUBSET {p \in Transcript \ {cursor} : ~Older(p, cursor) /\ ~Older(cursor, p)}}

Beyond(cursor) == IF pgStore = "mongo" THEN MongoBeyond(cursor) ELSE MemoryBeyond(cursor)

\* The newest n of a set, in every way its ties allow.
Newest(s, n) ==
    {page \in SUBSET s : /\ Cardinality(page) = IF Cardinality(s) < n THEN Cardinality(s) ELSE n
                         /\ \A p \in page, q \in s \ page : ~Older(p, q)}

\* nextCursor: the oldest of the page, if the page is full.
NextCursor(page) ==
    IF Cardinality(page) = Limit THEN {p \in page : \A q \in page : ~Older(q, p)} ELSE {NoCursor}

Answer(page, cursor) ==
    /\ walk' = [pc |-> IF cursor = NoCursor THEN "done" ELSE "walking", cursor |-> cursor,
                read |-> walk.read \cup page]
    /\ twice' = twice \cup (walk.read \cap page)

\* listMessages and listComments: the first page starts a walk, a cursor continues it.
listMessages ==
    /\ walk.pc # "done"
    /\ due' = IF walk.pc = "idle" THEN Transcript ELSE due
    /\ \E s \in Beyond(walk.cursor) : \E page \in Newest(s, Limit) :
          \E cursor \in NextCursor(page) : Answer(page, cursor)
    /\ UNCHANGED <<feed, pgStore, millis, post, numbers, clearedAt, lostAnchor, stuck>>

\* MessagesAround: half a page on each side of the centre, which makes Limit + 1 messages when
\* Limit is even.
Half == Limit \div 2

Oldest(s, n) ==
    {page \in SUBSET s : /\ Cardinality(page) = IF Cardinality(s) < n THEN Cardinality(s) ELSE n
                         /\ \A p \in page, q \in s \ page : ~OlderByTime(q, p)}

MongoAround(c) ==
    {{c} \cup a \cup b : a \in Oldest({p \in Transcript : OlderByTime(c, p)}, Half),
                         b \in Newest({p \in Transcript : OlderByTime(p, c)}, Half)}

listAround(c) ==
    /\ feed = "channel" /\ pgStore = "mongo" /\ walk.pc = "idle" /\ c \in Transcript
    /\ \E page \in MongoAround(c) : \E cursor \in NextCursor(page) :
          /\ Answer(page, cursor)
          /\ stuck' = (cursor = NoCursor /\ \E p \in Transcript : \A q \in page : OlderByTime(p, q))
    /\ due' = {}
    /\ UNCHANGED <<feed, pgStore, millis, post, numbers, clearedAt, lostAnchor>>

PgNext ==
    \/ PgTick \/ clearMessages \/ listMessages
    \/ \E p \in Posts, protocol \in BOOLEAN : Stamp(p, protocol)
    \/ \E p \in Posts :
          TakeSeq(p) \/ StoreNumbered(p) \/ StoreStamped(p) \/ DeletePost(p) \/ listAround(p)

PgSpec == PgInit /\ [][PgNext]_pgVars

\* Alone in its millisecond: what a channel's cursor can tell apart.
Alone(p) == \A q \in Posts \ {p} : post[q].pc # "new" => post[q].at # post[p].at

\* A walk to the end reads everything that was there when it began and still is, however posts
\* with earlier times appear meanwhile, and a chat's walk reads nothing twice; a channel's walk
\* reads what shares no millisecond with another post, unless the post at its cursor is deleted
\* (ChatMessagesByConversation: "dropping or repeating messages at a page boundary").
WalkMissesNothing ==
    /\ walk.pc = "done" /\ ~lostAnchor =>
          \A p \in due \cap Transcript : p \in walk.read \/ (feed = "channel" /\ ~Alone(p))
    /\ feed = "chat" => twice = {}

\* A window around a search hit can be continued into the past wherever there is a past
\* (listMessages: "exactly what 'load older' needs, `around` or not").
AroundCanGoOn == ~stuck

=============================================================================
