----------------------------- MODULE ChannelPosts -----------------------------
(***************************************************************************)
(* The path of a channel post: the ingest handler with its API key and     *)
(* idempotency key, the work queue with its dead-letter queue, the         *)
(* dispatcher that stores and pushes a post, and the fan-out to a peer     *)
(* host that mirrors the channel.  A request is the post it carries.       *)
(*                                                                         *)
(*   ingest     check -> seen -> decode -> publish -> accepted             *)
(*   consumer   store -> local -> peers -> ack                             *)
(*   peer user  subscribe -> lookup -> create                              *)
(***************************************************************************)
EXTENDS Naturals, Sequences, FiniteSets, Functions

CONSTANTS Requests, IdemKeys, Consumers, Joiners, None,
          Poison,      \* posts the store refuses every time
          MaxFaults    \* bound on failed calls, dead requests and dead consumers

\* None is no idempotency key and no delivery.
ChannelPostsAssumption ==
    /\ None \notin IdemKeys
    /\ None \notin [task : Requests, pc : {"store", "local", "peers", "ack"}]

VARIABLES chan,      \* the channel on its own host: mode, status, API key
          seen,      \* idempotency keys remembered
          req,       \* request -> where its handler is, and its idempotency key
          queue,     \* posts in the work queue
          dead,      \* posts in the dead-letter queue
          hand,      \* consumer -> the delivery it has not acknowledged, or None
          stored, pushed,    \* copies of a post stored, and pushed to devices
          peers,     \* whether the origin counts the peer among its subscribers
          mirrors,   \* the peer's mirror channels, oldest first
          joiner,    \* peer user -> where joinRemoteChannel is
          received,  \* copies of a post in the peer's mirror
          faults,
          published, \* ghost: posts the queue has taken
          spoiled,   \* ghost: keys remembered for a request that then failed
          doubled,   \* ghost: keys let through because they could not be looked up
          redelivered \* ghost: how often the queue took a post back from a dead consumer

ingest == <<chan, seen, req>>
work == <<queue, dead, hand, stored, pushed>>
peering == <<peers, mirrors, joiner, received>>
ghosts == <<spoiled, doubled, redelivered>>
postVars == <<ingest, work, peering, faults, published, ghosts>>

PostCopies == [Requests -> 0 .. MaxFaults + 1]
Zero == [r \in Requests |-> 0]
Fault == faults < MaxFaults /\ faults' = faults + 1

PostsInit ==
    /\ chan = [mode |-> "open", disabled |-> FALSE, key |-> "live"]
    /\ seen = {} /\ req = [r \in Requests |-> [pc |-> "idle", key |-> None]]
    /\ queue = <<>> /\ dead = {} /\ hand = [c \in Consumers |-> None]
    /\ stored = Zero /\ pushed = Zero /\ received = Zero
    /\ peers = FALSE /\ mirrors = <<>> /\ joiner = [j \in Joiners |-> "idle"]
    /\ faults = 0 /\ published = {} /\ spoiled = {} /\ doubled = {} /\ redelivered = Zero

At(r, pc) == req[r].pc = pc
Goto(r, pc) == req' = [req EXCEPT ![r].pc = pc]

(***************************************************************************)
(* The owner                                                               *)
(***************************************************************************)
ChangeChannel(c) ==
    /\ c # chan /\ (chan.key = "revoked" => c.key = "revoked")
    /\ chan' = c
    /\ UNCHANGED <<seen, req, work, peering, faults, published, ghosts>>

(***************************************************************************)
(* IngestHandler.notify (AppHandler.notifyChannel is the same without the  *)
(* two keys).  A refusal before the idempotency key leaves no trace.       *)
(***************************************************************************)
validKey == chan.key = "live"

notify(r, key) ==
    /\ At(r, "idle") /\ validKey /\ ~chan.disabled
    /\ req' = [req EXCEPT ![r] = [pc |-> IF key = None THEN "decode" ELSE "seen", key |-> key]]
    /\ UNCHANGED <<chan, seen, work, peering, faults, published, ghosts>>

\* Mutant: the key is looked up and never recorded.
SeenUnrecorded(r) ==
    /\ At(r, "seen")
    /\ Goto(r, IF req[r].key \in seen THEN "accepted" ELSE "decode")
    /\ UNCHANGED <<chan, seen, work, peering, faults, published, ghosts>>

\* One SET NX: looked up and remembered at once.  A key that was there is answered as the
\* request it belonged to would have been.
Seen(r) ==
    /\ At(r, "seen")
    /\ Goto(r, IF req[r].key \in seen THEN "accepted" ELSE "decode")
    /\ seen' = seen \cup {req[r].key}
    /\ UNCHANGED <<chan, work, peering, faults, published, ghosts>>

\* The keys are out of reach: the request goes on without them.
SeenFails(r) ==
    /\ At(r, "seen") /\ Fault
    /\ Goto(r, "decode")
    /\ doubled' = doubled \cup {req[r].key}
    /\ UNCHANGED <<chan, seen, work, peering, published, spoiled, redelivered>>

\* The window a key is remembered for is over.
KeyExpires(k) ==
    /\ k \in seen /\ \A r \in Requests : req[r].key = k => req[r].pc \in {"accepted", "failed"}
    /\ seen' = seen \ {k} /\ doubled' = doubled \cup {k}
    /\ UNCHANGED <<chan, req, work, peering, faults, published, spoiled, redelivered>>

decodeNotify(r) ==
    /\ At(r, "decode")
    /\ Goto(r, "publish")
    /\ UNCHANGED <<chan, seen, work, peering, faults, published, ghosts>>

\* Publish waits for the broker's confirmation.
Publish(r) ==
    /\ At(r, "publish")
    /\ queue' = Append(queue, r) /\ published' = published \cup {r}
    /\ Goto(r, "accepted")
    /\ UNCHANGED <<chan, seen, dead, hand, stored, pushed, peering, faults, ghosts>>

\* A body that does not parse, an image that cannot be stored, a broker that does not
\* confirm (having queued the task or not), or the end of the process.
IngestFails(r) ==
    /\ req[r].pc \in {"decode", "publish"} /\ Fault
    /\ Goto(r, "failed")
    /\ spoiled' = spoiled \cup ({req[r].key} \ {None})
    /\ \/ UNCHANGED <<queue, published>>
       \/ /\ At(r, "publish")
          /\ queue' = Append(queue, r) /\ published' = published \cup {r}
    /\ UNCHANGED <<chan, seen, dead, hand, stored, pushed, peering, doubled, redelivered>>

(***************************************************************************)
(* Rabbit.Consume and Dispatcher.Handle                                    *)
(***************************************************************************)
Holding(c, pc) == hand[c] # None /\ hand[c].pc = pc
Step(c, pc) == hand' = [hand EXCEPT ![c].pc = pc]

Take(c) ==
    /\ hand[c] = None /\ queue # <<>>
    /\ hand' = [hand EXCEPT ![c] = [task |-> Head(queue), pc |-> "store"]]
    /\ queue' = Tail(queue)
    /\ UNCHANGED <<ingest, dead, stored, pushed, peering, faults, published, ghosts>>

CreateMessage(c) ==
    /\ Holding(c, "store") /\ hand[c].task \notin Poison
    /\ stored' = [stored EXCEPT ![hand[c].task] = @ + 1]
    /\ Step(c, "local")
    /\ UNCHANGED <<ingest, queue, dead, pushed, peering, faults, published, ghosts>>

\* Mutant: a task that failed is put back on the queue.
NackRequeue(c) ==
    /\ Holding(c, "store")
    /\ \/ hand[c].task \in Poison /\ UNCHANGED faults
       \/ Fault
    /\ queue' = Append(queue, hand[c].task)
    /\ hand' = [hand EXCEPT ![c] = None]
    /\ UNCHANGED <<ingest, dead, stored, pushed, peering, published, ghosts>>

\* The handler's error: rejected without requeueing, which sends it to the dead letters.
Nack(c) ==
    /\ Holding(c, "store")
    /\ \/ hand[c].task \in Poison /\ UNCHANGED faults
       \/ Fault
    /\ dead' = dead \cup {hand[c].task}
    /\ hand' = [hand EXCEPT ![c] = None]
    /\ UNCHANGED <<ingest, queue, stored, pushed, peering, published, ghosts>>

\* The devices are pushed to and the live event goes out; errors are logged.
DeliverLocally(c) ==
    /\ Holding(c, "local")
    /\ pushed' = [pushed EXCEPT ![hand[c].task] = @ + 1]
    /\ Step(c, "peers")
    /\ UNCHANGED <<ingest, queue, dead, stored, peering, faults, published, ghosts>>

\* Mutant: the post is stored on the mirror once per delivery attempt, retried or not.
DeliverRemoteTwice(t) ==
    received' = IF mirrors = <<>> THEN received ELSE [received EXCEPT ![t] = @ + 2]

\* DeliverRemoteMessage on the peer finds one mirror of the origin's channel, stores the
\* post there and stops: a mirror's posts are not passed on.
DeliverRemoteMessage(t) ==
    received' = IF mirrors = <<>> THEN received ELSE [received EXCEPT ![t] = @ + 1]

\* Sent once to every subscribed host, and not again when that fails.
fanOutToPeers(c) ==
    /\ Holding(c, "peers")
    /\ \/ peers /\ DeliverRemoteMessage(hand[c].task) /\ UNCHANGED faults
       \/ ~peers /\ UNCHANGED <<received, faults>>
       \/ peers /\ Fault /\ UNCHANGED received
    /\ Step(c, "ack")
    /\ UNCHANGED <<ingest, queue, dead, stored, pushed, peers, mirrors, joiner, published, ghosts>>

Ack(c) ==
    /\ Holding(c, "ack")
    /\ hand' = [hand EXCEPT ![c] = None]
    /\ UNCHANGED <<ingest, queue, dead, stored, pushed, peering, faults, published, ghosts>>

\* Mutant: a task is acknowledged when it is taken, so a consumer's death loses it.
ConsumerDiesAcked(c) ==
    /\ hand[c] # None /\ Fault
    /\ hand' = [hand EXCEPT ![c] = None]
    /\ UNCHANGED <<ingest, queue, dead, stored, pushed, peering, published, ghosts>>

\* The connection of a consumer that dies takes its unacknowledged delivery back.
ConsumerDies(c) ==
    /\ hand[c] # None /\ Fault
    /\ queue' = <<hand[c].task>> \o queue
    /\ redelivered' = [redelivered EXCEPT ![hand[c].task] = @ + 1]
    /\ hand' = [hand EXCEPT ![c] = None]
    /\ UNCHANGED <<ingest, dead, stored, pushed, peering, published, spoiled, doubled>>

(***************************************************************************)
(* joinRemoteChannel on the peer                                           *)
(***************************************************************************)
\* RecordRemoteSubscriber on the origin: open channels only.
SubscribeToRemoteChannel(j) ==
    /\ joiner[j] = "idle" /\ chan.mode = "open"
    /\ peers' = TRUE
    /\ joiner' = [joiner EXCEPT ![j] = "lookup"]
    /\ UNCHANGED <<ingest, work, mirrors, received, faults, published, ghosts>>

ChannelByOriginPublicID(j) ==
    /\ joiner[j] = "lookup"
    /\ joiner' = [joiner EXCEPT ![j] = IF mirrors = <<>> THEN "create" ELSE "joined"]
    /\ UNCHANGED <<ingest, work, peers, mirrors, received, faults, published, ghosts>>

CreateMirror(j) ==
    /\ joiner[j] = "create"
    /\ mirrors' = Append(mirrors, j)
    /\ joiner' = [joiner EXCEPT ![j] = "joined"]
    /\ UNCHANGED <<ingest, work, peers, received, faults, published, ghosts>>

Consume(c) ==
    \/ Take(c) \/ CreateMessage(c) \/ Nack(c) \/ DeliverLocally(c) \/ fanOutToPeers(c) \/ Ack(c)

Channels == [mode : {"open", "approval"}, disabled : BOOLEAN, key : {"live", "revoked"}]

PostsNext ==
    \/ \E c \in Channels : ChangeChannel(c)
    \/ \E k \in IdemKeys : KeyExpires(k)
    \/ \E r \in Requests :
        \/ \E k \in IdemKeys \cup {None} : notify(r, k)
        \/ Seen(r) \/ SeenFails(r) \/ decodeNotify(r) \/ Publish(r) \/ IngestFails(r)
    \/ \E c \in Consumers : Consume(c) \/ ConsumerDies(c)
    \/ \E j \in Joiners :
        SubscribeToRemoteChannel(j) \/ ChannelByOriginPublicID(j) \/ CreateMirror(j)

\* A consumer is a goroutine that loops until the process ends, and a process is restarted.
PostsFairness == \A c \in Consumers : WF_postVars(Consume(c))

PostsSpec == PostsInit /\ [][PostsNext]_postVars /\ PostsFairness
-----------------------------------------------------------------------------
(* Correctness *)

InHand(t) == \E c \in Consumers : hand[c] # None /\ hand[c].task = t

\* Nothing accepted disappears, whatever fails or dies: a post the queue has taken is in the
\* queue, in a consumer's hands, stored or among the dead letters (broker_rabbit.go), and a
\* caller told "accepted" has its post there, or an earlier one under the same idempotency
\* key is there or on its way.  The exception is a retry of a request that failed after its
\* key had been remembered, which is answered and dropped (ingest.go).
NoPostLost ==
    /\ \A t \in published : t \in Range(queue) \cup dead \/ InHand(t) \/ stored[t] > 0
    /\ \A r \in Requests :
        req[r].pc = "accepted" =>
            \/ r \in published
            \/ \E t \in Requests : /\ req[t].key = req[r].key /\ req[t].key # None
                                   /\ t \in published \/ req[t].pc \in {"decode", "publish"}
            \/ req[r].key \in spoiled

\* However many copies of a request arrive at once, one post is queued for one idempotency
\* key, as long as the keys can be reached and the window lasts.
OnePostPerKey ==
    \A r, t \in published : r # t /\ req[r].key = req[t].key => req[r].key \in doubled \cup {None}

\* A post is stored twice, pushed twice or received twice by a peer only when a consumer
\* died holding it; in particular two mirrors do not pass a post back and forth.
DuplicatesOnlyAfterDeath ==
    \A t \in Requests : /\ stored[t] <= 1 + redelivered[t]
                        /\ pushed[t] <= stored[t] /\ received[t] <= pushed[t]

\* "Reuse an existing mirror rather than making a second one for the same remote channel."
OneMirrorPerChannel == Len(mirrors) <= 1

\* Every post the queue has taken is pushed or dead-lettered in the end.
EveryPostEnds == \A t \in Requests : (t \in published) ~> (pushed[t] > 0 \/ t \in dead)
=============================================================================
