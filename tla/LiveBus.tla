------------------------------- MODULE LiveBus -------------------------------
(***************************************************************************)
(* Live events: the registry of open streams, the shared Redis             *)
(* subscription that the first stream opens and the last one closes, and   *)
(* the stream handler that checks every event before it writes it.         *)
(*                                                                         *)
(*   stream   connect -> wait -> (take -> write)* -> leave -> shutdown     *)
(*   bus      publish -> send to one stream after another                  *)
(***************************************************************************)
EXTENDS Naturals, Sequences, FiniteSets

CONSTANTS Streams, Events, NoEvent, Buses,
          Buffer,      \* events a stream may fall behind by
          MaxOpens     \* bound on connections

LiveBusAssumption == NoEvent \notin Events

VARIABLES busKind,     \* "redis" or "memory"
          owner,       \* streams registered
          buffer,      \* stream -> events delivered to it and not taken
          closed,      \* streams whose channel is closed
          sending,     \* the event being delivered and the streams it has still to reach
          started,     \* the bus believes it has a subscription
          stop,        \* the subscription that shutdown would close, 0 for none
          open,        \* subscriptions open
          opens,
          stream,      \* stream -> where its handler is, with the event it writes
          published,   \* events published
          signedOut,   \* streams whose session is revoked
          broken,      \* ghost: something was sent on a closed channel
          after        \* ghost: stream -> events written after its session was revoked

lbRegistry == <<owner, buffer, closed>>
lbSubscription == <<started, stop, open, opens>>
lbVars == <<busKind, lbRegistry, lbSubscription, sending, stream, published, signedOut, broken, after>>

LbInit ==
    /\ busKind \in Buses
    /\ owner = {} /\ buffer = [s \in Streams |-> <<>>] /\ closed = {}
    /\ sending = [event |-> NoEvent, to |-> {}]
    /\ started = FALSE /\ stop = 0 /\ open = {} /\ opens = 0
    /\ stream = [s \in Streams |-> [pc |-> "off", event |-> NoEvent, stop |-> 0]]
    /\ published = {} /\ signedOut = {}
    /\ broken = FALSE /\ after = [s \in Streams |-> 0]

StreamAt(s, pc) == stream[s].pc = pc
StreamGoes(s, pc) == stream' = [stream EXCEPT ![s].pc = pc]
Unlocked == sending.event = NoEvent

(***************************************************************************)
(* registry.add, registry.deliver and the shared subscription              *)
(***************************************************************************)
\* start: under the registry's lock, and only when nothing is started.
start ==
    IF started \/ busKind = "memory" THEN UNCHANGED lbSubscription
    ELSE /\ started' = TRUE /\ stop' = opens + 1 /\ open' = open \cup {opens + 1}
         /\ opens' = opens + 1

add(s) ==
    /\ StreamAt(s, "off") /\ Unlocked /\ s \notin signedOut /\ opens < MaxOpens
    /\ owner' = owner \cup {s} /\ buffer' = [buffer EXCEPT ![s] = <<>>] /\ closed' = closed \ {s}
    /\ IF owner = {} THEN start ELSE UNCHANGED lbSubscription
    /\ StreamGoes(s, "wait")
    /\ UNCHANGED <<busKind, sending, published, signedOut, broken, after>>

\* Mutant: the channel is closed without taking the registry's lock.
RemoveUnlocked(s) ==
    /\ StreamAt(s, "leave")
    /\ owner' = owner \ {s} /\ closed' = closed \cup {s} /\ buffer' = [buffer EXCEPT ![s] = <<>>]
    /\ StreamGoes(s, IF owner = {s} /\ busKind = "redis" THEN "shutdown" ELSE "off")
    /\ UNCHANGED <<busKind, lbSubscription, sending, published, signedOut, broken, after>>

\* Taken out and closed under the write lock, which waits for every send; the last one to
\* leave shuts the subscription down after the lock is given up.
remove(s) ==
    /\ StreamAt(s, "leave") /\ Unlocked
    /\ owner' = owner \ {s} /\ closed' = closed \cup {s} /\ buffer' = [buffer EXCEPT ![s] = <<>>]
    /\ StreamGoes(s, IF owner = {s} /\ busKind = "redis" THEN "shutdown" ELSE "off")
    /\ UNCHANGED <<busKind, lbSubscription, sending, published, signedOut, broken, after>>

shutdown(s) ==
    /\ StreamAt(s, "shutdown")
    /\ started' = FALSE /\ stop' = 0
    /\ stream' = [stream EXCEPT ![s] = [pc |-> "stop", event |-> NoEvent, stop |-> stop]]
    /\ UNCHANGED <<busKind, lbRegistry, open, opens, sending, published, signedOut, broken, after>>

CloseSubscription(s) ==
    /\ StreamAt(s, "stop")
    /\ open' = open \ {stream[s].stop}
    /\ stream' = [stream EXCEPT ![s] = [pc |-> "off", event |-> NoEvent, stop |-> 0]]
    /\ UNCHANGED <<busKind, lbRegistry, started, stop, opens, sending, published, signedOut, broken, after>>

\* An event reaches this process if it holds a subscription; the read lock is held from the
\* first stream to the last.
Publish(e) ==
    /\ e \notin published /\ Unlocked
    /\ published' = published \cup {e}
    /\ sending' = IF owner # {} /\ (busKind = "memory" \/ open # {})
                  THEN [event |-> e, to |-> owner] ELSE sending
    /\ UNCHANGED <<busKind, lbRegistry, lbSubscription, stream, signedOut, broken, after>>

\* A stream that has fallen behind by the whole buffer misses the event.
deliver(s) ==
    /\ s \in sending.to
    /\ buffer' = IF Len(buffer[s]) < Buffer
                 THEN [buffer EXCEPT ![s] = Append(@, sending.event)] ELSE buffer
    /\ broken' = (broken \/ s \in closed)
    /\ sending' = IF sending.to = {s} THEN [event |-> NoEvent, to |-> {}]
                  ELSE [sending EXCEPT !.to = @ \ {s}]
    /\ UNCHANGED <<busKind, owner, closed, lbSubscription, stream, published, signedOut, after>>

(***************************************************************************)
(* The stream handler                                                      *)
(***************************************************************************)
RevokeStream(s) ==
    /\ s \notin signedOut
    /\ signedOut' = signedOut \cup {s}
    /\ UNCHANGED <<busKind, lbRegistry, lbSubscription, sending, stream, published, broken, after>>

\* The token is checked again for every event, then whether the event is for this user.
TakeEvent(s, entitled) ==
    /\ StreamAt(s, "wait") /\ buffer[s] # <<>>
    /\ buffer' = [buffer EXCEPT ![s] = Tail(@)]
    /\ stream' = [stream EXCEPT ![s] =
          IF s \in signedOut THEN [pc |-> "leave", event |-> NoEvent, stop |-> 0]
          ELSE IF entitled THEN [pc |-> "write", event |-> Head(buffer[s]), stop |-> 0]
          ELSE @]
    /\ UNCHANGED <<busKind, owner, closed, lbSubscription, sending, published, signedOut, broken, after>>

WriteEvent(s) ==
    /\ StreamAt(s, "write")
    /\ stream' = [stream EXCEPT ![s] = [pc |-> "wait", event |-> NoEvent, stop |-> 0]]
    /\ after' = [after EXCEPT ![s] = IF s \in signedOut THEN @ + 1 ELSE @]
    /\ UNCHANGED <<busKind, lbRegistry, lbSubscription, sending, published, signedOut, broken>>

\* The heartbeat checks the token too; the token's expiry and a client that goes away end
\* the stream at any time.
StreamEnds(s) ==
    /\ StreamAt(s, "wait")
    /\ StreamGoes(s, "leave")
    /\ UNCHANGED <<busKind, lbRegistry, lbSubscription, sending, published, signedOut, broken, after>>

LbNext ==
    \/ \E s \in Streams :
          \/ add(s) \/ remove(s) \/ shutdown(s) \/ CloseSubscription(s) \/ deliver(s)
          \/ RevokeStream(s) \/ WriteEvent(s) \/ StreamEnds(s)
    \/ \E s \in Streams, entitled \in BOOLEAN : TakeEvent(s, entitled)
    \/ \E e \in Events : Publish(e)

LbSpec == LbInit /\ [][LbNext]_lbVars

\* A stream's channel is never closed while an event is on its way into it (registry.add:
\* "Those two must never overlap").
NoSendOnClosed == ~broken

\* A stream whose session is revoked writes the one event it may already hold, and then
\* nothing, however many wait in its buffer (stream: the token is checked for every event).
RevokedHearsOneAtMost == \A s \in Streams : after[s] <= 1

\* While streams are registered and none is on its way out, the process holds a subscription
\* (RedisBus.Subscribe: "The first subscriber starts the subscription; the last one to leave
\* stops it").
SubscribersAreFed ==
    (owner # {} /\ \A s \in Streams : ~StreamAt(s, "shutdown") /\ ~StreamAt(s, "stop"))
        => (busKind = "memory" \/ open # {})

=============================================================================
