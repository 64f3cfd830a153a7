-------------------------------- MODULE Calls --------------------------------
(***************************************************************************)
(* One voice call across hosts: each host has a mailbox of sealed signals  *)
(* and an answer lock for it.  A signal is appended where it is posted and *)
(* relayed to the other hosts; a device reads when a nudge reaches it or   *)
(* its poll comes round, that is, at any time; the first device of a host  *)
(* to accept wins there.                                                   *)
(*                                                                         *)
(*   post    append, ring -> relay                                         *)
(*   accept  SETNX -> GET                                                  *)
(***************************************************************************)
EXTENDS Naturals, Sequences

CONSTANTS CallHosts, CallDevices, HomeOf, Signals, NoDevice,
          Rings,       \* the signals sent with ring or cancel, which wake devices
          RingSlots,   \* rings under way at once on a host
          MaxLapses    \* bound on mailboxes and locks that expire

\* Every device is on one host, and NoDevice is none of them.
CallsAssumption == HomeOf \in [CallDevices -> CallHosts] /\ NoDevice \notin CallDevices

VARIABLES mailboxKind,  \* "redis" or "memory"
          mailbox,      \* host -> signals appended
          winner,       \* host -> the device that holds the answer lock, or NoDevice
          signal,       \* signal -> where its handler is, and the hosts it still has to reach
          cursor,       \* device -> number of the last signal it has read
          ringing,      \* host -> rings under way
          accept,       \* device -> where postCallAccept is
          lapses,
          inbox,        \* ghost: device -> signals read, in order
          lapsed,       \* ghost: hosts whose mailbox has expired
          life,         \* ghost: host -> how often its lock has expired
          answers       \* ghost: who was told it won, in which life of the lock

callServer == <<mailboxKind, mailbox, winner>>
callClients == <<cursor, accept>>
callGhosts == <<inbox, lapsed, life, answers>>
callVars == <<callServer, callClients, callGhosts, signal, ringing, lapses>>

CallsInit ==
    /\ mailboxKind \in {"redis", "memory"}
    /\ mailbox = [h \in CallHosts |-> <<>>] /\ winner = [h \in CallHosts |-> NoDevice]
    /\ signal = [s \in Signals |-> [pc |-> "idle", to |-> {}]]
    /\ cursor = [d \in CallDevices |-> 0]
    /\ ringing = [h \in CallHosts |-> 0]
    /\ accept = [d \in CallDevices |-> "idle"]
    /\ lapses = 0
    /\ inbox = [d \in CallDevices |-> <<>>] /\ lapsed = {}
    /\ life = [h \in CallHosts |-> 0] /\ answers = {}

(***************************************************************************)
(* Signals                                                                 *)
(***************************************************************************)
\* RPUSH and its expiry are one script; the length of the list is the number.
Deliver(h, s) == mailbox' = [mailbox EXCEPT ![h] = Append(@, s)]

\* A ring takes a slot or is dropped; the signal is posted either way.
ringMembers(h, s) ==
    ringing' = [ringing EXCEPT ![h] = IF s \in Rings /\ @ < RingSlots THEN @ + 1 ELSE @]

postCallSignal(d, s) ==
    /\ signal[s].pc = "idle"
    /\ Deliver(HomeOf[d], s)
    /\ ringMembers(HomeOf[d], s)
    /\ signal' = [signal EXCEPT ![s] = [pc |-> "relay", to |-> CallHosts \ {HomeOf[d]}]]
    /\ UNCHANGED <<mailboxKind, winner, callClients, callGhosts, lapses>>

RingEnds(h) ==
    /\ ringing[h] > 0
    /\ ringing' = [ringing EXCEPT ![h] = @ - 1]
    /\ UNCHANGED <<callServer, callClients, callGhosts, signal, lapses>>

\* RelayCallSignal reaches a host, which appends the signal to its own mailbox and rings its
\* own devices, or does not.
DeliverCallSignal(s, h) ==
    /\ signal[s].pc = "relay" /\ h \in signal[s].to
    /\ Deliver(h, s)
    /\ ringMembers(h, s)
    /\ signal' = [signal EXCEPT ![s].to = @ \ {h}]
    /\ UNCHANGED <<mailboxKind, winner, callClients, callGhosts, lapses>>

RelayCallSignalFails(s, h) ==
    /\ signal[s].pc = "relay" /\ h \in signal[s].to
    /\ signal' = [signal EXCEPT ![s].to = @ \ {h}]
    /\ UNCHANGED <<callServer, callClients, callGhosts, ringing, lapses>>

\* Mutant: numbers start at 0.
SinceTheCursor(d) ==
    SubSeq(mailbox[HomeOf[d]], cursor[d] + 2, Len(mailbox[HomeOf[d]]))

\* Everything after the cursor: numbers start at 1.
Since(d) == SubSeq(mailbox[HomeOf[d]], cursor[d] + 1, Len(mailbox[HomeOf[d]]))

getCallSignals(d) ==
    /\ Since(d) # <<>>
    /\ inbox' = [inbox EXCEPT ![d] = @ \o Since(d)]
    /\ cursor' = [cursor EXCEPT ![d] = Len(mailbox[HomeOf[d]])]
    /\ UNCHANGED <<callServer, accept, lapsed, life, answers, signal, ringing, lapses>>

(***************************************************************************)
(* The answer lock                                                         *)
(***************************************************************************)
Told(d, won) ==
    /\ accept' = [accept EXCEPT ![d] = IF won THEN "won" ELSE "lost"]
    /\ answers' = IF won THEN answers \cup {[device |-> d, life |-> life[HomeOf[d]]]} ELSE answers

\* Mutant: SET without NX.
ClaimSet(d) ==
    /\ mailboxKind = "redis" /\ accept[d] # "get"
    /\ winner' = [winner EXCEPT ![HomeOf[d]] = d]
    /\ Told(d, TRUE)
    /\ UNCHANGED <<mailboxKind, mailbox, signal, cursor, ringing, lapses, inbox, lapsed, life>>

\* SETNX; the device that finds the lock taken asks by whom.  A device whose answer was lost
\* asks again, whatever the answer was.
ClaimSetNX(d) ==
    LET h == HomeOf[d]
    IN  /\ mailboxKind = "redis" /\ accept[d] # "get"
        /\ IF winner[h] = NoDevice
           THEN winner' = [winner EXCEPT ![h] = d] /\ Told(d, TRUE)
           ELSE accept' = [accept EXCEPT ![d] = "get"] /\ UNCHANGED <<winner, answers>>
        /\ UNCHANGED <<mailboxKind, mailbox, signal, cursor, ringing, lapses, inbox, lapsed, life>>

\* A lock that expired in between is not won: the device is told it lost.
ClaimGet(d) ==
    /\ accept[d] = "get"
    /\ Told(d, winner[HomeOf[d]] = d)
    /\ UNCHANGED <<callServer, signal, cursor, ringing, lapses, inbox, lapsed, life>>

MemoryClaim(d) ==
    LET h == HomeOf[d]
    IN  /\ mailboxKind = "memory" /\ accept[d] # "get"
        /\ winner' = [winner EXCEPT ![h] = IF @ = NoDevice THEN d ELSE @]
        /\ Told(d, winner[h] \in {NoDevice, d})
        /\ UNCHANGED <<mailboxKind, mailbox, signal, cursor, ringing, lapses, inbox, lapsed, life>>

(***************************************************************************)
(* Expiry: two keys in Redis, one record in memory.                        *)
(***************************************************************************)
LockExpires(h) ==
    /\ mailboxKind = "redis" /\ winner[h] # NoDevice /\ lapses < MaxLapses
    /\ winner' = [winner EXCEPT ![h] = NoDevice] /\ life' = [life EXCEPT ![h] = @ + 1]
    /\ lapses' = lapses + 1
    /\ UNCHANGED <<mailboxKind, mailbox, callClients, inbox, lapsed, answers, signal, ringing>>

SignalsExpire(h) ==
    /\ mailbox[h] # <<>> /\ lapses < MaxLapses
    /\ mailbox' = [mailbox EXCEPT ![h] = <<>>] /\ lapsed' = lapsed \cup {h}
    /\ IF mailboxKind = "redis" THEN UNCHANGED <<winner, life>>
       ELSE winner' = [winner EXCEPT ![h] = NoDevice] /\ life' = [life EXCEPT ![h] = @ + 1]
    /\ lapses' = lapses + 1
    /\ UNCHANGED <<mailboxKind, callClients, inbox, answers, signal, ringing>>

\* Signals and answers meet only where a mailbox expires, so each can be explored without
\* the other.
SignalsNext ==
    \/ \E d \in CallDevices, s \in Signals : postCallSignal(d, s)
    \/ \E s \in Signals, h \in CallHosts : DeliverCallSignal(s, h) \/ RelayCallSignalFails(s, h)
    \/ \E d \in CallDevices : getCallSignals(d)
    \/ \E h \in CallHosts : RingEnds(h) \/ SignalsExpire(h)

AnswersNext ==
    \/ \E d \in CallDevices, s \in Signals : postCallSignal(d, s)
    \/ \E d \in CallDevices : ClaimSetNX(d) \/ ClaimGet(d) \/ MemoryClaim(d)
    \/ \E h \in CallHosts : LockExpires(h) \/ SignalsExpire(h)

CallsNext == SignalsNext \/ AnswersNext

CallsSpec == CallsInit /\ [][CallsNext]_callVars

\* However two devices of a host interleave their accepts and retries, and whenever the lock
\* expires, one life of the lock has one winner (postCallAccept: "exactly one of them must win").
OneDeviceAnswers ==
    \A a, b \in answers :
        (HomeOf[a.device] = HomeOf[b.device] /\ a.life = b.life) => a.device = b.device

\* Until its mailbox expires, a device has read a prefix of it, whatever nudges were lost
\* (Mailbox: "give me everything after 4 and get exactly that").
SignalsReadInOrder ==
    \A d \in CallDevices :
        HomeOf[d] \notin lapsed => inbox[d] = SubSeq(mailbox[HomeOf[d]], 1, cursor[d])

=============================================================================
