----------------------------- MODULE NotifyProofs -----------------------------
(***************************************************************************)
(* Proofs about the ways a device is reached: voice calls, live events,    *)
(* the push queue, push addresses, what a push says, and the pages of a    *)
(* transcript.  The components share no state; each section has the        *)
(* inductive invariant of one.                                             *)
(***************************************************************************)
EXTENDS Calls, LiveBus, PushQueue, PushAddresses, PushPayload, Paging, SequenceTheorems,
        FiniteSetTheorems, TLAPS

(***************************************************************************)
(* Voice calls: the answer lock                                            *)
(***************************************************************************)
LockTypes ==
    /\ winner \in [CallHosts -> CallDevices \cup {NoDevice}]
    /\ life \in [CallHosts -> Nat]
    /\ answers \subseteq [device : CallDevices, life : Nat]

\* Nobody has won in a life that is to come, and who won in this one holds the lock.
WinnersHold ==
    \A a \in answers :
        LET h == HomeOf[a.device]
        IN  a.life <= life[h] /\ (a.life = life[h] => winner[h] = a.device)

LockInv == LockTypes /\ WinnersHold /\ OneDeviceAnswers

\* What an answer adds: the device told it won holds the lock.
LEMMA ToldKeepsLock ==
    ASSUME CallsAssumption, LockInv, NEW d \in CallDevices, NEW won \in BOOLEAN, Told(d, won),
           LockTypes', life' = life,
           \A h \in CallHosts : winner[h] # NoDevice => winner'[h] = winner[h],
           won => winner'[HomeOf[d]] = d
    PROVE  LockInv'
<1> DEFINE new == [device |-> d, life |-> life[HomeOf[d]]]
<1>1. answers' \subseteq answers \cup {new}
  BY DEF Told
<1>2. new \in answers' /\ new \notin answers => won
  BY DEF Told
<1>3. WinnersHold'
  BY <1>1, <1>2 DEF WinnersHold, LockInv, LockTypes, CallsAssumption
<1>4. OneDeviceAnswers'
  BY <1>1, <1>3 DEF OneDeviceAnswers, WinnersHold, LockInv, LockTypes, CallsAssumption
<1> QED BY <1>3, <1>4 DEF LockInv

\* Expiry of a lock begins its next life.
LEMMA ExpiryKeepsLock ==
    ASSUME CallsAssumption, LockInv, NEW h \in CallHosts,
           winner' = [winner EXCEPT ![h] = NoDevice], life' = [life EXCEPT ![h] = @ + 1],
           answers' = answers
    PROVE  LockInv'
<1>1. LockTypes'
  BY DEF LockInv, LockTypes
<1>2. WinnersHold'
  BY DEF WinnersHold, LockInv, LockTypes, CallsAssumption
<1> QED BY <1>1, <1>2 DEF LockInv, OneDeviceAnswers

LEMMA LockInduction ==
    ASSUME CallsAssumption, LockInv, [CallsNext]_callVars
    PROVE  LockInv'
<1>1. ASSUME UNCHANGED <<winner, life, answers>> PROVE LockInv'
  BY <1>1 DEF LockInv, LockTypes, WinnersHold, OneDeviceAnswers
<1>2. ASSUME NEW d \in CallDevices, ClaimSetNX(d) PROVE LockInv'
  <2>1. LockTypes'
    BY <1>2 DEF ClaimSetNX, Told, LockInv, LockTypes, CallsAssumption
  <2>2. CASE winner[HomeOf[d]] = NoDevice
    BY <1>2, <2>1, <2>2, ToldKeepsLock DEF ClaimSetNX, LockInv, LockTypes, CallsAssumption
  <2>3. CASE winner[HomeOf[d]] # NoDevice
    BY <1>1, <1>2, <2>3 DEF ClaimSetNX
  <2> QED BY <2>2, <2>3
<1>3. ASSUME NEW d \in CallDevices, ClaimGet(d) PROVE LockInv'
  <2>1. LockTypes'
    BY <1>3 DEF ClaimGet, callServer, Told, LockInv, LockTypes, CallsAssumption
  <2> QED
    BY <1>3, <2>1, ToldKeepsLock DEF ClaimGet, callServer
<1>4. ASSUME NEW d \in CallDevices, MemoryClaim(d) PROVE LockInv'
  <2>1. LockTypes'
    BY <1>4 DEF MemoryClaim, Told, LockInv, LockTypes, CallsAssumption
  <2> DEFINE won == winner[HomeOf[d]] \in {NoDevice, d}
  <2>2. /\ Told(d, won) /\ life' = life
        /\ \A h \in CallHosts : winner[h] # NoDevice => winner'[h] = winner[h]
        /\ won => winner'[HomeOf[d]] = d
    BY <1>4 DEF MemoryClaim, LockInv, LockTypes, CallsAssumption
  <2>3. won \in BOOLEAN
    OBVIOUS
  <2> HIDE DEF won
  <2> QED
    BY <2>1, <2>2, <2>3, ToldKeepsLock
<1>5. ASSUME NEW h \in CallHosts, LockExpires(h) PROVE LockInv'
  BY <1>5, ExpiryKeepsLock DEF LockExpires
<1>6. ASSUME NEW h \in CallHosts, SignalsExpire(h) PROVE LockInv'
  BY <1>1, <1>6, ExpiryKeepsLock DEF SignalsExpire
<1> QED
  BY <1>1, <1>2, <1>3, <1>4, <1>5, <1>6
  DEF CallsNext, SignalsNext, AnswersNext, callVars, callServer, callClients, callGhosts,
      postCallSignal, DeliverCallSignal, RelayCallSignalFails, getCallSignals, RingEnds

\* One life of an answer lock has one winner, whatever claims, retries and expiries interleave,
\* for any number of devices and hosts and either kind of mailbox.
THEOREM OneWinner == ASSUME CallsAssumption PROVE CallsSpec => []OneDeviceAnswers
<1>1. CallsInit => LockInv
  BY DEF CallsInit, LockInv, LockTypes, WinnersHold, OneDeviceAnswers
<1>2. LockInv /\ [CallsNext]_callVars => LockInv'
  BY LockInduction
<1>3. LockInv => OneDeviceAnswers
  BY DEF LockInv
<1> QED BY <1>1, <1>2, <1>3, PTL DEF CallsSpec

(***************************************************************************)
(* Voice calls: the mailbox                                                *)
(***************************************************************************)
MailTypes ==
    /\ mailbox \in [CallHosts -> Seq(Signals)]
    /\ cursor \in [CallDevices -> Nat]
    /\ inbox \in [CallDevices -> Seq(Signals)]

\* Until a mailbox expires no cursor is past its end.
MailInv ==
    /\ MailTypes
    /\ \A d \in CallDevices : HomeOf[d] \notin lapsed => cursor[d] <= Len(mailbox[HomeOf[d]])
    /\ SignalsReadInOrder

\* A signal appended behind what a device has read leaves that as it is.
LEMMA DeliverKeepsMail ==
    ASSUME CallsAssumption, MailInv, NEW h \in CallHosts, NEW s \in Signals, Deliver(h, s),
           UNCHANGED <<cursor, inbox, lapsed>>
    PROVE  MailInv'
<1>1. MailTypes'
  <2>1. Append(mailbox[h], s) \in Seq(Signals)
    BY AppendProperties DEF MailInv, MailTypes
  <2> QED BY <2>1 DEF Deliver, MailInv, MailTypes
<1>2. ASSUME NEW d \in CallDevices, HomeOf[d] \notin lapsed
      PROVE  /\ cursor[d] <= Len(mailbox'[HomeOf[d]])
             /\ inbox[d] = SubSeq(mailbox'[HomeOf[d]], 1, cursor[d])
  <2> DEFINE m == mailbox[HomeOf[d]]
  <2>1. m \in Seq(Signals) /\ cursor[d] \in Nat /\ cursor[d] <= Len(m)
        /\ inbox[d] = SubSeq(m, 1, cursor[d])
    BY <1>2 DEF MailInv, MailTypes, SignalsReadInOrder, CallsAssumption
  <2>2. mailbox'[HomeOf[d]] \in {m, m \o <<s>>}
    BY <2>1, AppendIsConcat DEF Deliver, MailInv, MailTypes, CallsAssumption
  <2> HIDE DEF m
  <2>3. <<s>> \in Seq(Signals) /\ Len(<<s>>) = 1
    OBVIOUS
  <2>4. Len(m \o <<s>>) = Len(m) + 1 /\ Len(m) \in Nat
    BY <2>1, <2>3, ConcatProperties, LenProperties
  <2>5. SubSeq(m \o <<s>>, 1, cursor[d]) = SubSeq(m, 1, cursor[d])
    <3>1. CASE cursor[d] = 0
      BY <3>1, SubSeqEmpty
    <3>2. CASE cursor[d] > 0
      BY <3>2, <2>1, <2>3, <2>4, SubSeqOfConcat1
    <3> QED BY <3>1, <3>2, <2>1
  <2> QED BY <2>1, <2>2, <2>4, <2>5
<1> QED
  BY <1>1, <1>2 DEF MailInv, SignalsReadInOrder

LEMMA MailInduction ==
    ASSUME CallsAssumption, MailInv, [CallsNext]_callVars
    PROVE  MailInv'
<1>1. ASSUME UNCHANGED <<mailbox, cursor, inbox, lapsed>> PROVE MailInv'
  BY <1>1 DEF MailInv, MailTypes, SignalsReadInOrder
<1>2. ASSUME NEW d \in CallDevices, NEW s \in Signals, postCallSignal(d, s) PROVE MailInv'
  <2>1. HomeOf[d] \in CallHosts
    BY DEF CallsAssumption
  <2> QED BY <2>1, <1>2, DeliverKeepsMail DEF postCallSignal, callClients, callGhosts
<1>3. ASSUME NEW s \in Signals, NEW h \in CallHosts, DeliverCallSignal(s, h) PROVE MailInv'
  BY <1>3, DeliverKeepsMail DEF DeliverCallSignal, callClients, callGhosts
<1>4. ASSUME NEW d \in CallDevices, getCallSignals(d) PROVE MailInv'
  <2> DEFINE m == mailbox[HomeOf[d]]
  <2>1. m \in Seq(Signals) /\ cursor[d] \in Nat /\ Len(m) \in Nat
    BY LenProperties DEF MailInv, MailTypes, CallsAssumption
  <2>2. \A i \in cursor[d] + 1 .. Len(m) : m[i] \in Signals
    BY <2>1, ElementOfSeq
  <2>3. Since(d) \in Seq(Signals)
    BY <2>1, <2>2, SubSeqProperties DEF Since
  <2>4. inbox[d] \o Since(d) \in Seq(Signals)
    BY <2>3, ConcatProperties DEF MailInv, MailTypes
  <2>5. MailTypes'
    BY <1>4, <2>1, <2>4 DEF getCallSignals, callServer, MailInv, MailTypes
  <2>6. ASSUME HomeOf[d] \notin lapsed PROVE inbox[d] \o Since(d) = SubSeq(m, 1, Len(m))
    <3>1. cursor[d] <= Len(m) /\ inbox[d] = SubSeq(m, 1, cursor[d])
      BY <2>6 DEF MailInv, SignalsReadInOrder
    <3>2. SubSeq(m, 1, cursor[d]) \o SubSeq(m, cursor[d] + 1, Len(m)) = SubSeq(m, 1, Len(m))
      <4> DEFINE c == cursor[d]
      <4>1. 1 \in 1 .. Len(m) + 1 /\ c \in 1 - 1 .. Len(m) /\ Len(m) \in c .. Len(m)
        BY <3>1, <2>1
      <4> HIDE DEF m, c
      <4>2. SubSeq(m, 1, c) \o SubSeq(m, c + 1, Len(m)) = SubSeq(m, 1, Len(m))
        BY <4>1, <2>1, ConcatAdjacentSubSeq
      <4> QED BY <4>2 DEF c
    <3> QED BY <3>1, <3>2 DEF Since
  <2>7. /\ inbox' = [inbox EXCEPT ![d] = inbox[d] \o Since(d)]
        /\ cursor' = [cursor EXCEPT ![d] = Len(m)]
        /\ UNCHANGED <<mailbox, lapsed>>
    BY <1>4 DEF getCallSignals, callServer
  <2>8. SignalsReadInOrder'
    BY <2>6, <2>7 DEF SignalsReadInOrder, MailInv, MailTypes
  <2>9. ASSUME NEW e \in CallDevices, HomeOf[e] \notin lapsed
        PROVE  cursor'[e] <= Len(mailbox[HomeOf[e]])
    BY <2>1, <2>7, <2>9 DEF MailInv, MailTypes
  <2> QED BY <2>5, <2>7, <2>8, <2>9 DEF MailInv
<1>5. ASSUME NEW h \in CallHosts, SignalsExpire(h) PROVE MailInv'
  <2>1. MailTypes'
    BY <1>5, EmptySeq DEF SignalsExpire, callClients, MailInv, MailTypes
  <2> QED
    BY <1>5, <2>1 DEF SignalsExpire, callClients, MailInv, MailTypes, SignalsReadInOrder, CallsAssumption
<1> QED
  BY <1>1, <1>2, <1>3, <1>4, <1>5
  DEF CallsNext, SignalsNext, AnswersNext, callVars, callServer, callClients, callGhosts,
      RelayCallSignalFails, RingEnds, ClaimSetNX, ClaimGet, MemoryClaim, LockExpires

\* Until the mailbox of its host expires, a device has read a prefix of it, each signal once and
\* in order, however posts, relays, lost relays and reads interleave.
THEOREM ReadInOrder == ASSUME CallsAssumption PROVE CallsSpec => []SignalsReadInOrder
<1>1. CallsInit => MailInv
  BY EmptySeq, SubSeqEmpty DEF CallsInit, MailInv, MailTypes, SignalsReadInOrder, CallsAssumption
<1>2. MailInv /\ [CallsNext]_callVars => MailInv'
  BY MailInduction
<1>3. MailInv => SignalsReadInOrder
  BY DEF MailInv
<1> QED BY <1>1, <1>2, <1>3, PTL DEF CallsSpec

(***************************************************************************)
(* Live events                                                             *)
(***************************************************************************)
\* An event on its way goes to registered streams only, whose channels are open; while nothing
\* is on its way, nothing is left to send to.
SendInv ==
    /\ owner \cap closed = {}
    /\ sending.to \subseteq owner
    /\ sending.event = NoEvent => sending.to = {}
    /\ broken = FALSE

LEMMA SendInduction ==
    ASSUME LiveBusAssumption, SendInv, [LbNext]_lbVars
    PROVE  SendInv'
<1>1. ASSUME UNCHANGED <<owner, closed, sending, broken>> PROVE SendInv'
  BY <1>1 DEF SendInv
<1>2. ASSUME NEW s \in Streams, add(s) PROVE SendInv'
  BY <1>2 DEF add, SendInv, Unlocked
<1>3. ASSUME NEW s \in Streams, remove(s) PROVE SendInv'
  BY <1>3 DEF remove, SendInv, Unlocked
<1>4. ASSUME NEW s \in Streams, deliver(s) PROVE SendInv'
  <2>1. broken' = FALSE
    BY <1>4 DEF deliver, SendInv
  <2>2. sending'.to \subseteq sending.to /\ (sending'.event = NoEvent => sending'.to = {})
    <3>1. CASE sending.to = {s}
      BY <1>4, <3>1 DEF deliver
    <3>2. CASE sending.to # {s}
      BY <1>4, <3>2 DEF deliver, SendInv
    <3> QED BY <3>1, <3>2
  <2> QED BY <1>4, <2>1, <2>2 DEF deliver, SendInv
<1>5. ASSUME NEW e \in Events, Publish(e) PROVE SendInv'
  BY <1>5 DEF Publish, SendInv, lbRegistry, LiveBusAssumption
<1> QED
  BY <1>1, <1>2, <1>3, <1>4, <1>5
  DEF LbNext, lbVars, lbRegistry, shutdown, CloseSubscription, RevokeStream, WriteEvent,
      StreamEnds, TakeEvent

\* Nothing is ever sent on a closed channel, however streams come, go and fall behind.
THEOREM NoSendOnClosedChannel == ASSUME LiveBusAssumption PROVE LbSpec => []NoSendOnClosed
<1>1. LbInit => SendInv
  BY DEF LbInit, SendInv
<1>2. SendInv /\ [LbNext]_lbVars => SendInv'
  BY SendInduction
<1>3. SendInv => NoSendOnClosed
  BY DEF SendInv, NoSendOnClosed
<1> QED BY <1>1, <1>2, <1>3, PTL DEF LbSpec

(***************************************************************************)
(* The push queue: what a sum of sizes does                                *)
(***************************************************************************)
LEMMA BytesFinite ==
    ASSUME PushQueueAssumption, NEW js \in SUBSET Jobs
    PROVE  IsFiniteSet(BytesOf(js)) /\ Bytes(js) \in Nat
<1> DEFINE f == [j \in js |-> {j} \X (1 .. Size[j])]
           T == {{j} \X (1 .. Size[j]) : j \in js}
<1>1. IsFiniteSet(js)
  BY FS_Subset DEF PushQueueAssumption
<1>2. f \in Surjection(js, T)
  BY DEF Surjection
<1>3. IsFiniteSet(T)
  BY <1>1, <1>2, FS_Surjection
<1>4. ASSUME NEW j \in js PROVE IsFiniteSet({j} \X (1 .. Size[j]))
  <2>1. Size[j] \in Nat
    BY DEF PushQueueAssumption
  <2>2. IsFiniteSet(1 .. Size[j])
    BY <2>1, FS_Interval
  <2>3. IsFiniteSet({j})
    BY FS_Singleton
  <2> QED BY <2>2, <2>3, FS_Product
<1>5. IsFiniteSet(UNION T)
  BY <1>3, <1>4, FS_UNION
<1> QED BY <1>5, FS_CardinalityType DEF BytesOf, Bytes

LEMMA BytesOfNone == Bytes({}) = 0
<1>1. BytesOf({}) = {}
  BY DEF BytesOf
<1> QED BY <1>1, FS_EmptySet DEF Bytes

LEMMA BytesOfOne ==
    ASSUME PushQueueAssumption, NEW j \in Jobs
    PROVE  Bytes({j}) = Size[j]
<1>1. Size[j] \in Nat
  BY DEF PushQueueAssumption
<1>2. BytesOf({j}) = {j} \X (1 .. Size[j])
  BY DEF BytesOf
<1>3. IsFiniteSet(1 .. Size[j]) /\ Cardinality(1 .. Size[j]) = Size[j]
  BY <1>1, FS_Interval
<1>4. IsFiniteSet({j}) /\ Cardinality({j}) = 1
  BY FS_Singleton
<1>5. Cardinality({j} \X (1 .. Size[j])) = Cardinality({j}) * Cardinality(1 .. Size[j])
  BY <1>3, <1>4, FS_Product
<1>6. 1 * Size[j] = Size[j]
  BY <1>1
<1> QED BY <1>2, <1>3, <1>4, <1>5, <1>6 DEF Bytes

LEMMA BytesAdd ==
    ASSUME PushQueueAssumption, NEW A \in SUBSET Jobs, NEW B \in SUBSET Jobs, A \cap B = {}
    PROVE  Bytes(A \cup B) = Bytes(A) + Bytes(B)
<1>1. BytesOf(A \cup B) = BytesOf(A) \cup BytesOf(B)
  BY DEF BytesOf
<1>2. BytesOf(A) \cap BytesOf(B) = {}
  BY DEF BytesOf
<1>3. IsFiniteSet(BytesOf(A)) /\ IsFiniteSet(BytesOf(B)) /\ Bytes(A) \in Nat /\ Bytes(B) \in Nat
  BY BytesFinite
<1>4. Cardinality(BytesOf(A) \cup BytesOf(B)) = Bytes(A) + Bytes(B) - Cardinality({})
  BY <1>2, <1>3, FS_Union DEF Bytes
<1> QED BY <1>1, <1>3, <1>4, FS_EmptySet DEF Bytes

\* The two forms in which the actions use it.
LEMMA BytesWith ==
    ASSUME PushQueueAssumption, NEW A \in SUBSET Jobs, NEW j \in Jobs \ A
    PROVE  Bytes(A \cup {j}) = Bytes(A) + Size[j]
BY BytesAdd, BytesOfOne

LEMMA BytesWithout ==
    ASSUME PushQueueAssumption, NEW A \in SUBSET Jobs, NEW j \in A
    PROVE  Bytes(A \ {j}) = Bytes(A) - Size[j]
<1>1. (A \ {j}) \cup {j} = A
  OBVIOUS
<1>2. Bytes(A) = Bytes(A \ {j}) + Size[j]
  BY <1>1, BytesWith
<1> QED BY <1>2, BytesFinite DEF PushQueueAssumption

LEMMA BytesMonotone ==
    ASSUME PushQueueAssumption, NEW B \in SUBSET Jobs, NEW A \in SUBSET B
    PROVE  Bytes(A) <= Bytes(B)
<1>1. A \cup (B \ A) = B /\ A \in SUBSET Jobs /\ B \ A \in SUBSET Jobs /\ A \cap (B \ A) = {}
  OBVIOUS
<1>2. Bytes(A) + Bytes(B \ A) = Bytes(B)
  BY <1>1, BytesAdd
<1> QED BY <1>1, <1>2, BytesFinite

(***************************************************************************)
(* The push queue: where a job is                                          *)
(***************************************************************************)
QueueTypes ==
    /\ chan_q \in Seq(Jobs)
    /\ queued \in Int
    /\ offer \in [Jobs -> {"idle", "slot", "giveback", "queued", "dropped", "stale", "sent"}]
    /\ worker \in [PushWorkers -> [pc : {"idle", "release", "run"}, job : Jobs \cup {NoJob}]]
    /\ \A w \in PushWorkers : worker[w].pc # "idle" => worker[w].job \in Jobs

\* A job that took a slot is in the channel once or in the hands of one worker.
OnePlace ==
    /\ \A i, k \in DOMAIN chan_q : chan_q[i] = chan_q[k] => i = k
    /\ \A j \in InChannel : offer[j] = "queued"
    /\ \A w \in PushWorkers : worker[w].pc # "idle" =>
          /\ offer[worker[w].job] = "queued" /\ worker[w].job \notin InChannel
          /\ \A v \in PushWorkers :
                worker[v].pc # "idle" /\ worker[v].job = worker[w].job => v = w

Slotted == {j \in Jobs : offer[j] = "slot"}

Exact == queued = Bytes(InChannel) + Bytes(Reserving) + Bytes(Unreleased)

\* The budget is checked when the bytes are reserved, for all who may still take a slot.
Within == Bytes(InChannel \cup Slotted) <= MaxBytes

QueueInv == QueueTypes /\ OnePlace /\ Exact /\ Within

LEMMA InChannelFacts ==
    ASSUME QueueTypes
    PROVE  /\ InChannel \in SUBSET Jobs /\ Reserving \in SUBSET Jobs
           /\ Unreleased \in SUBSET Jobs /\ Slotted \in SUBSET Reserving
<1>1. \A i \in DOMAIN chan_q : chan_q[i] \in Jobs
  BY LenProperties, ElementOfSeq DEF QueueTypes
<1> QED BY <1>1 DEF QueueTypes, InChannel, Reserving, Unreleased, Slotted

LEMMA AppendToChannel ==
    ASSUME QueueTypes, OnePlace, NEW j \in Jobs, j \notin InChannel, chan_q' = Append(chan_q, j)
    PROVE  /\ chan_q' \in Seq(Jobs) /\ InChannel' = InChannel \cup {j}
           /\ \A i, k \in DOMAIN chan_q' : chan_q'[i] = chan_q'[k] => i = k
<1>1. /\ chan_q' \in Seq(Jobs) /\ Len(chan_q') = Len(chan_q) + 1
      /\ \A i \in 1 .. Len(chan_q) : chan_q'[i] = chan_q[i]
      /\ chan_q'[Len(chan_q) + 1] = j
  BY AppendProperties DEF QueueTypes
<1>2. /\ DOMAIN chan_q = 1 .. Len(chan_q) /\ Len(chan_q) \in Nat
      /\ DOMAIN chan_q' = 1 .. Len(chan_q) + 1
  BY <1>1, LenProperties DEF QueueTypes
<1>3. \A i \in DOMAIN chan_q' : i \in DOMAIN chan_q \/ i = Len(chan_q) + 1
  BY <1>2
<1>4. InChannel' = InChannel \cup {j}
  BY <1>1, <1>2, <1>3 DEF InChannel
<1>5. ASSUME NEW i \in DOMAIN chan_q', NEW k \in DOMAIN chan_q', chan_q'[i] = chan_q'[k]
      PROVE  i = k
  BY <1>1, <1>2, <1>3, <1>5 DEF InChannel, OnePlace
<1> QED BY <1>1, <1>4, <1>5

LEMMA TakeFromChannel ==
    ASSUME QueueTypes, OnePlace, chan_q # <<>>, chan_q' = Tail(chan_q)
    PROVE  /\ chan_q' \in Seq(Jobs) /\ Head(chan_q) \in InChannel
           /\ InChannel' = InChannel \ {Head(chan_q)}
           /\ \A i, k \in DOMAIN chan_q' : chan_q'[i] = chan_q'[k] => i = k
<1>1. /\ chan_q' \in Seq(Jobs) /\ Len(chan_q') = Len(chan_q) - 1
      /\ \A i \in 1 .. Len(chan_q') : chan_q'[i] = chan_q[i + 1]
  BY HeadTailProperties DEF QueueTypes
<1>2. /\ DOMAIN chan_q = 1 .. Len(chan_q) /\ Len(chan_q) \in Nat \ {0}
      /\ DOMAIN chan_q' = 1 .. Len(chan_q) - 1
  BY <1>1, LenProperties, EmptySeq DEF QueueTypes
<1>3. Head(chan_q) = chan_q[1] /\ 1 \in DOMAIN chan_q
  BY <1>2 DEF QueueTypes
<1>4. \A i \in DOMAIN chan_q' : i + 1 \in DOMAIN chan_q /\ i + 1 # 1
  BY <1>2
<1>5. \A i \in DOMAIN chan_q : i # 1 => i - 1 \in DOMAIN chan_q' /\ chan_q'[i - 1] = chan_q[i]
  BY <1>1, <1>2
<1>6. InChannel' = InChannel \ {Head(chan_q)}
  <2>1. \A x \in InChannel' : x \in InChannel /\ x # Head(chan_q)
    BY <1>1, <1>2, <1>3, <1>4 DEF InChannel, OnePlace
  <2>2. \A x \in InChannel : x # Head(chan_q) => x \in InChannel'
    BY <1>3, <1>5 DEF InChannel
  <2> QED BY <2>1, <2>2, <1>3, <1>4 DEF InChannel
<1>7. ASSUME NEW i \in DOMAIN chan_q', NEW k \in DOMAIN chan_q', chan_q'[i] = chan_q'[k]
      PROVE  i = k
  <2>1. i + 1 = k + 1
    BY <1>1, <1>2, <1>4, <1>7 DEF OnePlace
  <2> QED BY <2>1, <1>2
<1> QED BY <1>1, <1>3, <1>6, <1>7 DEF InChannel

LEMMA ReserveKeepsBudget ==
    ASSUME PushQueueAssumption, QueueInv, NEW j \in Jobs, Reserve(j)
    PROVE  QueueInv'
<1> USE DEF QueueInv
<1>1. /\ offer[j] = "idle" /\ queued' = queued + Size[j]
      /\ chan_q' = chan_q /\ worker' = worker
      /\ offer' = [offer EXCEPT ![j] = IF queued + Size[j] > MaxBytes THEN "giveback" ELSE "slot"]
  BY DEF Reserve, OfferGoes
<1>2. QueueTypes'
  BY <1>1 DEF QueueTypes, PushQueueAssumption
<1>3. InChannel' = InChannel /\ Unreleased' = Unreleased /\ j \notin InChannel
  BY <1>1 DEF InChannel, Unreleased, OnePlace
<1>4. OnePlace'
  BY <1>1, <1>3 DEF OnePlace, QueueTypes, InChannel
<1>5. Reserving' = Reserving \cup {j} /\ j \notin Reserving
  BY <1>1 DEF Reserving, QueueTypes
<1>6. Exact'
  <2>1. Bytes(Reserving') = Bytes(Reserving) + Size[j]
    BY <1>5, BytesWith, InChannelFacts
  <2>2. /\ Bytes(InChannel) \in Nat /\ Bytes(Reserving) \in Nat /\ Bytes(Unreleased) \in Nat
        /\ Size[j] \in Nat
    BY InChannelFacts, BytesFinite DEF PushQueueAssumption
  <2> QED BY <1>1, <1>3, <2>1, <2>2 DEF Exact
<1>7. Within'
  <2>1. CASE queued + Size[j] > MaxBytes
    <3>1. Slotted' = Slotted
      BY <1>1, <2>1 DEF Slotted, QueueTypes
    <3> QED BY <1>3, <3>1 DEF Within
  <2>2. CASE ~(queued + Size[j] > MaxBytes)
    <3> DEFINE A == InChannel \cup Slotted
    <3>1. Slotted' = Slotted \cup {j} /\ j \notin A
      BY <1>1, <1>3, <2>2 DEF Slotted, QueueTypes
    <3>2. A \in SUBSET (InChannel \cup Reserving) /\ InChannel \cap Reserving = {}
      BY InChannelFacts DEF OnePlace, Reserving
    <3>3. /\ Bytes(A) <= Bytes(InChannel \cup Reserving)
          /\ Bytes(InChannel \cup Reserving) = Bytes(InChannel) + Bytes(Reserving)
      BY <3>2, InChannelFacts, BytesMonotone, BytesAdd
    <3>4. Bytes(A \cup {j}) = Bytes(A) + Size[j]
      BY <3>1, <3>2, InChannelFacts, BytesWith
    <3>5. InChannel' \cup Slotted' = A \cup {j}
      BY <1>3, <3>1
    <3>6. /\ Bytes(InChannel) \in Nat /\ Bytes(Reserving) \in Nat /\ Bytes(Unreleased) \in Nat
          /\ Size[j] \in Nat /\ Bytes(A) \in Nat /\ MaxBytes \in Nat
      BY <3>2, InChannelFacts, BytesFinite DEF PushQueueAssumption
    <3> HIDE DEF A
    <3>7. Bytes(A \cup {j}) <= MaxBytes
      BY <2>2, <3>3, <3>4, <3>6 DEF Exact
    <3> QED BY <3>5, <3>7 DEF Within
  <2> QED BY <2>1, <2>2
<1> QED BY <1>2, <1>4, <1>6, <1>7

LEMMA TakeSlotKeepsBudget ==
    ASSUME PushQueueAssumption, QueueInv, NEW j \in Jobs, TakeSlot(j)
    PROVE  QueueInv'
<1> USE DEF QueueInv
<1>1. offer[j] = "slot" /\ queued' = queued /\ worker' = worker /\ j \notin InChannel
  BY DEF TakeSlot, OfferGoes, OnePlace
<1>2. CASE chan_q' = Append(chan_q, j) /\ offer' = [offer EXCEPT ![j] = "queued"]
  <2>1. QueueTypes'
    BY <1>1, <1>2, AppendToChannel DEF QueueTypes
  <2>2. InChannel' = InChannel \cup {j} /\ Unreleased' = Unreleased
    BY <1>1, <1>2, AppendToChannel DEF Unreleased
  <2>3. OnePlace'
    <3>1. \A i, k \in DOMAIN chan_q' : chan_q'[i] = chan_q'[k] => i = k
      BY <1>1, <1>2, AppendToChannel
    <3> QED BY <1>1, <1>2, <2>2, <3>1 DEF OnePlace, QueueTypes
  <2>4. Reserving' = Reserving \ {j} /\ j \in Reserving
    BY <1>1, <1>2 DEF Reserving, QueueTypes
  <2>5. Bytes(InChannel') = Bytes(InChannel) + Size[j] /\ Bytes(Reserving') = Bytes(Reserving) - Size[j]
    BY <1>1, <2>2, <2>4, InChannelFacts, BytesWith, BytesWithout
  <2>6. Exact'
    <3>1. /\ Bytes(InChannel) \in Nat /\ Bytes(Reserving) \in Nat /\ Bytes(Unreleased) \in Nat
          /\ Size[j] \in Nat
      BY InChannelFacts, BytesFinite DEF PushQueueAssumption
    <3> QED BY <1>1, <2>2, <2>5, <3>1 DEF Exact
  <2>7. Within'
    <3>1. InChannel' \cup Slotted' = InChannel \cup Slotted
      BY <1>1, <1>2, <2>2 DEF Slotted, QueueTypes
    <3> QED BY <3>1 DEF Within
  <2> QED BY <2>1, <2>3, <2>6, <2>7
<1>3. CASE chan_q' = chan_q /\ offer' = [offer EXCEPT ![j] = "giveback"]
  <2>1. QueueTypes'
    BY <1>1, <1>3 DEF QueueTypes
  <2>2. InChannel' = InChannel /\ Unreleased' = Unreleased /\ Reserving' = Reserving
    BY <1>1, <1>3 DEF InChannel, Unreleased, Reserving, QueueTypes
  <2>3. OnePlace'
    BY <1>1, <1>3, <2>2 DEF OnePlace, QueueTypes, InChannel
  <2>4. InChannel' \cup Slotted' \in SUBSET (InChannel \cup Slotted)
    BY <1>1, <1>3, <2>2 DEF Slotted, QueueTypes
  <2>5. Within'
    <3>1. Bytes(InChannel' \cup Slotted') <= Bytes(InChannel \cup Slotted)
      BY <2>4, InChannelFacts, BytesMonotone
    <3>2. Bytes(InChannel' \cup Slotted') \in Nat /\ Bytes(InChannel \cup Slotted) \in Nat
      BY <2>4, InChannelFacts, BytesFinite
    <3> QED BY <3>1, <3>2 DEF Within, PushQueueAssumption
  <2> QED BY <1>1, <2>1, <2>2, <2>3, <2>5 DEF Exact
<1> QED BY <1>2, <1>3 DEF TakeSlot, OfferGoes

LEMMA GiveBackKeepsBudget ==
    ASSUME PushQueueAssumption, QueueInv, NEW j \in Jobs, GiveBack(j)
    PROVE  QueueInv'
<1> USE DEF QueueInv
<1>1. /\ offer[j] = "giveback" /\ queued' = queued - Size[j] /\ worker' = worker
      /\ chan_q' = chan_q /\ offer' = [offer EXCEPT ![j] = "dropped"]
  BY DEF GiveBack, OfferGoes
<1>2. QueueTypes'
  BY <1>1 DEF QueueTypes, PushQueueAssumption
<1>3. InChannel' = InChannel /\ Unreleased' = Unreleased /\ j \notin InChannel
  BY <1>1 DEF InChannel, Unreleased, OnePlace
<1>4. OnePlace'
  BY <1>1, <1>3 DEF OnePlace, QueueTypes, InChannel
<1>5. Reserving' = Reserving \ {j} /\ j \in Reserving /\ Slotted' = Slotted
  BY <1>1 DEF Reserving, Slotted, QueueTypes
<1>6. Exact'
  <2>1. Bytes(Reserving') = Bytes(Reserving) - Size[j]
    BY <1>5, BytesWithout, InChannelFacts
  <2>2. /\ Bytes(InChannel) \in Nat /\ Bytes(Reserving) \in Nat /\ Bytes(Unreleased) \in Nat
        /\ Size[j] \in Nat
    BY InChannelFacts, BytesFinite DEF PushQueueAssumption
  <2> QED BY <1>1, <1>3, <2>1, <2>2 DEF Exact
<1> QED BY <1>2, <1>3, <1>4, <1>5, <1>6 DEF Within

LEMMA DequeueKeepsBudget ==
    ASSUME PushQueueAssumption, QueueInv, NEW w \in PushWorkers, Dequeue(w)
    PROVE  QueueInv'
<1> USE DEF QueueInv
<1> DEFINE j == Head(chan_q)
<1>1. /\ worker[w].pc = "idle" /\ chan_q # <<>> /\ chan_q' = Tail(chan_q)
      /\ worker' = [worker EXCEPT ![w] = [pc |-> "release", job |-> j]]
      /\ queued' = queued /\ offer' = offer
  BY DEF Dequeue
<1>2. /\ chan_q' \in Seq(Jobs) /\ j \in InChannel /\ InChannel' = InChannel \ {j}
      /\ \A i, k \in DOMAIN chan_q' : chan_q'[i] = chan_q'[k] => i = k
  BY <1>1, TakeFromChannel
<1>3. j \in Jobs
  BY <1>2, InChannelFacts
<1> HIDE DEF j
<1>4. QueueTypes'
  BY <1>1, <1>2, <1>3 DEF QueueTypes
<1>5. OnePlace'
  BY <1>1, <1>2 DEF OnePlace, QueueTypes
<1>6. Unreleased' = Unreleased \cup {j} /\ j \notin Unreleased /\ Reserving' = Reserving
  BY <1>1, <1>2 DEF Unreleased, Reserving, OnePlace, QueueTypes
<1>7. Exact'
  <2>1. Bytes(Unreleased') = Bytes(Unreleased) + Size[j] /\ Bytes(InChannel') = Bytes(InChannel) - Size[j]
    BY <1>2, <1>3, <1>6, InChannelFacts, BytesWith, BytesWithout
  <2>2. /\ Bytes(InChannel) \in Nat /\ Bytes(Reserving) \in Nat /\ Bytes(Unreleased) \in Nat
        /\ Size[j] \in Nat
    BY <1>3, InChannelFacts, BytesFinite DEF PushQueueAssumption
  <2> QED BY <1>1, <1>6, <2>1, <2>2 DEF Exact
<1>8. Within'
  <2>1. InChannel' \cup Slotted' \in SUBSET (InChannel \cup Slotted)
    BY <1>1, <1>2 DEF Slotted
  <2>2. Bytes(InChannel' \cup Slotted') <= Bytes(InChannel \cup Slotted)
    BY <2>1, InChannelFacts, BytesMonotone
  <2>3. Bytes(InChannel' \cup Slotted') \in Nat /\ Bytes(InChannel \cup Slotted) \in Nat
    BY <2>1, InChannelFacts, BytesFinite
  <2> QED BY <2>2, <2>3 DEF Within, PushQueueAssumption
<1> QED BY <1>4, <1>5, <1>7, <1>8

LEMMA ReleaseKeepsBudget ==
    ASSUME PushQueueAssumption, QueueInv, NEW w \in PushWorkers, Release(w)
    PROVE  QueueInv'
<1> USE DEF QueueInv
<1> DEFINE j == worker[w].job
<1>1. /\ worker[w].pc = "release" /\ chan_q' = chan_q /\ offer' = offer
      /\ worker' = [worker EXCEPT ![w].pc = "run"] /\ queued' = queued - Size[j] /\ j \in Jobs
  BY DEF Release, QueueTypes
<1>2. QueueTypes'
  <2>1. worker[w] \in [pc : {"idle", "release", "run"}, job : Jobs \cup {NoJob}]
    BY DEF QueueTypes
  <2>2. [worker[w] EXCEPT !.pc = "run"] \in [pc : {"idle", "release", "run"}, job : Jobs \cup {NoJob}]
    BY <2>1
  <2>3. worker' \in [PushWorkers -> [pc : {"idle", "release", "run"}, job : Jobs \cup {NoJob}]]
    BY <1>1, <2>2 DEF QueueTypes
  <2>4. \A v \in PushWorkers : worker'[v].pc # "idle" => worker'[v].job \in Jobs
    BY <1>1 DEF QueueTypes
  <2>5. queued' \in Int
    BY <1>1 DEF QueueTypes, PushQueueAssumption
  <2> QED BY <1>1, <2>3, <2>4, <2>5 DEF QueueTypes
<1>3. InChannel' = InChannel /\ Reserving' = Reserving /\ Slotted' = Slotted
  BY <1>1 DEF InChannel, Reserving, Slotted
<1>4. OnePlace'
  BY <1>1, <1>3 DEF OnePlace, QueueTypes
<1>5. Unreleased' = Unreleased \ {j} /\ j \in Unreleased
  BY <1>1 DEF Unreleased, OnePlace, QueueTypes
<1>6. Exact'
  <2>1. Bytes(Unreleased') = Bytes(Unreleased) - Size[j]
    BY <1>5, BytesWithout, InChannelFacts
  <2>2. /\ Bytes(InChannel) \in Nat /\ Bytes(Reserving) \in Nat /\ Bytes(Unreleased) \in Nat
        /\ Size[j] \in Nat
    BY <1>1, InChannelFacts, BytesFinite DEF PushQueueAssumption
  <2> QED BY <1>1, <1>3, <2>1, <2>2 DEF Exact
<1> QED BY <1>2, <1>3, <1>4, <1>6 DEF Within

LEMMA RunKeepsBudget ==
    ASSUME PushQueueAssumption, QueueInv, NEW w \in PushWorkers, NEW stale \in BOOLEAN, RunJob(w, stale)
    PROVE  QueueInv'
<1> USE DEF QueueInv
<1>1. /\ worker[w].pc = "run" /\ chan_q' = chan_q /\ queued' = queued
      /\ offer' = [offer EXCEPT ![worker[w].job] = IF stale THEN "stale" ELSE "sent"]
      /\ worker' = [worker EXCEPT ![w] = [pc |-> "idle", job |-> NoJob]] /\ worker[w].job \in Jobs
  BY DEF RunJob, QueueTypes
<1>2. QueueTypes'
  BY <1>1 DEF QueueTypes
<1>3. InChannel' = InChannel /\ Reserving' = Reserving /\ Slotted' = Slotted
  BY <1>1 DEF InChannel, Reserving, Slotted, OnePlace, QueueTypes
<1>4. OnePlace'
  BY <1>1, <1>3 DEF OnePlace, QueueTypes
<1>5. Unreleased' = Unreleased
  BY <1>1 DEF Unreleased, OnePlace, QueueTypes
<1> QED BY <1>1, <1>2, <1>3, <1>4, <1>5 DEF Within, Exact

\* However offers and workers interleave, not a byte of the budget leaks and what waits in the
\* channel stays within it, for any number of jobs, workers and slots.
THEOREM NoByteLeaks == ASSUME PushQueueAssumption PROVE PqSpec => []BudgetIsExact
<1>1. PqInit => QueueInv
  <2> SUFFICES ASSUME PqInit PROVE QueueInv
    OBVIOUS
  <2>1. InChannel = {} /\ Reserving = {} /\ Unreleased = {} /\ Slotted = {}
    BY DEF PqInit, InChannel, Reserving, Unreleased, Slotted
  <2>2. QueueTypes /\ OnePlace
    BY <2>1, EmptySeq DEF PqInit, QueueTypes, OnePlace
  <2> QED BY <2>1, <2>2, BytesOfNone DEF PqInit, QueueInv, Exact, Within, PushQueueAssumption
<1>2. QueueInv /\ [PqNext]_pqVars => QueueInv'
  <2> SUFFICES ASSUME QueueInv, [PqNext]_pqVars PROVE QueueInv'
    OBVIOUS
  <2>1. CASE UNCHANGED pqVars
    <3>1. InChannel' = InChannel /\ Reserving' = Reserving /\ Unreleased' = Unreleased /\ Slotted' = Slotted
      BY <2>1 DEF pqVars, InChannel, Reserving, Unreleased, Slotted
    <3> QED BY <2>1, <3>1 DEF pqVars, QueueInv, QueueTypes, OnePlace, Exact, Within
  <2> QED
    BY <2>1, ReserveKeepsBudget, TakeSlotKeepsBudget, GiveBackKeepsBudget, DequeueKeepsBudget,
       ReleaseKeepsBudget, RunKeepsBudget DEF PqNext
<1>3. QueueInv => BudgetIsExact
  <2> SUFFICES ASSUME QueueInv PROVE BudgetIsExact
    OBVIOUS
  <2>1. Bytes(InChannel) <= Bytes(InChannel \cup Slotted)
    BY InChannelFacts, BytesMonotone DEF QueueInv
  <2>2. Bytes(InChannel) \in Nat /\ Bytes(InChannel \cup Slotted) \in Nat
    BY InChannelFacts, BytesFinite DEF QueueInv
  <2> QED BY <2>1, <2>2 DEF QueueInv, Exact, Within, BudgetIsExact, PushQueueAssumption
<1> QED BY <1>1, <1>2, <1>3, PTL DEF PqSpec

(***************************************************************************)
(* Push addresses                                                          *)
(***************************************************************************)
\* A row says nothing of its device, or the truth.
Honest(row) == row \in Device /\ row.mls \in {Unknown, DeviceOf(row)}
Excused(d) == \E y \in excused : DeviceOf(y) = d
Running(r) == reg[r].pc \notin {"idle", "done"}

AddressTypes ==
    /\ \A x \in rows : Honest(x)
    /\ DOMAIN reg = Registrations
    /\ \A r \in Registrations : /\ reg[r] = [pc |-> reg[r].pc, row |-> reg[r].row]
                                /\ reg[r].pc # "idle" => Honest(reg[r].row)

\* A device is severed only after its session is revoked, so that no registration begun
\* later can bring its address back.
Severed == severed \subseteq revoked

\* Who is severed is gone from the rows, and from the registrations under way, unless
\* one of them was under way already.
Gone ==
    /\ \A x \in rows : x.mls # Unknown /\ DeviceOf(x) \in severed => Excused(DeviceOf(x))
    /\ \A r \in Registrations : Running(r) /\ DeviceOf(reg[r].row) \in severed =>
           Excused(DeviceOf(reg[r].row))

AddressInv == AddressTypes /\ Severed /\ Gone /\ RevokedGetsNoCiphertext

\* What is said of an account's row, by its identity.
LEMMA HonestRow ==
    ASSUME NEW x \in Device, NEW m \in {Unknown, DeviceOf(x)}
    PROVE  /\ Honest([x EXCEPT !.mls = m]) /\ DeviceOf([x EXCEPT !.mls = m]) = DeviceOf(x)
           /\ [x EXCEPT !.mls = m].mls = m
<1>1. x.user \in Accounts /\ x.addr \in Handsets
  BY DEF Device
<1>2. m \in MLSDevices \cup {Unknown}
  BY <1>1 DEF DeviceOf, MLSDevices
<1>3. /\ [x EXCEPT !.mls = m] \in Device /\ [x EXCEPT !.mls = m].mls = m
      /\ [x EXCEPT !.mls = m].user = x.user /\ [x EXCEPT !.mls = m].addr = x.addr
  BY <1>2 DEF Device
<1> QED BY <1>3 DEF Honest, DeviceOf

\* A registration that moves on stays what it was.
LEMMA RegMoves ==
    ASSUME AddressTypes, NEW r \in Registrations, NEW pc, reg' = [reg EXCEPT ![r].pc = pc],
           reg[r].pc # "idle"
    PROVE  /\ DOMAIN reg' = Registrations
           /\ \A q \in Registrations :
                /\ reg'[q] = [pc |-> reg'[q].pc, row |-> reg'[q].row]
                /\ reg'[q].row = reg[q].row
                /\ reg'[q].pc = IF q = r THEN pc ELSE reg[q].pc
<1>1. reg'[r] = [reg[r] EXCEPT !.pc = pc] /\ DOMAIN reg' = Registrations
      /\ \A q \in Registrations : q # r => reg'[q] = reg[q]
  BY DEF AddressTypes
<1>2. PICK a, b : reg[r] = [pc |-> a, row |-> b]
  BY DEF AddressTypes
<1>3. reg'[r] = [pc |-> pc, row |-> b]
  BY <1>1, <1>2
<1> QED BY <1>1, <1>2, <1>3 DEF AddressTypes

\* A step of a registration that leaves rows each of which was there, or stands for the
\* registration's device.
LEMMA RegistrationKeepsAddresses ==
    ASSUME PushAddressesAssumption, AddressInv, NEW r \in Registrations, NEW pc, pc # "idle",
           Running(r), reg' = [reg EXCEPT ![r].pc = pc],
           UNCHANGED <<revoked, severed, terminating, fanout, excused>>,
           \A x \in rows' : \/ x \in rows
                            \/ Honest(x) /\ DeviceOf(x) = DeviceOf(reg[r].row)
    PROVE  AddressInv'
<1>1. /\ DOMAIN reg' = Registrations
      /\ \A q \in Registrations : /\ reg'[q] = [pc |-> reg'[q].pc, row |-> reg'[q].row]
                                  /\ reg'[q].row = reg[q].row
                                  /\ reg'[q].pc = IF q = r THEN pc ELSE reg[q].pc
  BY RegMoves DEF AddressInv, Running
<1>2. \A q \in Registrations : Running(q)' => Running(q)
  BY <1>1 DEF Running
<1>3. \A q \in Registrations : reg'[q].pc # "idle" => reg[q].pc # "idle"
  BY <1>1 DEF Running
<1>4. \A d : Excused(d)' <=> Excused(d)
  BY DEF Excused
<1>5. AddressTypes'
  BY <1>1, <1>3 DEF AddressInv, AddressTypes, Honest, Device
<1>6. Severed'
  BY DEF AddressInv, Severed
<1>7. Gone'
  BY <1>1, <1>2, <1>4 DEF AddressInv, Gone
<1>8. RevokedGetsNoCiphertext'
  BY DEF AddressInv, RevokedGetsNoCiphertext
<1> QED BY <1>5, <1>6, <1>7, <1>8 DEF AddressInv

LEMMA CreateKeepsAddresses ==
    ASSUME PushAddressesAssumption, AddressInv, NEW r \in Registrations, NEW row \in Device,
           createDevice(r, row)
    PROVE  AddressInv'
<1>1. /\ UNCHANGED <<rows, revoked, severed, terminating, fanout, excused>>
      /\ DeviceOf(row) \notin revoked /\ Honest(row)
      /\ reg' = [reg EXCEPT ![r] = [pc |-> "release", row |-> row]]
  BY DEF createDevice, Honest
<1>2. /\ DOMAIN reg' = Registrations /\ reg'[r] = [pc |-> "release", row |-> row]
      /\ \A q \in Registrations : q # r => reg'[q] = reg[q]
  BY <1>1 DEF AddressInv, AddressTypes
<1>3. AddressTypes'
  BY <1>1, <1>2 DEF AddressInv, AddressTypes
<1>4. Severed'
  BY <1>1 DEF AddressInv, Severed
<1>5. Gone'
  BY <1>1, <1>2 DEF AddressInv, Gone, Severed, Running, Excused
<1>6. RevokedGetsNoCiphertext'
  BY <1>1 DEF AddressInv, RevokedGetsNoCiphertext
<1> QED BY <1>3, <1>4, <1>5, <1>6 DEF AddressInv

LEMMA RunKeepsAddresses ==
    ASSUME PushAddressesAssumption, AddressInv, NEW r \in Registrations,
           releasePushAddress(r) \/ FindDevice(r) \/ UpdateDevice(r) \/ InsertDevice(r)
           \/ MemoryCreateDevice(r)
    PROVE  AddressInv'
<1> DEFINE row == reg[r].row
<1>0. Running(r) => Honest(row) /\ row \in Device /\ row.mls \in {Unknown, DeviceOf(row)}
  BY DEF AddressInv, AddressTypes, Running, Honest
<1>1. CASE releasePushAddress(r)
  <2>1. /\ Running(r) /\ reg' = [reg EXCEPT ![r].pc = "find"] /\ rows' \subseteq rows
        /\ UNCHANGED <<revoked, severed, terminating, fanout, excused>>
    BY <1>1 DEF releasePushAddress, RegGoes, Running
  <2> QED BY <2>1, RegistrationKeepsAddresses
<1>2. CASE FindDevice(r)
  <2>1. PICK pc : pc = IF Same(reg[r].row) = {} THEN "insert" ELSE "update"
    OBVIOUS
  <2>2. /\ Running(r) /\ reg' = [reg EXCEPT ![r].pc = pc] /\ rows' = rows /\ pc # "idle"
        /\ UNCHANGED <<revoked, severed, terminating, fanout, excused>>
    BY <1>2, <2>1 DEF FindDevice, RegGoes, Running
  <2> QED BY <2>2, RegistrationKeepsAddresses
<1>3. CASE UpdateDevice(r)
  <2>1. /\ Running(r) /\ reg' = [reg EXCEPT ![r].pc = "done"]
        /\ UNCHANGED <<revoked, severed, terminating, fanout, excused>>
    BY <1>3 DEF UpdateDevice, RegGoes, Running
  <2>2. ASSUME NEW y \in rows', y \notin rows
        PROVE  Honest(y) /\ DeviceOf(y) = DeviceOf(row)
    <3>1. PICK x \in Same(row) :
              y = [x EXCEPT !.mls = IF row.mls = Unknown THEN x.mls ELSE row.mls]
      BY <1>3, <2>2 DEF UpdateDevice
    <3>2. x \in rows /\ DeviceOf(x) = DeviceOf(row)
      BY <3>1 DEF Same, RowsAt, DeviceOf
    <3>3. x \in Device /\ x.mls \in {Unknown, DeviceOf(x)}
      BY <3>2 DEF AddressInv, AddressTypes, Honest
    <3>4. PICK m : m = IF row.mls = Unknown THEN x.mls ELSE row.mls
      OBVIOUS
    <3>5. m \in {Unknown, DeviceOf(x)}
      BY <1>0, <2>1, <3>2, <3>3, <3>4
    <3>6. y = [x EXCEPT !.mls = m]
      BY <3>1, <3>4
    <3> QED BY <3>2, <3>3, <3>5, <3>6, HonestRow
  <2> QED BY <2>1, <2>2, RegistrationKeepsAddresses
<1>4. CASE InsertDevice(r)
  <2>1. /\ Running(r) /\ reg' = [reg EXCEPT ![r].pc = "done"] /\ rows' \subseteq rows \cup {row}
        /\ UNCHANGED <<revoked, severed, terminating, fanout, excused>>
    BY <1>4 DEF InsertDevice, RegGoes, Running
  <2> QED BY <1>0, <2>1, RegistrationKeepsAddresses
<1>5. CASE MemoryCreateDevice(r)
  <2> DEFINE m == IF row.mls = Unknown /\ Same(row) # {}
                  THEN (CHOOSE x \in Same(row) : TRUE).mls ELSE row.mls
  <2>1. /\ Running(r) /\ reg' = [reg EXCEPT ![r].pc = "done"]
        /\ rows' \subseteq rows \cup {[row EXCEPT !.mls = m]}
        /\ UNCHANGED <<revoked, severed, terminating, fanout, excused>>
    BY <1>5 DEF MemoryCreateDevice, RegGoes, Running
  <2>2. m \in {Unknown, DeviceOf(row)}
    <3>1. CASE row.mls = Unknown /\ Same(row) # {}
      <4>1. PICK x \in Same(row) : m = x.mls
        BY <3>1
      <4>2. x \in rows /\ DeviceOf(x) = DeviceOf(row)
        BY <4>1 DEF Same, RowsAt, DeviceOf
      <4> QED BY <4>1, <4>2 DEF AddressInv, AddressTypes, Honest
    <3>2. CASE ~(row.mls = Unknown /\ Same(row) # {})
      BY <1>0, <2>1, <3>2
    <3> QED BY <3>1, <3>2
  <2> HIDE DEF m
  <2>3. PICK y : y = [row EXCEPT !.mls = m]
    OBVIOUS
  <2>4. Honest(y) /\ DeviceOf(y) = DeviceOf(row)
    BY <1>0, <2>1, <2>2, <2>3, HonestRow
  <2> QED BY <2>1, <2>3, <2>4, RegistrationKeepsAddresses
<1> QED BY <1>1, <1>2, <1>3, <1>4, <1>5

LEMMA TerminateKeepsAddresses ==
    ASSUME PushAddressesAssumption, AddressInv, NEW d \in MLSDevices,
           \/ RevokeLogin(d) \/ RevokeLoginFails(d)
           \/ DeletePushDevicesForMLSDevice(d) \/ DeletePushDevicesFails(d)
    PROVE  AddressInv'
<1>0. Unknown \notin MLSDevices
  BY DEF PushAddressesAssumption, MLSDevices
<1>1. CASE RevokeLogin(d) \/ RevokeLoginFails(d) \/ DeletePushDevicesFails(d)
  <2>1. UNCHANGED <<rows, reg, severed, fanout, excused>> /\ revoked \subseteq revoked'
    BY <1>1 DEF RevokeLogin, RevokeLoginFails, DeletePushDevicesFails
  <2>2. AddressTypes'
    BY <2>1 DEF AddressInv, AddressTypes
  <2>3. Severed'
    BY <1>0, <2>1 DEF AddressInv, Severed
  <2>4. Gone'
    BY <2>1 DEF AddressInv, Gone, Running, Excused
  <2>5. RevokedGetsNoCiphertext'
    BY <2>1 DEF AddressInv, RevokedGetsNoCiphertext
  <2> QED BY <2>2, <2>3, <2>4, <2>5 DEF AddressInv
<1>2. CASE DeletePushDevicesForMLSDevice(d)
  <2>1. /\ terminating = d /\ terminating' = Unknown /\ reg' = reg /\ revoked' = revoked /\ fanout' = fanout
        /\ rows' = {x \in rows : ~(x.user = d[1] /\ x.mls = d)}
        /\ severed' = severed \cup ({d} \cap revoked) /\ excused \subseteq excused'
    BY <1>2 DEF DeletePushDevicesForMLSDevice
  <2>2. \A r \in Registrations : Running(r) /\ DeviceOf(reg[r].row) = d => reg[r].row \in excused'
    BY <1>2 DEF DeletePushDevicesForMLSDevice, Running
  <2>3. \A e : Excused(e) => Excused(e)'
    BY <2>1 DEF Excused
  <2>4. AddressTypes'
    BY <2>1 DEF AddressInv, AddressTypes
  <2>5. Severed'
    BY <1>0, <2>1 DEF AddressInv, Severed
  <2>6. \A x \in rows' : x.mls # Unknown => DeviceOf(x) # d
    BY <2>1 DEF AddressInv, AddressTypes, Honest, DeviceOf
  <2>7. Gone'
    BY <2>1, <2>2, <2>3, <2>6 DEF AddressInv, Gone, Running, Excused
  <2>8. RevokedGetsNoCiphertext'
    BY <2>1 DEF AddressInv, RevokedGetsNoCiphertext
  <2> QED BY <2>4, <2>5, <2>7, <2>8 DEF AddressInv
<1> QED BY <1>1, <1>2

LEMMA FanOutKeepsAddresses ==
    ASSUME AddressInv, DevicesForUsers \/ (\E gone \in SUBSET rows : SendChat(gone)) \/ UNCHANGED paVars
    PROVE  AddressInv'
<1>1. UNCHANGED <<reg, revoked, severed, terminating, excused>> /\ rows' \subseteq rows
  BY DEF DevicesForUsers, SendChat, paVars
<1>2. AddressTypes'
  BY <1>1 DEF AddressInv, AddressTypes
<1>3. Severed' /\ Gone'
  BY <1>1 DEF AddressInv, Severed, Gone, Running, Excused
<1>4. RevokedGetsNoCiphertext'
  <2>1. CASE DevicesForUsers
    <3>1. fanout'.rows = rows /\ fanout'.severed = severed
      BY <2>1 DEF DevicesForUsers
    <3> QED BY <1>1, <3>1 DEF AddressInv, Gone, Excused, RevokedGetsNoCiphertext, rendersPreview
  <2>2. CASE \E gone \in SUBSET rows : SendChat(gone)
    BY <2>2 DEF SendChat, RevokedGetsNoCiphertext
  <2>3. CASE UNCHANGED paVars
    BY <2>3 DEF paVars, AddressInv, RevokedGetsNoCiphertext
  <2> QED BY <2>1, <2>2, <2>3
<1> QED BY <1>2, <1>3, <1>4 DEF AddressInv

LEMMA AddressesStart == ASSUME PushAddressesAssumption, PaInit PROVE AddressInv
<1>1. \A x \in rows : Honest(x) /\ x.mls = Unknown
  BY DEF PaInit, Honest
<1>2. \A r \in Registrations : reg[r] = [pc |-> "idle", row |-> Unknown]
  BY DEF PaInit
<1>3. AddressTypes
  BY <1>1, <1>2 DEF PaInit, AddressTypes
<1>4. Severed
  BY DEF PaInit, Severed, PushAddressesAssumption, MLSDevices
<1>5. Gone
  BY <1>1, <1>2 DEF Gone, Running
<1>6. RevokedGetsNoCiphertext
  BY DEF PaInit, RevokedGetsNoCiphertext
<1> QED BY <1>3, <1>4, <1>5, <1>6 DEF AddressInv

\* A fan-out that starts after a device's addresses were deleted hands it no ciphertext,
\* on either store, however many registrations race with the termination; the one way back
\* is a registration that had passed the session check before (terminateDevice, createDevice,
\* devicesByPrivacy).
THEOREM NoCiphertextAfterRevocation ==
    ASSUME PushAddressesAssumption PROVE PaSpec => []RevokedGetsNoCiphertext
<1>1. PaInit => AddressInv
  BY AddressesStart
<1>2. AddressInv /\ [PaNext]_paVars => AddressInv'
  BY CreateKeepsAddresses, RunKeepsAddresses, TerminateKeepsAddresses, FanOutKeepsAddresses DEF PaNext
<1>3. AddressInv => RevokedGetsNoCiphertext
  BY DEF AddressInv
<1> QED BY <1>1, <1>2, <1>3, PTL DEF PaSpec

(***************************************************************************)
(* What a push says                                                        *)
(***************************************************************************)
\* What a phone is told, of one notification, given the settings its owner has had.
Says(n, t, d, asked) ==
    t # Untold =>
        /\ ShowsWho(t.payload) => \E s \in asked : ShowsSender(s)
        /\ "ciphertext" \in t.payload.data => d \in Renderers /\ \E s \in asked : ShowsPreview(s)
        /\ payloadFits(n, t.payload)
        /\ ~TrayRendered(t.payload) =>
              "callerName" \in t.payload.data \/ {"title", "body"} \subseteq t.payload.data

\* A group's key is what its phones' owners have asked for, or less.
KeyFits(key, d) ==
    /\ key = [privacy |-> key.privacy, renders |-> key.renders]
    /\ key.privacy = "generic" \/ \E s \in had[OwnerOf[d]] : key.privacy = Effective(s)
    /\ key.renders \in BOOLEAN /\ (key.renders => d \in Renderers)

FanInv ==
    /\ setting \in [Recipients -> Settings] /\ had \in [Recipients -> SUBSET Settings]
    /\ sends \in [Phones -> Nat] /\ fan.pc \in {"idle", "users", "send", "done"}
    /\ fan.pc # "idle" => /\ fan.note \in ChatNotification
                          /\ \A u \in Recipients : setting[u] \in had[u]
    /\ fan.pc \in {"idle", "users"} => \A d \in Phones : told[d] = Untold /\ sends[d] = 0

\* The groups still to send to are apart, and hold the phones not sent to.
GroupsInv ==
    /\ fan.pc = "send" =>
          /\ fan = [pc |-> fan.pc, note |-> fan.note, todo |-> fan.todo]
          /\ \A g \in fan.todo : \A d \in g.devices : d \in Phones /\ KeyFits(g.key, d)
          /\ \A g, h \in fan.todo : \A d \in g.devices : d \in h.devices => g = h
          /\ \A d \in Phones : sends[d] = IF \E g \in fan.todo : d \in g.devices THEN 0 ELSE 1
    /\ fan.pc = "done" => \A d \in Phones : sends[d] = 1

SaysInv == \A d \in Phones : Says(fan.note, told[d], d, had[OwnerOf[d]])
PayloadInv == FanInv /\ GroupsInv /\ SaysInv

LEMMA SizesFit ==
    ASSUME PushPayloadAssumption, NEW n \in ChatNotification, NEW title \in {"name", "fallback"}
    PROVE  /\ Length(n, title) \in Nat /\ Length(n, title) + Length(n, title) <= MaxPayload
           /\ n.ciphertext \in Nat \cup CiphertextSizes /\ n.kind \in {"message", "call", "call-cancel"}
<1>1. n.nameSize \in NameSizes /\ n.kind \in {"message", "call", "call-cancel"}
      /\ n.ciphertext \in Nat \cup CiphertextSizes
  <2>1. CASE n \in [kind : {"message"}, nameSize : NameSizes, avatar : BOOLEAN, senderID : {TRUE},
                     content : {"application", "other"}, ciphertext : CiphertextSizes, groups : {0, 1}]
    BY <2>1
  <2>2. CASE n \in [kind : {"call", "call-cancel"}, nameSize : NameSizes, avatar : BOOLEAN,
                     senderID : {FALSE}, content : {"other"}, ciphertext : {0}, groups : {0}]
    BY <2>2
  <2> QED BY <2>1, <2>2, Zenon DEF ChatNotification
<1>2. n.nameSize \in Nat /\ n.nameSize + n.nameSize <= MaxPayload /\ 1 + 1 <= MaxPayload
  BY <1>1 DEF PushPayloadAssumption
<1> QED BY <1>1, <1>2 DEF Length

\* The two payloads, by what they show of the sender and of the message.
LEMMA ChatSays ==
    ASSUME PushPayloadAssumption, NEW n \in ChatNotification, NEW g, g.renders \in BOOLEAN,
           NEW p, p = chatNotificationPayload(n, g)
    PROVE  /\ ShowsWho(p) => ShowsSender(g.privacy)
           /\ "ciphertext" \in p.data => ShowsPreview(g.privacy) /\ g.renders
           /\ payloadFits(n, p)
           /\ ~TrayRendered(p) => "callerName" \in p.data \/ {"title", "body"} \subseteq p.data
<1> DEFINE who == (IF identifies(g) /\ n.avatar THEN {"senderAvatar"} ELSE {})
                  \cup (IF identifies(g) /\ n.senderID THEN {"senderId"} ELSE {})
           preview == {"ciphertext", "title", "body"}
                      \cup (IF previewGroupIDs(n, g) > 0 THEN {"groupIds"} ELSE {})
           call == IF n.kind = "message" THEN {} ELSE {"kind", "callId", "callerName"}
           With(data, drawn) ==
               [title |-> displayName(n, g), icon |-> identifies(g) /\ n.avatar, data |-> data,
                urgent |-> n.kind # "message", clientRendered |-> drawn]
           full == With(who \cup preview, TRUE)
           plain == With(who \cup call, FALSE)
<1>1. p = IF previewCiphertext(n, g) /\ payloadFits(n, full) THEN full ELSE plain
  BY DEF chatNotificationPayload
<1>2. displayName(n, g) \in {"name", "fallback"} /\ (displayName(n, g) = "name" => identifies(g))
  BY DEF displayName
<1>3. ASSUME NEW data, NEW drawn, data \subseteq who \cup preview \cup call
      PROVE  ShowsWho(With(data, drawn)) => identifies(g)
  BY <1>2, <1>3 DEF ShowsWho
<1>4. ShowsWho(p) => ShowsSender(g.privacy)
  BY <1>1, <1>3 DEF identifies
<1>5. CASE p = full /\ previewCiphertext(n, g) /\ payloadFits(n, full)
  <2>1. n.kind = "message" /\ ShowsPreview(g.privacy) /\ g.renders
    BY <1>5 DEF previewCiphertext
  <2>2. {"title", "body"} \subseteq p.data
    BY <1>5
  <2> QED BY <1>4, <1>5, <2>1, <2>2
<1>6. CASE p = plain
  <2>1. "ciphertext" \notin p.data /\ "groupIds" \notin p.data /\ "title" \notin p.data
    BY <1>6
  <2>2. p.title = displayName(n, g) /\ p.urgent = (n.kind # "message") /\ p.clientRendered = FALSE
    BY <1>6
  <2>3. payloadFits(n, p)
    BY <1>2, <2>1, <2>2, SizesFit DEF payloadFits, PayloadSize, PushPayloadAssumption
  <2>4. p.urgent => "callerName" \in p.data
    <3>1. p.data = who \cup call
      BY <1>6
    <3>2. n.kind # "message" => "callerName" \in call
      OBVIOUS
    <3> QED BY <2>2, <3>1, <3>2
  <2> QED BY <1>4, <2>1, <2>2, <2>3, <2>4 DEF TrayRendered
<1> QED BY <1>1, <1>5, <1>6

LEMMA VoipSays ==
    ASSUME PushPayloadAssumption, NEW n \in ChatNotification, NEW g, NEW p, p = voipPayloadFor(n, g)
    PROVE  /\ ShowsWho(p) => ShowsSender(g.privacy)
           /\ "ciphertext" \notin p.data /\ "callerName" \in p.data
           /\ payloadFits(n, p)
<1>1. p.data = {"kind", "callId", "callerName"} /\ p.title = displayName(n, g) /\ p.icon = FALSE
  BY DEF voipPayloadFor
<1>2. displayName(n, g) \in {"name", "fallback"} /\ (displayName(n, g) = "name" => identifies(g))
  BY DEF displayName
<1>3. ShowsWho(p) => ShowsSender(g.privacy)
  BY <1>1, <1>2 DEF ShowsWho, identifies
<1>4. payloadFits(n, p)
  BY <1>1, <1>2, SizesFit DEF payloadFits, PayloadSize, PushPayloadAssumption
<1> QED BY <1>1, <1>3, <1>4

\* What is sent to a phone of a group is what its owner lets be said.
LEMMA SentSays ==
    ASSUME PushPayloadAssumption, FanInv, NEW n \in ChatNotification, NEW d \in Phones,
           NEW k, k.renders \in BOOLEAN, k.renders => d \in Renderers,
           k.privacy = "generic" \/ \E s \in had[OwnerOf[d]] : k.privacy = Effective(s)
    PROVE  Says(n, PayloadFor(n, k, d), d, had[OwnerOf[d]])
<1>2. had[OwnerOf[d]] \subseteq Settings
  BY DEF FanInv, PushPayloadAssumption
<1>3. /\ ShowsSender(k.privacy) => \E s \in had[OwnerOf[d]] : ShowsSender(s)
      /\ ShowsPreview(k.privacy) => \E s \in had[OwnerOf[d]] : ShowsPreview(s)
  BY <1>2 DEF ShowsSender, ShowsPreview, Effective, Settings
<1>4. CASE route(n, d) = "none"
  BY <1>4 DEF PayloadFor, Says
<1>5. CASE route(n, d) = "voip"
  <2>1. PICK p : p = voipPayloadFor(n, k)
    OBVIOUS
  <2>2. PayloadFor(n, k, d) = [transport |-> "voip", payload |-> p]
    BY <1>5, <2>1 DEF PayloadFor
  <2>3. /\ ShowsWho(p) => ShowsSender(k.privacy)
        /\ "ciphertext" \notin p.data /\ "callerName" \in p.data /\ payloadFits(n, p)
    BY <2>1, VoipSays
  <2> QED BY <1>3, <2>2, <2>3 DEF Says
<1>6. CASE route(n, d) \notin {"none", "voip"}
  <2>1. PICK p : p = chatNotificationPayload(n, k)
    OBVIOUS
  <2>2. PayloadFor(n, k, d) = [transport |-> route(n, d), payload |-> p]
    BY <1>6, <2>1 DEF PayloadFor
  <2>3. /\ ShowsWho(p) => ShowsSender(k.privacy)
        /\ "ciphertext" \in p.data => ShowsPreview(k.privacy) /\ k.renders
        /\ payloadFits(n, p)
        /\ ~TrayRendered(p) => "callerName" \in p.data \/ {"title", "body"} \subseteq p.data
    BY <2>1, ChatSays
  <2> QED BY <1>3, <2>2, <2>3 DEF Says
<1> QED BY <1>4, <1>5, <1>6

LEMMA SentToGroup ==
    ASSUME PushPayloadAssumption, FanInv, NEW n \in ChatNotification, NEW d \in Phones,
           NEW g, KeyFits(g, d)
    PROVE  \A k : k = (IF n.kind = "message" THEN g ELSE [g EXCEPT !.renders = FALSE])
                     => Says(n, PayloadFor(n, k, d), d, had[OwnerOf[d]])
<1> DEFINE Fits(k) == /\ k.renders \in BOOLEAN /\ (k.renders => d \in Renderers)
                      /\ k.privacy = "generic" \/ \E s \in had[OwnerOf[d]] : k.privacy = Effective(s)
<1>0. g = [privacy |-> g.privacy, renders |-> g.renders] /\ Fits(g)
  BY DEF KeyFits
<1>1. PICK h : h = [g EXCEPT !.renders = FALSE]
  OBVIOUS
<1>2. h = [privacy |-> g.privacy, renders |-> FALSE]
  BY <1>0, <1>1
<1>3. h.privacy = g.privacy /\ h.renders = FALSE
  BY <1>2
<1>4. h.renders \in BOOLEAN /\ (h.renders => d \in Renderers)
  BY <1>3, Zenon
<1>5. Fits(h)
  BY <1>0, <1>3, <1>4
<1>6. ASSUME NEW k, Fits(k) PROVE Says(n, PayloadFor(n, k, d), d, had[OwnerOf[d]])
  BY <1>6, SentSays
<1>7. Says(n, PayloadFor(n, g, d), d, had[OwnerOf[d]]) /\ Says(n, PayloadFor(n, h, d), d, had[OwnerOf[d]])
  BY <1>0, <1>5, <1>6
<1> QED BY <1>1, <1>7

LEMMA SplitFits ==
    ASSUME PushPayloadAssumption, FanInv, fan.pc # "idle", \A d \in Phones : sends[d] = 0, NEW loaded,
           NEW todo, todo = devicesByPrivacy(loaded)
    PROVE  /\ \A g \in todo : \A d \in g.devices : d \in Phones /\ KeyFits(g.key, d)
           /\ \A g, h \in todo : \A d \in g.devices : d \in h.devices => g = h
           /\ \A d \in Phones : \E g \in todo : d \in g.devices
<1> DEFINE Key(d) ==
        [privacy |-> IF OwnerOf[d] \in loaded THEN Effective(setting[OwnerOf[d]]) ELSE "generic",
         renders |-> d \in Renderers]
           Group(d) == [key |-> Key(d), devices |-> {e \in Phones : Key(e) = Key(d)}]
<1>1. todo = {Group(d) : d \in Phones}
  BY DEF devicesByPrivacy
<1>2. ASSUME NEW d \in Phones, NEW e \in Group(d).devices
      PROVE  e \in Phones /\ Key(e) = Key(d) /\ Group(d).key = Key(d)
  BY <1>2
<1>3. ASSUME NEW d \in Phones PROVE KeyFits(Key(d), d)
  <2>1. Key(d) = [privacy |-> Key(d).privacy, renders |-> Key(d).renders]
    OBVIOUS
  <2>2. Key(d).privacy = IF OwnerOf[d] \in loaded THEN Effective(setting[OwnerOf[d]]) ELSE "generic"
    OBVIOUS
  <2>3. Key(d).renders = (d \in Renderers)
    OBVIOUS
  <2> HIDE DEF Key
  <2>4. Key(d).renders \in BOOLEAN /\ (Key(d).renders => d \in Renderers)
    <3>1. CASE d \in Renderers
      BY <2>3, <3>1
    <3>2. CASE d \notin Renderers
      <4>1. (d \in Renderers) = FALSE
        BY <3>2
      <4>2. Key(d).renders = FALSE
        BY <2>3, <4>1, Zenon
      <4> QED BY <4>2, Zenon
    <3> QED BY <3>1, <3>2
  <2>5. setting[OwnerOf[d]] \in had[OwnerOf[d]]
    BY <1>3 DEF FanInv, PushPayloadAssumption
  <2> QED BY <2>1, <2>2, <2>4, <2>5 DEF KeyFits
<1>4. \A d \in Phones : d \in Group(d).devices
  OBVIOUS
<1>5. ASSUME NEW d \in Phones, NEW e \in Phones, Key(d) = Key(e) PROVE Group(d) = Group(e)
  BY <1>5
<1> HIDE DEF Key, Group
<1>6. \A g \in todo : \A d \in g.devices : d \in Phones /\ KeyFits(g.key, d)
  BY <1>1, <1>2, <1>3
<1>7. \A g, h \in todo : \A d \in g.devices : d \in h.devices => g = h
  BY <1>1, <1>2, <1>5
<1>8. \A d \in Phones : \E g \in todo : d \in g.devices
  BY <1>1, <1>4
<1> QED BY <1>6, <1>7, <1>8

LEMMA PayloadInduction ==
    ASSUME PushPayloadAssumption, PayloadInv, [PpNext]_ppVars
    PROVE  PayloadInv'
<1>1. ASSUME NEW u \in Recipients, NEW s \in Settings, SetPrivacy(u, s) PROVE PayloadInv'
  <2>1. /\ setting' \in [Recipients -> Settings] /\ had' \in [Recipients -> SUBSET Settings]
        /\ \A v \in Recipients : had[v] \subseteq had'[v]
        /\ fan.pc # "idle" => \A v \in Recipients : setting'[v] \in had'[v]
    BY <1>1 DEF SetPrivacy, PayloadInv, FanInv
  <2>2. fan' = fan /\ told' = told /\ sends' = sends
    BY <1>1 DEF SetPrivacy
  <2>3. FanInv'
    BY <2>1, <2>2 DEF PayloadInv, FanInv
  <2>4. \A d \in Phones : had[OwnerOf[d]] \subseteq had'[OwnerOf[d]]
    BY <2>1 DEF PushPayloadAssumption
  <2>5. \A key : \A d \in Phones : KeyFits(key, d) => KeyFits(key, d)'
    BY <2>4 DEF KeyFits
  <2>6. GroupsInv'
    BY <2>2, <2>5 DEF PayloadInv, GroupsInv
  <2>7. SaysInv'
    BY <2>2, <2>4 DEF PayloadInv, SaysInv, Says
  <2> QED BY <2>3, <2>6, <2>7 DEF PayloadInv
<1>2. ASSUME NEW n \in ChatNotification, deliverPush(n) PROVE PayloadInv'
  <2>1. /\ fan.pc = "idle" /\ fan'.pc = "users" /\ fan'.note = n
        /\ had' = [u \in Recipients |-> {setting[u]}]
        /\ setting' = setting /\ told' = told /\ sends' = sends
    BY <1>2 DEF deliverPush
  <2>2. FanInv'
    BY <2>1 DEF PayloadInv, FanInv
  <2>3. SaysInv'
    BY <2>1 DEF PayloadInv, FanInv, SaysInv, Says
  <2>4. GroupsInv'
    BY <2>1 DEF GroupsInv
  <2> QED BY <2>2, <2>3, <2>4 DEF PayloadInv
<1>3. ASSUME NEW loaded, UsersByIDs(loaded) PROVE PayloadInv'
  <2>1. PICK todo : todo = devicesByPrivacy(loaded)
    OBVIOUS
  <2>2. /\ fan.pc = "users" /\ fan' = [pc |-> "send", note |-> fan.note, todo |-> todo]
        /\ setting' = setting /\ told' = told /\ sends' = sends /\ had' = had
    BY <1>3, <2>1 DEF UsersByIDs
  <2>3. /\ \A g \in todo : \A d \in g.devices : d \in Phones /\ KeyFits(g.key, d)
        /\ \A g, h \in todo : \A d \in g.devices : d \in h.devices => g = h
        /\ \A d \in Phones : \E g \in todo : d \in g.devices
    BY <2>1, <2>2, SplitFits DEF PayloadInv, FanInv
  <2>4. \A key, d : KeyFits(key, d) => KeyFits(key, d)'
    BY <2>2 DEF KeyFits
  <2>5. FanInv'
    BY <2>2 DEF PayloadInv, FanInv
  <2>6. GroupsInv'
    BY <2>2, <2>3, <2>4 DEF PayloadInv, FanInv, GroupsInv
  <2>7. SaysInv'
    BY <2>2 DEF PayloadInv, FanInv, SaysInv, Says
  <2> QED BY <2>5, <2>6, <2>7 DEF PayloadInv
<1>4. ASSUME fan.pc = "send", NEW group \in fan.todo, NEW gone, SendGroup(group, gone) PROVE PayloadInv'
  <2>1. PICK n, todo, k : /\ n = fan.note /\ todo = fan.todo
                          /\ k = IF n.kind = "message" THEN group.key ELSE [group.key EXCEPT !.renders = FALSE]
    OBVIOUS
  <2>2. /\ told' = [d \in Phones |-> IF d \in group.devices THEN PayloadFor(n, k, d) ELSE told[d]]
        /\ sends' = [d \in Phones |-> IF d \in group.devices THEN sends[d] + 1 ELSE sends[d]]
        /\ setting' = setting /\ had' = had
    BY <1>4, <2>1 DEF SendGroup
  <2>3. fan' = [pc |-> IF todo = {group} THEN "done" ELSE "send", note |-> n, todo |-> todo \ {group}]
    BY <1>4, <2>1 DEF SendGroup, PayloadInv, GroupsInv
  <2>4. /\ n \in ChatNotification /\ group \in todo
        /\ \A g \in todo : \A d \in g.devices : d \in Phones /\ KeyFits(g.key, d)
        /\ \A g, h \in todo : \A d \in g.devices : d \in h.devices => g = h
        /\ \A d \in Phones : sends[d] = IF \E g \in todo : d \in g.devices THEN 0 ELSE 1
    BY <1>4, <2>1 DEF PayloadInv, FanInv, GroupsInv
  <2>5. FanInv'
    BY <1>4, <2>1, <2>2, <2>3 DEF PayloadInv, FanInv
  <2>6. \A d \in Phones : sends'[d] = IF \E g \in todo \ {group} : d \in g.devices THEN 0 ELSE 1
    BY <2>2, <2>4
  <2>7. \A key, d : KeyFits(key, d) => KeyFits(key, d)'
    BY <2>2 DEF KeyFits
  <2>8. GroupsInv'
    BY <2>3, <2>4, <2>6, <2>7 DEF GroupsInv
  <2>9. SaysInv'
    <3>1. SUFFICES ASSUME NEW d \in Phones PROVE Says(n, told'[d], d, had[OwnerOf[d]])
      BY <2>2, <2>3 DEF SaysInv
    <3>2. CASE d \in group.devices
      BY <2>1, <2>2, <2>4, <3>2, SentToGroup DEF PayloadInv
    <3>3. CASE d \notin group.devices
      BY <2>1, <2>2, <3>3 DEF PayloadInv, SaysInv
    <3> QED BY <3>2, <3>3
  <2> QED BY <2>5, <2>8, <2>9 DEF PayloadInv
<1>5. CASE UNCHANGED ppVars
  BY <1>5 DEF ppVars, PayloadInv, FanInv, GroupsInv, SaysInv, Says, KeyFits
<1> QED BY <1>1, <1>2, <1>3, <1>4, <1>5 DEF PpNext

\* Whatever a recipient changes while a push is on its way, and whatever lookup fails, a phone is
\* told who writes, or handed ciphertext, only as its owner let it since the fan-out began; no
\* payload is too heavy; one the tray will not draw brings what there is to draw; each phone is
\* sent to once (devicesByPrivacy, chatNotificationPayload, voipPayloadFor).
THEOREM OnlyWhatWasAsked == ASSUME PushPayloadAssumption PROVE PpSpec => []PushSaysNoMore
<1>1. PpInit => PayloadInv
  BY DEF PpInit, PayloadInv, FanInv, GroupsInv, SaysInv, Says
<1>2. PayloadInv /\ [PpNext]_ppVars => PayloadInv'
  BY PayloadInduction
<1>3. PayloadInv => PushSaysNoMore
  BY DEF PayloadInv, GroupsInv, SaysInv, Says, PushSaysNoMore
<1> QED BY <1>1, <1>2, <1>3, PTL DEF PpSpec

(***************************************************************************)
(* Pages of a transcript                                                   *)
(***************************************************************************)
PostRow == [pc : {"new", "stamped", "numbered", "stored", "deleted"},
            at : Nat, seq : Nat, protocol : BOOLEAN]

PgTypes ==
    /\ feed \in {"chat", "channel"} /\ pgStore \in {"mongo", "memory"}
    /\ millis \in Nat /\ numbers \in Nat /\ clearedAt \in Nat
    /\ post \in [Posts -> PostRow]
    /\ walk \in [pc : {"idle", "walking", "done"}, cursor : Posts \cup {NoCursor}, read : SUBSET Posts]
    /\ due \subseteq Posts /\ lostAnchor \in BOOLEAN

\* Every post has a time, a chat loses none, and no two posts of a chat have one number.
PostInv ==
    /\ millis > 0 /\ \A p \in Posts : post[p].pc # "new" => post[p].at > 0
    /\ feed = "channel" => clearedAt = 0 /\ \A p \in Posts : ~post[p].protocol
    /\ feed = "chat" => \A p \in Posts : post[p].pc # "deleted"
    /\ feed = "chat" => \A p \in Posts : post[p].pc \in {"numbered", "stored"} => post[p].seq <= numbers
    /\ feed = "chat" => \A p, q \in Posts :
          /\ {post[p].pc, post[q].pc} \subseteq {"numbered", "stored"}
          /\ post[p].seq = post[q].seq
          => p = q

Appeared(p) == post[p].pc \in {"stored", "deleted"}

\* What was due is read, or lies beyond the cursor, or shares its time with another post.
Accounted ==
    \A p \in due \cap Transcript :
        \/ p \in walk.read \/ (walk.pc = "walking" /\ Older(p, walk.cursor))
        \/ (feed = "channel" /\ ~Alone(p))

\* A cursor is a post that was on a page; a chat's walk has read nothing beyond it.
WalkInv ==
    /\ walk.pc = "walking" <=> walk.cursor # NoCursor
    /\ walk.pc = "idle" => walk.read = {} /\ due = {}
    /\ \A p \in due : Appeared(p)
    /\ walk.pc = "walking" =>
          /\ Appeared(walk.cursor) /\ ~post[walk.cursor].protocol
          /\ post[walk.cursor].pc = "deleted" => lostAnchor
    /\ feed = "chat" => twice = {} /\ ~lostAnchor /\ walk.read \subseteq Stored
    /\ feed = "chat" /\ walk.pc = "walking" => \A r \in walk.read : ~Older(r, walk.cursor)
    /\ ~lostAnchor => Accounted

PgInv == PgTypes /\ PostInv /\ WalkInv

\* What a page of a walk holds once posts are written: those that appeared keep time and number.
PostsKept ==
    /\ post' \in [Posts -> PostRow]
    /\ \A p \in Posts : post[p].pc # "new" => post'[p].pc # "new" /\ post'[p].at = post[p].at
    /\ \A p \in Posts : Appeared(p) =>
          /\ post'[p].seq = post[p].seq /\ post'[p].protocol = post[p].protocol
          /\ post'[p].pc \in {post[p].pc, "deleted"}

LEMMA WalkKept ==
    ASSUME PagingAssumption, PgInv, PostsKept, feed' = feed, walk' = walk, due' = due, twice' = twice,
           clearedAt' \in Nat, clearedAt' >= clearedAt, lostAnchor' \in BOOLEAN, lostAnchor => lostAnchor',
           feed = "chat" => ~lostAnchor' /\ \A p \in Posts : post'[p].pc # "deleted",
           walk.pc = "walking" /\ post'[walk.cursor].pc = "deleted" => lostAnchor'
    PROVE  WalkInv'
<1>1. \A p \in Posts : Appeared(p) => Appeared(p)'
  BY DEF PostsKept, Appeared
<1>2. \A p, q \in Posts : Appeared(p) /\ Appeared(q) => (Older(p, q)' <=> Older(p, q))
  <2>1. SUFFICES ASSUME NEW p \in Posts, NEW q \in Posts, Appeared(p), Appeared(q)
                 PROVE  Older(p, q)' <=> Older(p, q)
    OBVIOUS
  <2>2. /\ post'[p].at = post[p].at /\ post'[q].at = post[q].at
        /\ post'[p].seq = post[p].seq /\ post'[q].seq = post[q].seq
    BY <2>1 DEF PostsKept, Appeared
  <2> QED BY <2>2 DEF Older, ChatOlder, OlderByTime
<1>3. \A p \in Posts : Appeared(p) /\ p \in Transcript' => p \in Transcript
  BY DEF PostsKept, Appeared, Transcript, Stored, PgInv, PgTypes, PostRow
<1>4. \A p \in Posts : Appeared(p) /\ ~Alone(p) => ~Alone(p)'
  BY DEF PostsKept, Appeared, Alone
<1>5. walk.pc = "walking" => walk.cursor \in Posts /\ Appeared(walk.cursor)
  BY DEF PgInv, PgTypes, PostRow, WalkInv
<1>6. due \subseteq Posts /\ \A p \in due : Appeared(p)
  BY DEF PgInv, PgTypes, PostRow, WalkInv
<1>7. ~lostAnchor' => Accounted'
  BY <1>2, <1>3, <1>4, <1>5, <1>6 DEF PgInv, WalkInv, Accounted
<1>8. feed = "chat" => walk.read \subseteq Stored /\ walk.read \subseteq Stored'
  BY DEF PgInv, PgTypes, PostRow, WalkInv, PostsKept, Stored, Appeared
<1>9. feed = "chat" /\ walk.pc = "walking" => \A r \in walk.read : ~Older(r, walk.cursor)'
  BY <1>2, <1>5, <1>8 DEF PgInv, WalkInv, Stored, Appeared
<1>10. walk.pc = "walking" => ~post'[walk.cursor].protocol
  BY <1>5 DEF PgInv, WalkInv, PostsKept
<1> QED BY <1>1, <1>5, <1>6, <1>7, <1>8, <1>9, <1>10 DEF PgInv, WalkInv

\* A page is cut from what lies beyond the cursor: all of it on the last page, and otherwise
\* nothing that is left out is newer than the page's oldest, the next cursor.
LEMMA PageCut ==
    ASSUME PagingAssumption, NEW s, s \subseteq Posts, NEW page \in Newest(s, Limit),
           NEW next \in NextCursor(page)
    PROVE  /\ page \subseteq s
           /\ next = NoCursor => page = s
           /\ next # NoCursor =>
                 /\ next \in page /\ \A q \in page : ~Older(q, next)
                 /\ \A q \in s \ page : ~Older(next, q)
<1>1. /\ page \subseteq s /\ \A p \in page, q \in s \ page : ~Older(p, q)
      /\ Cardinality(page) = IF Cardinality(s) < Limit THEN Cardinality(s) ELSE Limit
  BY DEF Newest
<1>2. IsFiniteSet(s)
  BY FS_Subset DEF PagingAssumption
<1>3. CASE Cardinality(page) = Limit
  <2>1. next \in page /\ \A q \in page : ~Older(q, next)
    BY <1>3 DEF NextCursor
  <2>2. next # NoCursor
    BY <1>1, <2>1 DEF PagingAssumption
  <2> QED BY <1>1, <2>1, <2>2
<1>4. CASE Cardinality(page) # Limit
  <2>1. next = NoCursor
    BY <1>4 DEF NextCursor
  <2>2. Cardinality(page) = Cardinality(s)
    BY <1>1, <1>4
  <2>3. page = s
    BY <1>1, <1>2, <2>2, FS_Subset
  <2> QED BY <1>1, <2>1, <2>3
<1> QED BY <1>3, <1>4

\* The order of a chat is total; in a channel, two posts neither of which is older share a time.
LEMMA OrderIsTotal ==
    ASSUME PgTypes, PostInv, NEW p \in Stored, NEW q \in Stored, p # q, ~Older(p, q), ~Older(q, p)
    PROVE  feed = "channel" /\ ~Alone(p)
<1>1. p \in Posts /\ q \in Posts /\ post[p].pc = "stored" /\ post[q].pc = "stored"
  BY DEF Stored
<1>2. /\ post[p].at \in Nat /\ post[q].at \in Nat /\ post[p].seq \in Nat /\ post[q].seq \in Nat
  BY <1>1 DEF PgTypes, PostRow
<1>3. feed # "chat"
  <2>1. SUFFICES ASSUME feed = "chat" PROVE FALSE
    OBVIOUS
  <2>2. post[p].at = post[q].at /\ post[p].seq = post[q].seq
    BY <1>2, <2>1 DEF Older, ChatOlder, OlderByTime
  <2> QED BY <1>1, <2>1, <2>2 DEF PostInv
<1>4. feed = "channel"
  BY <1>3 DEF PgTypes, PostRow
<1>5. post[p].at = post[q].at
  BY <1>2, <1>3 DEF Older, OlderByTime
<1> QED BY <1>1, <1>4, <1>5 DEF Alone

LEMMA OlderIsStrict ==
    ASSUME PgTypes, NEW p \in Posts, NEW q \in Posts, Older(p, q)
    PROVE  ~Older(q, p) /\ p # q
<1>1. /\ post[p].at \in Nat /\ post[q].at \in Nat /\ post[p].seq \in Nat /\ post[q].seq \in Nat
  BY DEF PgTypes, PostRow
<1> QED BY <1>1 DEF Older, ChatOlder, OlderByTime

LEMMA OlderIsTransitive ==
    ASSUME PgTypes, NEW p \in Posts, NEW q \in Posts, NEW r \in Posts, ~Older(p, q), Older(r, q)
    PROVE  Older(r, p)
<1>1. /\ post[p].at \in Nat /\ post[q].at \in Nat /\ post[r].at \in Nat
      /\ post[p].seq \in Nat /\ post[q].seq \in Nat /\ post[r].seq \in Nat
  BY DEF PgTypes, PostRow
<1> QED BY <1>1 DEF Older, ChatOlder, OlderByTime

\* Where a walk goes on.  Everything older than the cursor that is still in the transcript is
\* beyond it, and in a chat nothing else is.
LEMMA BeyondIsOlder ==
    ASSUME PagingAssumption, PgInv, walk.pc = "walking", NEW s \in Beyond(walk.cursor)
    PROVE  /\ s \subseteq Transcript
           /\ ~lostAnchor => \A p \in Transcript : Older(p, walk.cursor) => p \in s
           /\ feed = "chat" => \A p \in s : Older(p, walk.cursor)
<1>1. PICK c \in Posts : c = walk.cursor
  BY DEF PgInv, PgTypes, PostRow, WalkInv
<1>2. /\ c # NoCursor /\ Appeared(c) /\ ~post[c].protocol /\ (post[c].pc = "deleted" => lostAnchor)
      /\ (feed = "chat" => ~lostAnchor)
  BY <1>1 DEF PgInv, WalkInv
<1>3. CASE pgStore = "mongo"
  <2>1. s \in MongoBeyond(c)
    BY <1>1, <1>3 DEF Beyond
  <2>2. CASE post[c].pc = "deleted"
    BY <1>1, <1>2, <2>1, <2>2 DEF MongoBeyond
  <2>3. CASE post[c].pc # "deleted"
    BY <1>1, <1>2, <2>1, <2>3 DEF MongoBeyond
  <2> QED BY <2>2, <2>3
<1>4. CASE pgStore # "mongo"
  <2>1. s \in MemoryBeyond(c)
    BY <1>1, <1>4 DEF Beyond
  <2>2. CASE c \notin Transcript
    <3>1. s = {}
      BY <1>2, <2>1, <2>2 DEF MemoryBeyond
    <3>2. ASSUME ~lostAnchor, NEW p \in Transcript, Older(p, c) PROVE FALSE
      <4>1. post[c].pc = "stored"
        BY <1>2, <3>2 DEF Appeared
      <4>2. post[c].at \in Nat /\ clearedAt \in Nat /\ post[c].at <= clearedAt
        BY <1>1, <1>2, <2>2, <4>1 DEF Transcript, Stored, PgInv, PgTypes, PostRow
      <4>3. p \in Posts /\ post[p].at \in Nat /\ post[p].at > clearedAt
        BY <3>2 DEF Transcript, Stored, PgInv, PgTypes, PostRow
      <4> QED BY <3>2, <4>2, <4>3 DEF Older, ChatOlder, OlderByTime
    <3> QED BY <1>1, <3>1, <3>2
  <2>3. CASE c \in Transcript
    <3>1. PICK ties : /\ s = {p \in Transcript : Older(p, c)} \cup ties
                      /\ ties \subseteq {p \in Transcript \ {c} : ~Older(p, c) /\ ~Older(c, p)}
      BY <1>2, <2>1, <2>3 DEF MemoryBeyond
    <3>2. s \subseteq Transcript /\ \A p \in Transcript : Older(p, c) => p \in s
      BY <3>1
    <3>3. feed = "chat" => ties = {}
      <4>1. SUFFICES ASSUME feed = "chat", NEW p \in ties PROVE FALSE
        OBVIOUS
      <4>2. p \in Stored /\ c \in Stored /\ p # c /\ ~Older(p, c) /\ ~Older(c, p)
        BY <2>3, <3>1 DEF Transcript
      <4> QED BY <4>1, <4>2, OrderIsTotal DEF PgInv
    <3> QED BY <1>1, <3>1, <3>2, <3>3
  <2> QED BY <2>2, <2>3
<1> QED BY <1>3, <1>4

LEMMA PostsUnchanged ==
    ASSUME PagingAssumption, PgInv, post' = post PROVE PostsKept
  BY DEF PostsKept, PgInv, PgTypes, PostRow

\* One page of a walk.
LEMMA PageRead ==
    ASSUME PagingAssumption, PgInv, listMessages
    PROVE  PgInv'
<1>1. /\ walk.pc # "done" /\ due' = IF walk.pc = "idle" THEN Transcript ELSE due
      /\ feed' = feed /\ pgStore' = pgStore /\ millis' = millis /\ post' = post /\ numbers' = numbers
      /\ clearedAt' = clearedAt /\ lostAnchor' = lostAnchor
  BY DEF listMessages
<1>2. PICK s \in Beyond(walk.cursor) : \E page \in Newest(s, Limit) :
          \E next \in NextCursor(page) : Answer(page, next)
  BY DEF listMessages
<1>3. PICK page \in Newest(s, Limit) : \E next \in NextCursor(page) : Answer(page, next)
  BY <1>2
<1>4. PICK next \in NextCursor(page) : Answer(page, next)
  BY <1>3
<1>5. /\ walk' = [pc |-> IF next = NoCursor THEN "done" ELSE "walking", cursor |-> next,
                  read |-> walk.read \cup page]
      /\ twice' = twice \cup (walk.read \cap page)
  BY <1>4 DEF Answer
<1>6. walk.pc = "idle" => s = Transcript /\ walk.cursor = NoCursor
  BY <1>2 DEF Beyond, MongoBeyond, MemoryBeyond, PgInv, WalkInv, PgTypes, PostRow
<1>7. walk.pc \in {"idle", "walking"} /\ walk.read \subseteq Posts /\ due \subseteq Posts
  BY <1>1 DEF PgInv, PgTypes, PostRow
<1>8. s \subseteq Transcript /\ Transcript \subseteq Stored /\ Stored \subseteq Posts
  BY <1>6, <1>7, BeyondIsOlder DEF Transcript, Stored
<1>9. /\ page \subseteq s
      /\ next = NoCursor => page = s
      /\ next # NoCursor =>
            /\ next \in page /\ \A q \in page : ~Older(q, next)
            /\ \A q \in s \ page : ~Older(next, q)
  BY <1>8, PageCut
<1>10. page \subseteq Stored /\ page \subseteq Posts /\ \A p \in page : ~post[p].protocol
  BY <1>8, <1>9 DEF Transcript
<1>11. Stored' = Stored /\ Transcript' = Transcript
  BY <1>1 DEF Stored, Transcript
<1>12. \A p, q : Older(p, q)' <=> Older(p, q)
  BY <1>1 DEF Older, ChatOlder, OlderByTime
<1>13. \A p : (Appeared(p)' <=> Appeared(p)) /\ (Alone(p)' <=> Alone(p))
  BY <1>1 DEF Appeared, Alone
<1>14. PgTypes' /\ PostInv'
  <2>1. walk' \in [pc : {"idle", "walking", "done"}, cursor : Posts \cup {NoCursor}, read : SUBSET Posts]
    BY <1>5, <1>7, <1>9, <1>10
  <2>2. due' \subseteq Posts
    BY <1>1, <1>7, <1>8
  <2> QED BY <1>1, <2>1, <2>2 DEF PgInv, PgTypes, PostRow, PostInv
<1>15. feed = "chat" =>
          /\ ~lostAnchor /\ walk.read \subseteq Stored
          /\ walk.read \cap page = {}
          /\ next # NoCursor => \A r \in walk.read : ~Older(r, next)
  <2>1. SUFFICES ASSUME feed = "chat"
                 PROVE  /\ walk.read \cap page = {}
                        /\ next # NoCursor => \A r \in walk.read : ~Older(r, next)
    BY DEF PgInv, WalkInv
  <2>2. CASE walk.pc = "idle"
    BY <2>2 DEF PgInv, WalkInv
  <2>3. CASE walk.pc = "walking"
    <3>1. \A p \in s : Older(p, walk.cursor)
      BY <2>1, <2>3, BeyondIsOlder
    <3>2. \A r \in walk.read : ~Older(r, walk.cursor)
      BY <2>1, <2>3 DEF PgInv, WalkInv
    <3>3. walk.read \cap page = {}
      BY <1>9, <3>1, <3>2
    <3>4. walk.cursor \in Posts
      BY <2>3 DEF PgInv, PgTypes, PostRow, WalkInv
    <3>5. ASSUME next # NoCursor, NEW r \in walk.read PROVE ~Older(r, next)
      <4>1. next \in Posts /\ Older(next, walk.cursor) /\ ~Older(r, walk.cursor)
        BY <1>9, <1>10, <3>1, <3>2, <3>5
      <4>2. Older(next, r)
        BY <1>7, <3>4, <4>1, OlderIsTransitive DEF PgInv
      <4> QED BY <1>7, <4>1, <4>2, OlderIsStrict DEF PgInv
    <3> QED BY <3>3, <3>5
  <2> QED BY <1>7, <2>2, <2>3
<1>16. ASSUME ~lostAnchor, NEW p \in due', p \in Transcript,
              p \notin walk.read \cup page, ~(feed = "channel" /\ ~Alone(p))
       PROVE  next # NoCursor /\ Older(p, next)
  <2>1. p \in s
    <3>1. CASE walk.pc = "idle"
      BY <1>6, <1>16, <3>1
    <3>2. CASE walk.pc = "walking"
      <4>1. p \in due
        BY <1>1, <1>16, <3>2
      <4>2. Older(p, walk.cursor)
        BY <1>16, <4>1 DEF PgInv, WalkInv, Accounted
      <4> QED BY <1>16, <3>2, <4>2, BeyondIsOlder
    <3> QED BY <1>7, <3>1, <3>2
  <2>2. next # NoCursor /\ next \in page /\ ~Older(next, p)
    BY <1>9, <1>16, <2>1
  <2>3. p \in Stored /\ next \in Stored /\ p # next
    BY <1>8, <1>10, <1>16, <2>1, <2>2
  <2> QED BY <1>16, <2>2, <2>3, OrderIsTotal DEF PgInv
<1>17. ~lostAnchor' => Accounted'
  <2>1. SUFFICES ASSUME ~lostAnchor, NEW p \in due', p \in Transcript
                 PROVE  \/ p \in walk.read \cup page \/ (next # NoCursor /\ Older(p, next))
                        \/ (feed = "channel" /\ ~Alone(p))
    BY <1>1, <1>5, <1>11, <1>12, <1>13 DEF Accounted
  <2> QED BY <1>16, <2>1
<1>18. next # NoCursor => Appeared(next) /\ ~post[next].protocol /\ post[next].pc # "deleted"
  BY <1>9, <1>10 DEF Appeared, Stored
<1>19. \A p \in due' : Appeared(p)
  BY <1>1, <1>7, <1>8 DEF PgInv, WalkInv, Appeared, Stored
<1>20. WalkInv'
  <2>1. /\ walk'.pc = "walking" <=> walk'.cursor # NoCursor
        /\ walk'.pc # "idle"
    BY <1>5
  <2>2. \A p \in due' : Appeared(p)'
    BY <1>13, <1>19
  <2>3. walk'.pc = "walking" =>
          /\ Appeared(walk.cursor)' /\ ~post'[walk'.cursor].protocol
          /\ post'[walk'.cursor].pc = "deleted" => lostAnchor'
    BY <1>1, <1>5, <1>13, <1>18
  <2>4. feed' = "chat" => twice' = {} /\ ~lostAnchor' /\ walk'.read \subseteq Stored'
    BY <1>1, <1>5, <1>10, <1>11, <1>15 DEF PgInv, WalkInv
  <2>5. feed' = "chat" /\ walk'.pc = "walking" => \A r \in walk'.read : ~Older(r, walk.cursor)'
    BY <1>1, <1>5, <1>9, <1>12, <1>15
  <2> QED BY <1>17, <2>1, <2>2, <2>3, <2>4, <2>5 DEF WalkInv
<1> QED BY <1>14, <1>20 DEF PgInv

\* A window around a message: due is empty, so it only has to leave a cursor that is a post.
LEMMA WindowRead ==
    ASSUME PagingAssumption, PgInv, NEW c \in Posts, listAround(c)
    PROVE  PgInv'
<1>1. /\ feed = "channel" /\ walk.pc = "idle" /\ c \in Transcript /\ due' = {}
      /\ feed' = feed /\ pgStore' = pgStore /\ millis' = millis /\ post' = post /\ numbers' = numbers
      /\ clearedAt' = clearedAt /\ lostAnchor' = lostAnchor
  BY DEF listAround
<1>2. PICK page \in MongoAround(c) : \E next \in NextCursor(page) : Answer(page, next)
  BY DEF listAround
<1>3. PICK next \in NextCursor(page) : Answer(page, next)
  BY <1>2
<1>4. walk' = [pc |-> IF next = NoCursor THEN "done" ELSE "walking", cursor |-> next,
               read |-> walk.read \cup page]
  BY <1>3 DEF Answer
<1>5. page \subseteq Transcript
  <2>1. PICK newer, older : /\ newer = {p \in Transcript : OlderByTime(c, p)}
                            /\ older = {p \in Transcript : OlderByTime(p, c)}
    OBVIOUS
  <2>2. PICK a \in Oldest(newer, Half) : \E b \in Newest(older, Half) : page = {c} \cup a \cup b
    BY <1>2, <2>1 DEF MongoAround
  <2>3. PICK b \in Newest(older, Half) : page = {c} \cup a \cup b
    BY <2>2
  <2>4. a \subseteq newer /\ b \subseteq older
    BY <2>2, <2>3 DEF Oldest, Newest
  <2> QED BY <1>1, <2>1, <2>3, <2>4
<1>6. next # NoCursor => next \in page
  BY <1>3 DEF NextCursor
<1>7. page \subseteq Posts /\ \A p \in page : post[p].pc = "stored" /\ ~post[p].protocol
  BY <1>5 DEF Transcript, Stored
<1>8. walk' \in [pc : {"idle", "walking", "done"}, cursor : Posts \cup {NoCursor}, read : SUBSET Posts]
  BY <1>4, <1>6, <1>7 DEF PgInv, PgTypes, PostRow
<1>9. PgTypes' /\ PostInv'
  BY <1>1, <1>8 DEF PgInv, PgTypes, PostRow, PostInv
<1>10. WalkInv'
  <2>1. /\ walk'.pc = "walking" <=> walk'.cursor # NoCursor
        /\ walk'.pc # "idle"
    BY <1>4
  <2>2. walk'.pc = "walking" =>
          /\ Appeared(walk.cursor)' /\ ~post'[walk'.cursor].protocol
          /\ post'[walk'.cursor].pc # "deleted"
    BY <1>1, <1>4, <1>6, <1>7 DEF Appeared
  <2> QED BY <1>1, <2>1, <2>2 DEF WalkInv, Accounted
<1> QED BY <1>9, <1>10 DEF PgInv

\* Writing a post.
LEMMA PostWritten ==
    ASSUME PagingAssumption, PgInv, NEW p \in Posts, NEW protocol \in BOOLEAN,
           Stamp(p, protocol) \/ TakeSeq(p) \/ StoreNumbered(p) \/ StoreStamped(p)
    PROVE  PgInv'
<1>1. /\ feed' = feed /\ pgStore' = pgStore /\ millis' = millis /\ clearedAt' = clearedAt
      /\ walk' = walk /\ due' = due /\ twice' = twice /\ lostAnchor' = lostAnchor
  BY DEF Stamp, TakeSeq, StoreNumbered, StoreStamped, pgGhosts
<1>2. PICK r \in PostRow : r = post[p]
  BY DEF PgInv, PgTypes, PostRow
<1>3. PICK w \in PostRow :
        /\ post' = [post EXCEPT ![p] = w]
        /\ \/ /\ r.pc = "new" /\ w.pc = "stamped" /\ w.at = millis /\ (w.protocol => feed = "chat")
              /\ numbers' = numbers
           \/ /\ r.pc = "numbered" /\ w.pc = "stored" /\ numbers' = numbers
              /\ w.at = r.at /\ w.seq = r.seq /\ w.protocol = r.protocol
           \/ /\ r.pc = "stamped" /\ w.pc \in {"numbered", "stored"}
              /\ w.at = r.at /\ w.protocol = r.protocol
              /\ numbers' \in Nat
              /\ feed = "chat" => numbers' = numbers + 1 /\ w.seq = numbers + 1
  <2>1. numbers \in Nat /\ numbers + 1 \in Nat /\ millis \in Nat
    BY DEF PgInv, PgTypes, PostRow
  <2>2. CASE Stamp(p, protocol)
    <3>1. PICK w : w = [r EXCEPT !.pc = "stamped", !.at = millis, !.protocol = protocol]
      OBVIOUS
    <3>2. post' = [post EXCEPT ![p] = w] /\ r.pc = "new" /\ numbers' = numbers /\ (protocol => feed = "chat")
      BY <1>2, <2>2, <3>1 DEF Stamp
    <3>3. w \in PostRow /\ w.pc = "stamped" /\ w.at = millis /\ w.protocol = protocol
      BY <1>2, <2>1, <3>1, <3>2 DEF PostRow
    <3> QED BY <2>1, <3>2, <3>3
  <2>3. CASE TakeSeq(p)
    <3>1. PICK w : w = [r EXCEPT !.pc = "numbered", !.seq = numbers + 1]
      OBVIOUS
    <3>2. post' = [post EXCEPT ![p] = w] /\ r.pc = "stamped" /\ numbers' = numbers + 1
      BY <1>2, <2>3, <3>1 DEF TakeSeq
    <3>3. w \in PostRow /\ w.pc = "numbered" /\ w.at = r.at /\ w.protocol = r.protocol /\ w.seq = numbers + 1
      BY <1>2, <2>1, <3>1, <3>2 DEF PostRow
    <3> QED BY <2>1, <3>2, <3>3
  <2>4. CASE StoreNumbered(p)
    <3>1. PICK w : w = [r EXCEPT !.pc = "stored"]
      OBVIOUS
    <3>2. post' = [post EXCEPT ![p] = w] /\ r.pc = "numbered" /\ numbers' = numbers
      BY <1>2, <2>4, <3>1 DEF StoreNumbered
    <3>3. w \in PostRow /\ w.pc = "stored" /\ w.at = r.at /\ w.protocol = r.protocol /\ w.seq = r.seq
      BY <1>2, <2>1, <3>1, <3>2 DEF PostRow
    <3> QED BY <2>1, <3>2, <3>3
  <2>5. CASE StoreStamped(p)
    <3>1. PICK w : w = [r EXCEPT !.pc = "stored", !.seq = numbers']
      OBVIOUS
    <3>2. /\ post' = [post EXCEPT ![p] = w] /\ r.pc = "stamped"
          /\ numbers' \in Nat /\ (feed = "chat" => numbers' = numbers + 1)
      BY <1>2, <2>1, <2>5, <3>1 DEF StoreStamped
    <3>3. w \in PostRow /\ w.pc = "stored" /\ w.at = r.at /\ w.protocol = r.protocol /\ w.seq = numbers'
      BY <1>2, <2>1, <3>1, <3>2 DEF PostRow
    <3> QED BY <2>1, <3>2, <3>3
  <2> QED BY <2>2, <2>3, <2>4, <2>5
<1>4. post \in [Posts -> PostRow]
  BY DEF PgInv, PgTypes, PostRow
<1>5. /\ post'[p] = w /\ \A q \in Posts : q # p => post'[q] = post[q]
      /\ post' \in [Posts -> PostRow]
  BY <1>3, <1>4
<1>6. PgTypes'
  BY <1>1, <1>3, <1>5 DEF PgInv, PgTypes, PostRow
<1>7. PostsKept
  BY <1>2, <1>3, <1>5 DEF PostsKept, Appeared
<1>8. millis \in Nat /\ numbers \in Nat /\ PostInv
  BY DEF PgInv, PgTypes, PostRow
<1>9. \A q \in Posts : post'[q].pc # "new" => post'[q].at > 0
  BY <1>2, <1>3, <1>5, <1>8 DEF PostInv
<1>10. feed = "channel" => \A q \in Posts : ~post'[q].protocol
  BY <1>2, <1>3, <1>5, <1>8 DEF PostInv
<1>11. feed = "chat" => \A q \in Posts : post'[q].pc # "deleted"
  BY <1>2, <1>3, <1>5, <1>8 DEF PostInv
<1>12. feed = "chat" => \A q \in Posts :
          post'[q].pc \in {"numbered", "stored"} => post'[q].seq <= numbers'
  BY <1>2, <1>3, <1>4, <1>5, <1>8 DEF PostInv, PostRow
<1>13. ASSUME feed = "chat", NEW a \in Posts, NEW b \in Posts,
              {post'[a].pc, post'[b].pc} \subseteq {"numbered", "stored"}, post'[a].seq = post'[b].seq
       PROVE  a = b
  <2>1. \A q \in Posts : q # p /\ post'[q].pc \in {"numbered", "stored"} =>
          /\ post[q].pc = post'[q].pc /\ post[q].seq = post'[q].seq
          /\ post[q].seq \in Nat /\ post[q].seq <= numbers
    BY <1>4, <1>5, <1>8, <1>13 DEF PostInv, PostRow
  <2>2. CASE a # p /\ b # p
    BY <1>8, <1>13, <2>1, <2>2 DEF PostInv
  <2>3. CASE r.pc = "numbered"
    <3>1. post'[p].seq = post[p].seq /\ post[p].pc = "numbered"
      BY <1>2, <1>3, <1>5, <2>3
    <3> QED BY <1>8, <1>13, <2>1, <3>1 DEF PostInv
  <2>4. CASE r.pc = "stamped"
    <3>1. post'[p].seq = numbers + 1
      BY <1>3, <1>5, <1>13, <2>4
    <3> QED BY <1>8, <1>13, <2>1, <2>2, <3>1
  <2>5. CASE r.pc \notin {"numbered", "stamped"}
    <3>1. post'[p].pc = "stamped"
      BY <1>3, <1>5, <2>5
    <3> QED BY <1>13, <2>2, <3>1
  <2> QED BY <2>3, <2>4, <2>5
<1>14. PostInv'
  BY <1>1, <1>8, <1>9, <1>10, <1>11, <1>12, <1>13 DEF PostInv
<1>15. WalkInv'
  <2>1. clearedAt' \in Nat /\ clearedAt' >= clearedAt /\ lostAnchor' \in BOOLEAN
    BY <1>1 DEF PgInv, PgTypes, PostRow
  <2>2. feed = "chat" => ~lostAnchor'
    BY <1>1 DEF PgInv, WalkInv
  <2>3. walk.pc = "walking" /\ post'[walk.cursor].pc = "deleted" => lostAnchor'
    <3>1. \A q \in Posts : post'[q].pc = "deleted" => post[q].pc = "deleted"
      BY <1>2, <1>3, <1>5
    <3> QED BY <1>1, <3>1 DEF PgInv, PgTypes, PostRow, WalkInv
  <2> QED BY <1>1, <1>7, <1>11, <2>1, <2>2, <2>3, WalkKept
<1> QED BY <1>6, <1>14, <1>15 DEF PgInv

LEMMA PostDeleted ==
    ASSUME PagingAssumption, PgInv, NEW p \in Posts, DeletePost(p)
    PROVE  PgInv'
<1>1. /\ feed = "channel" /\ post[p].pc = "stored"
      /\ feed' = feed /\ pgStore' = pgStore /\ millis' = millis /\ clearedAt' = clearedAt
      /\ numbers' = numbers /\ walk' = walk /\ due' = due /\ twice' = twice
      /\ lostAnchor' = (lostAnchor \/ walk.cursor = p)
  BY DEF DeletePost, Stored
<1>2. post' = [post EXCEPT ![p].pc = "deleted"]
  BY DEF DeletePost
<1>3. PgTypes'
  BY <1>1, <1>2 DEF PgInv, PgTypes, PostRow
<1>4. \A q \in Posts :
        /\ post'[q].at = post[q].at /\ post'[q].seq = post[q].seq /\ post'[q].protocol = post[q].protocol
        /\ post'[q].pc = IF q = p THEN "deleted" ELSE post[q].pc
  BY <1>2 DEF PgInv, PgTypes, PostRow
<1>5. PostInv'
  BY <1>1, <1>4 DEF PgInv, PostInv
<1>6. PostsKept
  BY <1>1, <1>3, <1>4 DEF PgTypes, PostRow, PostsKept, Appeared
<1>7. clearedAt' \in Nat /\ clearedAt' >= clearedAt /\ lostAnchor' \in BOOLEAN /\ (lostAnchor => lostAnchor')
  BY <1>1 DEF PgInv, PgTypes, PostRow
<1>8. walk.pc = "walking" /\ post'[walk.cursor].pc = "deleted" => lostAnchor'
  BY <1>1, <1>4 DEF PgInv, PgTypes, PostRow, WalkInv
<1>9. WalkInv'
  BY <1>1, <1>6, <1>7, <1>8, WalkKept
<1> QED BY <1>3, <1>5, <1>9 DEF PgInv

LEMMA PagingInduction ==
    ASSUME PagingAssumption, PgInv, [PgNext]_pgVars
    PROVE  PgInv'
<1>1. ASSUME feed' = feed, pgStore' = pgStore, millis' \in Nat, millis' >= millis, post' = post,
             numbers' = numbers, clearedAt' \in Nat, clearedAt' >= clearedAt,
             feed = "channel" => clearedAt' = clearedAt,
             walk' = walk, due' = due, twice' = twice, lostAnchor' = lostAnchor
      PROVE  PgInv'
  <2>1. PgTypes'
    BY <1>1 DEF PgInv, PgTypes, PostRow
  <2>2. PostInv'
    BY <1>1 DEF PgInv, PgTypes, PostRow, PostInv
  <2>3. lostAnchor' \in BOOLEAN /\ (feed = "chat" => ~lostAnchor' /\ \A p \in Posts : post'[p].pc # "deleted")
    BY <1>1 DEF PgInv, PgTypes, PostRow, PostInv, WalkInv
  <2>4. walk.pc = "walking" /\ post'[walk.cursor].pc = "deleted" => lostAnchor'
    BY <1>1 DEF PgInv, WalkInv
  <2>5. WalkInv'
    BY <1>1, <2>3, <2>4, PostsUnchanged, WalkKept
  <2> QED BY <2>1, <2>2, <2>5 DEF PgInv
<1>2. CASE PgTick
  BY <1>1, <1>2 DEF PgTick, pgGhosts, PgInv, PgTypes, PostRow
<1>3. CASE clearMessages
  BY <1>1, <1>3 DEF clearMessages, pgGhosts, PgInv, PgTypes, PostRow
<1>4. CASE listMessages
  BY <1>4, PageRead
<1>5. ASSUME NEW p \in Posts, NEW protocol \in BOOLEAN, Stamp(p, protocol) PROVE PgInv'
  BY <1>5, PostWritten
<1>6. ASSUME NEW p \in Posts, TakeSeq(p) \/ StoreNumbered(p) \/ StoreStamped(p) PROVE PgInv'
  <2>1. TRUE \in BOOLEAN
    OBVIOUS
  <2> QED BY <1>6, <2>1, PostWritten
<1>7. ASSUME NEW p \in Posts, DeletePost(p) PROVE PgInv'
  BY <1>7, PostDeleted
<1>8. ASSUME NEW p \in Posts, listAround(p) PROVE PgInv'
  BY <1>8, WindowRead
<1>9. CASE UNCHANGED pgVars
  BY <1>1, <1>9 DEF pgVars, PgInv, PgTypes, PostRow
<1> QED BY <1>2, <1>3, <1>4, <1>5, <1>6, <1>7, <1>8, <1>9 DEF PgNext

\* However posts appear out of the order of their times while a reader pages backwards, and
\* whatever the size of a page, a walk to the end reads everything that was there when it began
\* and still is, a chat's walk reads nothing twice, and a channel's misses only what shares its
\* millisecond with another post, or a walk whose cursor was deleted (ChatMessagesByConversation,
\* listMessages, listComments on both stores).
THEOREM PagingMissesNothing == ASSUME PagingAssumption PROVE PgSpec => []WalkMissesNothing
<1>1. PgInit => PgInv
  <2> SUFFICES ASSUME PgInit PROVE PgInv
    OBVIOUS
  <2>1. post \in [Posts -> PostRow] /\ \A p \in Posts : post[p].pc = "new" /\ post[p].protocol = FALSE
    BY DEF PgInit, PostRow
  <2>2. PgTypes
    BY <2>1 DEF PgInit, PgTypes
  <2>3. PostInv
    BY <2>1 DEF PgInit, PostInv
  <2>4. WalkInv
    BY DEF PgInit, WalkInv, Accounted
  <2> QED BY <2>2, <2>3, <2>4 DEF PgInv
<1>2. PgInv /\ [PgNext]_pgVars => PgInv'
  BY PagingInduction
<1>3. PgInv => WalkMissesNothing
  BY DEF PgInv, WalkInv, Accounted, WalkMissesNothing
<1> QED BY <1>1, <1>2, <1>3, PTL DEF PgSpec
=============================================================================
