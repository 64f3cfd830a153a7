------------------------------ MODULE PushQueue ------------------------------
(***************************************************************************)
(* The queue of message fan-outs behind the request path: a bounded        *)
(* channel, a budget of ciphertext bytes that is reserved before a slot is *)
(* taken, and workers that give the bytes back before they send.           *)
(*                                                                         *)
(*   offer   reserve -> slot, or give back                                 *)
(*   worker  take -> release -> run, or drop as stale                      *)
(***************************************************************************)
EXTENDS Integers, Sequences, FiniteSets

CONSTANTS Jobs, Size, PushWorkers, NoJob,
          Depth, MaxBytes   \* the queue's two bounds

\* Any number of messages of any size.
PushQueueAssumption ==
    IsFiniteSet(Jobs) /\ Size \in [Jobs -> Nat] /\ MaxBytes \in Nat /\ Depth \in Nat

VARIABLES chan_q,     \* the jobs in the channel
          queued,     \* bytes reserved
          offer,      \* job -> where its request is
          worker      \* worker -> its job and where it is

pqVars == <<chan_q, queued, offer, worker>>

PqInit ==
    /\ chan_q = <<>> /\ queued = 0
    /\ offer = [j \in Jobs |-> "idle"]
    /\ worker = [w \in PushWorkers |-> [pc |-> "idle", job |-> NoJob]]

OfferGoes(j, from, to) == offer[j] = from /\ offer' = [offer EXCEPT ![j] = to]

\* Control messages are never offered; every other message reserves its bytes.
Reserve(j) ==
    /\ queued' = queued + Size[j]
    /\ OfferGoes(j, "idle", IF queued + Size[j] > MaxBytes THEN "giveback" ELSE "slot")
    /\ UNCHANGED <<chan_q, worker>>

\* Mutant: the budget is not given back when the queue has no slot.
DropWhenFull(j) ==
    /\ IF Len(chan_q) < Depth
       THEN chan_q' = Append(chan_q, j) /\ OfferGoes(j, "slot", "queued")
       ELSE OfferGoes(j, "slot", "dropped") /\ UNCHANGED chan_q
    /\ UNCHANGED <<queued, worker>>

\* It never waits: a full channel is given up at once.
TakeSlot(j) ==
    /\ IF Len(chan_q) < Depth
       THEN chan_q' = Append(chan_q, j) /\ OfferGoes(j, "slot", "queued")
       ELSE OfferGoes(j, "slot", "giveback") /\ UNCHANGED chan_q
    /\ UNCHANGED <<queued, worker>>

GiveBack(j) ==
    /\ OfferGoes(j, "giveback", "dropped")
    /\ queued' = queued - Size[j]
    /\ UNCHANGED <<chan_q, worker>>

Dequeue(w) ==
    /\ worker[w].pc = "idle" /\ chan_q # <<>>
    /\ worker' = [worker EXCEPT ![w] = [pc |-> "release", job |-> Head(chan_q)]]
    /\ chan_q' = Tail(chan_q)
    /\ UNCHANGED <<queued, offer>>

Release(w) ==
    /\ worker[w].pc = "release"
    /\ queued' = queued - Size[worker[w].job]
    /\ worker' = [worker EXCEPT ![w].pc = "run"]
    /\ UNCHANGED <<chan_q, offer>>

\* Sent, or too old to be sent.
RunJob(w, stale) ==
    /\ worker[w].pc = "run"
    /\ offer' = [offer EXCEPT ![worker[w].job] = IF stale THEN "stale" ELSE "sent"]
    /\ worker' = [worker EXCEPT ![w] = [pc |-> "idle", job |-> NoJob]]
    /\ UNCHANGED <<chan_q, queued>>

PqNext ==
    \/ \E j \in Jobs : Reserve(j) \/ TakeSlot(j) \/ GiveBack(j)
    \/ \E w \in PushWorkers : Dequeue(w) \/ Release(w)
    \/ \E w \in PushWorkers, stale \in BOOLEAN : RunJob(w, stale)

PqSpec == PqInit /\ [][PqNext]_pqVars

\* The bytes of some jobs, told apart, and how many they are.
BytesOf(js) == UNION {{j} \X (1 .. Size[j]) : j \in js}
Bytes(js) == Cardinality(BytesOf(js))
InChannel == {chan_q[i] : i \in DOMAIN chan_q}
Reserving == {j \in Jobs : offer[j] \in {"slot", "giveback"}}
Unreleased == {worker[w].job : w \in {v \in PushWorkers : worker[v].pc = "release"}}

\* However offers and workers interleave, the bytes reserved are those of the jobs in the
\* channel, of the offers that hold a reservation and of the jobs a worker has just taken:
\* nothing leaks, so an empty queue always takes a message that fits; and what waits in the
\* channel never exceeds the budget (offer: "give them back if the slot is not there").
BudgetIsExact ==
    /\ queued = Bytes(InChannel) + Bytes(Reserving) + Bytes(Unreleased)
    /\ Bytes(InChannel) <= MaxBytes

=============================================================================
