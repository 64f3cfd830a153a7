-------------------------------- MODULE Hosts ---------------------------------
(***************************************************************************)
(* Signed requests between hosts: each host starts from the coordinator's  *)
(* signed list of hosts and keys, signs what it sends for one destination, *)
(* and verifies what it receives.  The network may deliver a request late, *)
(* repeatedly, to any host it can reach; clocks differ.  The instances of  *)
(* a host share one record of used nonces.  A check takes no time on the   *)
(* scale of the clock.                                                     *)
(*                                                                         *)
(*   verify   check time, list, key and signature -> record the nonce      *)
(***************************************************************************)
EXTENDS Integers, Sequences, FiniteSets

CONSTANTS HostIds, Requests, NoKey,
          KeyOf,       \* host -> the key it signs with
          Lists,       \* the lists the coordinator issues: nodes and expiry, by serial
          Drifts,      \* how far a host's clock may be off
          MaxSkew, MaxNow

\* Any lists, keys and number of hosts; clocks may be off by any amount.
HostsAssumption == Drifts \subseteq Int /\ MaxSkew \in Nat

VARIABLES now,
          drift,       \* host -> its clock minus the true time
          file,        \* host -> serial of the list on its disk
          loaded,      \* host -> serial of the list in memory, 0 when the host is down
          request,     \* request -> what was signed, from "unsent" on
          verifying,   \* checks that have passed and not yet recorded the nonce
          nonces,      \* host -> request -> when its nonce is forgotten
          handled      \* ghost: host -> request -> how often it was acted on

hsVars == <<now, drift, file, loaded, request, verifying, nonces, handled>>

Serials == DOMAIN Lists
Unsent == [pc |-> "unsent"]

HsInit ==
    /\ now = 0 /\ drift \in [HostIds -> Drifts]
    /\ file = [h \in HostIds |-> 1] /\ loaded = [h \in HostIds |-> 0]
    /\ request = [r \in Requests |-> Unsent]
    /\ verifying = {} /\ nonces = [h \in HostIds |-> [r \in Requests |-> -1]]
    /\ handled = [h \in HostIds |-> [r \in Requests |-> 0]]

ClockOf(h) == now + drift[h]

HsTick ==
    /\ now < MaxNow /\ verifying = {}
    /\ now' = now + 1
    /\ UNCHANGED <<drift, file, loaded, request, verifying, nonces, handled>>

(***************************************************************************)
(* The list                                                                *)
(***************************************************************************)
\* No domain, and no alias, names two hosts, and no alias is a domain.
validate(l) ==
    /\ \A i, j \in DOMAIN l.nodes :
          i # j => /\ l.nodes[i].domain # l.nodes[j].domain
                   /\ l.nodes[i].alias # "" => l.nodes[i].alias # l.nodes[j].alias
    /\ \A i, j \in DOMAIN l.nodes : l.nodes[i].alias # l.nodes[j].domain

VerifyAt(l, t) == validate(l) /\ t <= l.expires /\ t >= l.issued

\* The operator puts the next list on a host's disk; the host reads it when it starts.
PutFile(h) ==
    /\ file[h] + 1 \in Serials
    /\ file' = [file EXCEPT ![h] = @ + 1]
    /\ UNCHANGED <<now, drift, loaded, request, verifying, nonces, handled>>

\* A list that cannot be adopted keeps the host from starting.
LoadFile(h) ==
    /\ loaded[h] = 0 /\ VerifyAt(Lists[file[h]], ClockOf(h))
    /\ loaded' = [loaded EXCEPT ![h] = file[h]]
    /\ UNCHANGED <<now, drift, file, request, verifying, nonces, handled>>

StopHost(h) ==
    /\ loaded[h] > 0 /\ loaded' = [loaded EXCEPT ![h] = 0]
    /\ verifying' = {v \in verifying : v.at # h}
    /\ UNCHANGED <<now, drift, file, request, nonces, handled>>

\* An expired list vouches for nobody; it is checked at every lookup.
KeyFor(h, domain) ==
    LET l == Lists[loaded[h]]
        nodes == {l.nodes[i] : i \in DOMAIN l.nodes}
    IN  IF ClockOf(h) > l.expires \/ \A n \in nodes : n.domain # domain THEN NoKey
        ELSE (CHOOSE n \in nodes : n.domain = domain).key

(***************************************************************************)
(* Requests                                                                *)
(***************************************************************************)
\* The destination is signed and travels in no header; the nonce is the request's own.
Sign(h, dest) == [pc |-> "sent", origin |-> h, dest |-> dest, key |-> KeyOf[h], ts |-> ClockOf(h)]

Do(h, r, dest) ==
    /\ loaded[h] > 0 /\ dest # h /\ request[r] = Unsent
    /\ request' = [request EXCEPT ![r] = Sign(h, dest)]
    /\ UNCHANGED <<now, drift, file, loaded, verifying, nonces, handled>>

Stale(h, ts) == ClockOf(h) - ts > MaxSkew \/ ClockOf(h) - ts < -MaxSkew

\* The receiver puts its own domain where the sender put the destination.
Verifies(h, q) == q.key = KeyFor(h, q.origin) /\ q.dest = h

Verify(h, r, copy) ==
    LET q == request[r]
    IN  /\ loaded[h] > 0 /\ q # Unsent
        /\ ~Stale(h, q.ts) /\ Verifies(h, q)
        /\ verifying' = verifying \cup {[at |-> h, req |-> r, copy |-> copy]}
        /\ UNCHANGED <<now, drift, file, loaded, request, nonces, handled>>

\* Mutant: one skew only.
RememberedForSkew == MaxSkew

\* Twice the skew: from a clock that far ahead of the sender to one that far behind.
Remembered == 2 * MaxSkew

\* SET NX; a nonce that is there, or a store that cannot be asked, refuses the request.
SeenNonce(v) ==
    LET known == nonces[v.at][v.req] >= now
    IN  /\ v \in verifying
        /\ nonces' = IF known THEN nonces ELSE [nonces EXCEPT ![v.at][v.req] = now + Remembered]
        /\ handled' = IF known THEN handled ELSE [handled EXCEPT ![v.at][v.req] = @ + 1]
        /\ verifying' = verifying \ {v}
        /\ UNCHANGED <<now, drift, file, loaded, request>>

SeenNonceFails(v) ==
    /\ v \in verifying /\ verifying' = verifying \ {v}
    /\ UNCHANGED <<now, drift, file, loaded, request, nonces, handled>>

HsNext ==
    \/ HsTick
    \/ \E h \in HostIds : PutFile(h) \/ LoadFile(h) \/ StopHost(h)
    \/ \E h, dest \in HostIds, r \in Requests : Do(h, r, dest)
    \/ \E h \in HostIds, r \in Requests, copy \in 1 .. 2 : Verify(h, r, copy)
    \/ \E v \in verifying : SeenNonce(v) \/ SeenNonceFails(v)

HsSpec == HsInit /\ [][HsNext]_hsVars

\* A signed request is acted on once at most, and by the host it was signed for alone, however
\* late and however often it is delivered, whatever the clocks of the two hosts say within the
\* allowed skew and through restarts (Verify: "records each request's nonce for twice the skew
\* window and refuses one it has already seen").
HandledOnce ==
    \A h \in HostIds, r \in Requests :
        handled[h][r] <= IF request[r] # Unsent /\ request[r].dest = h THEN 1 ELSE 0

=============================================================================
