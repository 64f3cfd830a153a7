------------------------------- MODULE MCParts -------------------------------
(***************************************************************************)
(* The parts of the server that share no state, for TLC in one run: a      *)
(* behaviour exercises the part in focus and leaves the others at rest, so *)
(* the run explores the sum of their state spaces and not the product.     *)
(***************************************************************************)
EXTENDS KeyPackages, KeyBackup, Calls, PushQueue, PushAddresses, PushPayload, LiveBus,
        Paging, Hosts, Profiles, TLC

CONSTANTS d1, d2, d3, h1, h2, j1, j2, n1, n2, n3, n4, v1, v2

VARIABLE focus

\* Two devices of the callee on one host, one on the other.
MCHomeOf == d1 :> h1 @@ d2 :> h1 @@ d3 :> h2
\* Jobs of one byte and of two.
MCSize == [j \in Jobs |-> IF j \in {j1, j2} THEN 1 ELSE 2]
MCKeyOf == h1 :> "k1" @@ h2 :> "k2"
\* The second list drops the host h2.
MCLists ==
    LET Node(host, alias, key) == [domain |-> host, alias |-> alias, key |-> key]
    IN  << [issued |-> -1, expires |-> 4, nodes |-> <<Node(h1, "", "k1"), Node(h2, "two", "k2")>>],
           [issued |-> 1, expires |-> 9, nodes |-> <<Node(h1, "", "k1")>>] >>
\* Spellings of one name.
MCLower == [n \in Names |-> "ann"]
\* An iPhone with a PushKit token, an Android phone, a browser, and a phone with no address.
MCTransport == n1 :> "voip" @@ n2 :> "fcm" @@ n3 :> "web" @@ n4 :> "none"
MCOwnerOf == n1 :> v1 @@ n2 :> v1 @@ n3 :> v2 @@ n4 :> v2

\* What the theorems about the parts assume, on this instance.
ASSUME PartsAssumptions ==
    /\ KeyPackagesAssumption /\ KeyBackupAssumption /\ CallsAssumption /\ PushQueueAssumption
    /\ PushAddressesAssumption /\ PushPayloadAssumption /\ LiveBusAssumption /\ HostsAssumption
    /\ ProfilesAssumption /\ PagingAssumption

\* What a part may start from is left open for the part in focus only.
Init ==
    /\ focus \in {"packages", "backup", "signals", "answers", "queue", "addresses", "live", "paging",
                  "hosts", "names", "avatars", "payload"}
    /\ KpInit /\ KbInit /\ CallsInit /\ PqInit /\ PaInit /\ LbInit /\ PgInit /\ HsInit /\ PfInit /\ PpInit
    /\ focus # "packages" => kpStore = "mongo"
    /\ focus # "addresses" => paStore = "mongo" /\ rows = {}
    /\ focus # "paging" => pgStore = "mongo" /\ feed = "chat"
    /\ focus \notin {"names", "avatars"} => pfStore = "mongo"
    /\ focus \notin {"signals", "answers"} => mailboxKind = "redis"
    /\ focus # "live" => busKind = "redis"
    /\ focus # "payload" => \A v \in Recipients : setting[v] = ""
    /\ focus # "hosts" => \A h \in HostIds : drift[h] = 0

vars == <<focus, kpVars, kbVars, callVars, pqVars, paVars, ppVars, lbVars, pgVars, hsVars, pfVars>>

Next ==
    \/ /\ focus = "packages" /\ KpNext
       /\ UNCHANGED <<focus, kbVars, callVars, pqVars, paVars, ppVars, lbVars, pgVars, hsVars, pfVars>>
    \/ /\ focus = "backup" /\ KbNext
       /\ UNCHANGED <<focus, kpVars, callVars, pqVars, paVars, ppVars, lbVars, pgVars, hsVars, pfVars>>
    \/ /\ focus = "signals" /\ SignalsNext
       /\ UNCHANGED <<focus, kpVars, kbVars, pqVars, paVars, ppVars, lbVars, pgVars, hsVars, pfVars>>
    \/ /\ focus = "answers" /\ AnswersNext
       /\ UNCHANGED <<focus, kpVars, kbVars, pqVars, paVars, ppVars, lbVars, pgVars, hsVars, pfVars>>
    \/ /\ focus = "queue" /\ PqNext
       /\ UNCHANGED <<focus, kpVars, kbVars, callVars, paVars, ppVars, lbVars, pgVars, hsVars, pfVars>>
    \/ /\ focus = "addresses" /\ PaNext
       /\ UNCHANGED <<focus, kpVars, kbVars, callVars, pqVars, ppVars, lbVars, pgVars, hsVars, pfVars>>
    \/ /\ focus = "payload" /\ PpNext
       /\ UNCHANGED <<focus, kpVars, kbVars, callVars, pqVars, paVars, lbVars, pgVars, hsVars, pfVars>>
    \/ /\ focus = "live" /\ LbNext
       /\ UNCHANGED <<focus, kpVars, kbVars, callVars, pqVars, paVars, ppVars, pgVars, hsVars, pfVars>>
    \/ /\ focus = "paging" /\ PgNext
       /\ UNCHANGED <<focus, kpVars, kbVars, callVars, pqVars, paVars, ppVars, lbVars, hsVars, pfVars>>
    \/ /\ focus = "hosts" /\ HsNext
       /\ UNCHANGED <<focus, kpVars, kbVars, callVars, pqVars, paVars, ppVars, lbVars, pgVars, pfVars>>
    \/ /\ focus = "names" /\ NamesNext
       /\ UNCHANGED <<focus, kpVars, kbVars, callVars, pqVars, paVars, ppVars, lbVars, pgVars, hsVars>>
    \/ /\ focus = "avatars" /\ AvatarsNext
       /\ UNCHANGED <<focus, kpVars, kbVars, callVars, pqVars, paVars, ppVars, lbVars, pgVars, hsVars>>

Spec == Init /\ [][Next]_vars
=============================================================================
