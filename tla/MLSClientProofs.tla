---------------------------- MODULE MLSClientProofs ----------------------------
(***************************************************************************)
(* What MLSClient promises, for every number of devices, Commits, groups   *)
(* and attempts.                                                           *)
(*                                                                         *)
(* ClientInv is the inductive invariant behind the histories.  By itself   *)
(* NoFork says nothing of where the next state comes from: a Commit that   *)
(* is staged or half-joined, a GroupInfo on its way to the server or kept  *)
(* there, and one that a join was fetched for.  ClientInv says that each   *)
(* of them is a state the group was in, that a device holds the state its  *)
(* Commit was built on for as long as the lock is held, and that a group   *)
(* that is being founded is its founder's alone.                           *)
(*                                                                         *)
(* A step of one device changes nothing the others rely on (Framed), so    *)
(* each action is shown to keep the invariant of its own device; StepOf    *)
(* puts the two together.  ReadInv adds who may throw out whose leaf, and  *)
(* TypedInv what the counters range over.                                  *)
(***************************************************************************)
EXTENDS MLSClient, SequenceTheorems, WellFoundedInduction, TLAPS

(***************************************************************************)
(* Sequences                                                               *)
(***************************************************************************)
\* h is the beginning of l.
Pre(h, l) == Len(h) <= Len(l) /\ h = SubSeq(l, 1, Len(h))

LEMMA Beginning ==
    ASSUME NEW S, NEW l \in Seq(S), NEW n \in 0 .. Len(l)
    PROVE  SubSeq(l, 1, n) \in Seq(S) /\ Len(SubSeq(l, 1, n)) = n /\ Pre(SubSeq(l, 1, n), l)
<1>1. \A i \in 1 .. n : l[i] \in S
  BY ElementOfSeq
<1>2. SubSeq(l, 1, n) \in Seq(S) /\ Len(SubSeq(l, 1, n)) = n
  BY <1>1, SubSeqProperties
<1> QED BY <1>2 DEF Pre

LEMMA NothingIsPre ==
    ASSUME NEW S, NEW l \in Seq(S)
    PROVE  Pre(<< >>, l)
BY SubSeqEmpty, EmptySeq, LenProperties DEF Pre

LEMMA PreElements ==
    ASSUME NEW S, NEW l \in Seq(S), NEW h \in Seq(S), Pre(h, l), NEW i \in 1 .. Len(h)
    PROVE  h[i] = l[i]
<1>1. \A k \in 1 .. Len(h) : l[k] \in S
  BY ElementOfSeq, LenProperties DEF Pre
<1>2. \A k \in 1 .. Len(h) : SubSeq(l, 1, Len(h))[k] = l[k]
  BY <1>1, SubSeqProperties, LenProperties
<1> QED BY <1>2 DEF Pre

LEMMA PreIsElements ==
    ASSUME NEW S, NEW l \in Seq(S), NEW h \in Seq(S), Len(h) <= Len(l), \A i \in 1 .. Len(h) : h[i] = l[i]
    PROVE  Pre(h, l)
<1>1. Len(h) \in 0 .. Len(l)
  BY LenProperties
<1>2. SubSeq(l, 1, Len(h)) \in Seq(S) /\ Len(SubSeq(l, 1, Len(h))) = Len(h)
  BY <1>1, Beginning
<1>3. \A k \in 1 .. Len(h) : l[k] \in S
  BY ElementOfSeq, LenProperties
<1>4. \A k \in 1 .. Len(h) : SubSeq(l, 1, Len(h))[k] = l[k]
  BY <1>3, SubSeqProperties, LenProperties
<1>5. h = SubSeq(l, 1, Len(h))
  BY <1>2, <1>4, SeqEqual
<1> QED BY <1>5 DEF Pre

LEMMA Appended ==
    ASSUME NEW S, NEW l \in Seq(S), NEW c \in S
    PROVE  /\ Append(l, c) \in Seq(S) /\ Len(Append(l, c)) = Len(l) + 1 /\ Append(l, c) # << >>
           /\ Append(l, c)[Len(l) + 1] = c /\ \A i \in 1 .. Len(l) : Append(l, c)[i] = l[i]
<1>1. Append(l, c) \in Seq(S) /\ Len(Append(l, c)) = Len(l) + 1
      /\ Append(l, c)[Len(l) + 1] = c /\ \A i \in 1 .. Len(l) : Append(l, c)[i] = l[i]
  BY LenProperties
<1> QED BY <1>1, LenProperties, EmptySeq

LEMMA PreGrows ==
    ASSUME NEW S, NEW l \in Seq(S), NEW c \in S, NEW h \in Seq(S), Pre(h, l)
    PROVE  Pre(h, Append(l, c))
BY Appended, PreElements, PreIsElements, LenProperties DEF Pre

LEMMA PreExtends ==
    ASSUME NEW S, NEW l \in Seq(S), NEW h \in Seq(S), Pre(h, l), Len(h) < Len(l), NEW c \in S, c = l[Len(h) + 1]
    PROVE  Pre(Append(h, c), l)
<1>0. PICK k : k = Append(h, c)
  OBVIOUS
<1>1. /\ k \in Seq(S) /\ Len(k) = Len(h) + 1
      /\ k[Len(h) + 1] = c /\ \A i \in 1 .. Len(h) : k[i] = h[i]
  BY <1>0, Appended
<1>2. \A i \in 1 .. Len(h) : h[i] = l[i]
  BY PreElements
<1>3. Len(h) \in Nat /\ Len(l) \in Nat
  BY LenProperties
<1>4. \A i \in 1 .. Len(k) : k[i] = l[i]
  BY <1>1, <1>2, <1>3
<1>5. Pre(k, l)
  BY <1>1, <1>3, <1>4, PreIsElements
<1> QED BY <1>0, <1>5

LEMMA PreFull ==
    ASSUME NEW S, NEW l \in Seq(S), NEW h \in Seq(S), Pre(h, l), Len(h) = Len(l)
    PROVE  h = l
BY SubSeqFull DEF Pre

LEMMA PrePre ==
    ASSUME NEW S, NEW l \in Seq(S), NEW h \in Seq(S), NEW k \in Seq(S), Pre(h, l), Pre(k, l), Len(h) <= Len(k)
    PROVE  Pre(h, k)
BY PreElements, PreIsElements, LenProperties

LEMMA AppendedBefore ==
    ASSUME NEW S, NEW l \in Seq(S), NEW c \in S, NEW n \in 0 .. Len(l)
    PROVE  SubSeq(Append(l, c), 1, n) = SubSeq(l, 1, n)
<1>1. SubSeq(l, 1, n) \in Seq(S) /\ Len(SubSeq(l, 1, n)) = n /\ Pre(SubSeq(l, 1, n), l)
  BY Beginning
<1>2. Pre(SubSeq(l, 1, n), Append(l, c))
  BY <1>1, PreGrows
<1> QED BY <1>1, <1>2 DEF Pre

LEMMA LeastOf ==
    ASSUME NEW T, T \subseteq Nat, T # {}
    PROVE  \E x \in T : \A y \in T : x <= y
<1>1. PICK R : IsWellFoundedOn(R, Nat) /\ R = {ss \in Nat \X Nat : ss[1] < ss[2]}
  BY NatLessThanWellFounded, Zenon DEF OpToRel
<1>2. PICK x \in T : \A y \in T : ~(<<y, x>> \in R)
  BY <1>1, WFMin
<1>3. \A y \in T : ~(y < x)
  BY <1>1, <1>2
<1> QED BY <1>3

LEMMA GreatestOf ==
    ASSUME NEW T, NEW n \in Nat, T \subseteq 0 .. n, T # {}
    PROVE  \E x \in T : \A y \in T : y <= x
<1>1. PICK U : U = {n - x : x \in T}
  OBVIOUS
<1>2. U \subseteq Nat /\ U # {}
  <2>1. \A x \in T : n - x \in Nat
    OBVIOUS
  <2> QED BY <1>1, <2>1
<1>3. PICK u \in U : \A y \in U : u <= y
  BY <1>2, LeastOf
<1>4. PICK x \in T : u = n - x
  BY <1>1, <1>3
<1>5. \A y \in T : n - x <= n - y
  BY <1>1, <1>3, <1>4
<1>6. \A y \in T : y <= x
  BY <1>5
<1> QED BY <1>6

(***************************************************************************)
(* The invariant                                                           *)
(***************************************************************************)
CommitRecords == [group : Groups \cup {NoGroup}, on : Seq(Commits), by : Devices \cup {"nobody"},
                  adds : SUBSET Devices, drops : SUBSET Devices]
Looks == [group : Groups \cup {NoGroup}, epoch : Nat, settling : BOOLEAN]
Jobs == [kind : {"none", "establish", "join", "add", "prune"}, group : Groups \cup {NoGroup}, base : Nat,
         commit : Commits \cup {"none"}, who : SUBSET Devices, on : Seq(Commits)]
Infos == [group : Groups \cup {NoGroup}, epoch : Nat, on : Seq(Commits)]
Publications == [step : {"off", "export", "label", "check", "write"}, group : Groups \cup {NoGroup},
                 epoch : Nat, on : Seq(Commits)]

Places == {"idle", "settle", "establish", "catchup", "behind", "join", "fetched", "giveup", "reconcile",
           "stage", "sent", "accepted", "refused", "failed", "again"}

ServerShapes ==
    /\ published \subseteq Devices /\ revoked \subseteq Devices
    /\ current \in Groups \cup {NoGroup}
    /\ log \in [Groups -> Seq(Commits)]
    /\ info \in Infos
DeviceShapes ==
    /\ pc \in [Devices -> Places]
    /\ seen \in [Devices -> Looks]
    /\ job \in [Devices -> Jobs]
    /\ pub \in [Devices -> Publications]
Shapes ==
    /\ ServerShapes /\ DeviceShapes
    /\ made \in [Commits -> CommitRecords]
    /\ held \in [Devices -> [Groups -> States]]

\* The server's logs: a Commit is in the log of its group, on what was there before it.
LogInv ==
    /\ current # NoGroup => log[current] # << >>
    /\ \A g \in Groups : \A i \in 1 .. Len(log[g]) :
          made[log[g][i]].group = g /\ made[log[g][i]].on = SubSeq(log[g], 1, i - 1)

\* What a device holds is a beginning of the log, and not nothing once it is in use.
HeldOf(d) ==
    \A g \in Groups : Pre(held[d][g].hist, log[g]) /\ (held[d][g].state = "ok" => held[d][g].hist # << >>)

InfoInv == info.group # NoGroup => Pre(info.on, log[info.group])

\* A GroupInfo on its way is of a state the group was in.
PubOf(d) ==
    /\ pub[d].step # "off" => pub[d].group # NoGroup
    /\ pub[d].step \in {"label", "check", "write"} => Pre(pub[d].on, log[pub[d].group])

\* Where a settle has looked at a group, there is one; a join is of a group with a log.
SeenOf(d) ==
    /\ pc[d] \in {"catchup", "behind", "join", "fetched", "giveup", "reconcile", "stage", "again"}
          => seen[d].group # NoGroup
    /\ Locked(d) /\ job[d].kind # "establish" => seen[d].group # NoGroup
    /\ pc[d] = "stage" => job[d].kind \in {"add", "prune"}
    /\ pc[d] = "fetched" =>
          /\ job[d].kind = "join" /\ job[d].group # NoGroup /\ job[d].base # 0
          /\ log[job[d].group] # << >> /\ Pre(job[d].on, log[job[d].group])

\* A Commit under way is its device's, built on the state the device still holds; one that
\* makes a group is the first of it, and nobody else has anything of the group.
JobOf(d) ==
    /\ job[d].kind # "none" /\ job[d].group # NoGroup /\ job[d].commit \in Commits
    /\ made[job[d].commit].by = d /\ made[job[d].commit].group = job[d].group
    /\ made[job[d].commit].on = job[d].on
    /\ held[d][job[d].group].hist = job[d].on
    /\ held[d][job[d].group].state = (IF job[d].kind = "join" THEN "joining" ELSE "staged")
    /\ IF job[d].kind = "establish" THEN job[d].on = << >> /\ job[d].base = 0 /\ pc[d] # "failed"
                                    ELSE job[d].base # 0 /\ (job[d].kind # "join" => job[d].on # << >>)
    /\ pc[d] = "accepted" => /\ Len(job[d].on) < Len(log[job[d].group])
                             /\ log[job[d].group][Len(job[d].on) + 1] = job[d].commit
    /\ pc[d] = "sent" /\ job[d].kind = "establish" =>
          log[job[d].group] = << >> /\ \A x \in Devices : x # d => held[x][job[d].group].state = "none"

OfDevice(d) == HeldOf(d) /\ PubOf(d) /\ SeenOf(d) /\ (Locked(d) => JobOf(d))

ClientInv == Shapes /\ LogInv /\ InfoInv /\ \A d \in Devices : OfDevice(d)

(***************************************************************************)
(* Catching up                                                             *)
(***************************************************************************)
\* What a device may hold of a group after a look at the log.
Advanced(d, g, s) ==
    /\ s \in States /\ Pre(s.hist, log[g])
    /\ s.state = "ok" => s.hist # << >>
    /\ \/ s = held[d][g]
       \/ /\ held[d][g].state \in {"ok", "staged"} /\ s.state = "ok"
          /\ s.since = held[d][g].since /\ Len(held[d][g].hist) <= Len(s.hist)
       \/ held[d][g].state = "none" /\ s.state = "ok" /\ log[g] # << >>

LEMMA Reached ==
    ASSUME NEW d \in Devices, NEW l \in Seq(Commits), NEW s \in States, Pre(s.hist, l)
    PROVE  \E n \in Len(s.hist) .. Len(l) : Reaches(d, s, l, n) /\ (n = Len(l) \/ ~Reaches(d, s, l, n + 1))
<1>1. s.hist \in Seq(Commits) /\ Len(s.hist) \in Nat /\ Len(l) \in Nat /\ Len(s.hist) <= Len(l)
  BY LenProperties DEF States, Pre
<1>2. PICK m \in Nat, n \in Nat : m = Len(s.hist) /\ n = Len(l) /\ m <= n
  BY <1>1
<1>3. Reaches(d, s, l, m)
  BY <1>2 DEF Reaches
<1>4. PICK T : T = {k \in m .. n : Reaches(d, s, l, k)}
  OBVIOUS
<1>5. T \subseteq 0 .. n /\ T # {}
  BY <1>2, <1>3, <1>4
<1>6. PICK x \in T : \A y \in T : y <= x
  BY <1>5, GreatestOf
<1>7. x \in m .. n /\ Reaches(d, s, l, x)
  BY <1>4, <1>6
<1>8. x = n \/ ~Reaches(d, s, l, x + 1)
  <2>1. SUFFICES ASSUME x # n, Reaches(d, s, l, x + 1) PROVE FALSE
    OBVIOUS
  <2>2. x + 1 \in T
    BY <1>2, <1>4, <1>7, <2>1
  <2> QED BY <1>6, <1>7, <2>2
<1> QED BY <1>2, <1>7, <1>8

LEMMA FollowedIs ==
    ASSUME NEW d \in Devices, NEW l \in Seq(Commits), NEW s \in States, Pre(s.hist, l)
    PROVE  LET f == Followed(d, s, l)
           IN  /\ f \in States /\ Pre(f.hist, l)
               /\ \/ f = s
                  \/ /\ s.state \in {"ok", "staged"} /\ f.state = "ok" /\ f.hist # << >>
                     /\ f.since = s.since /\ Len(s.hist) <= Len(f.hist)
<1>1. PICK n : n = CHOOSE k \in Len(s.hist) .. Len(l) :
                      Reaches(d, s, l, k) /\ (k = Len(l) \/ ~Reaches(d, s, l, k + 1))
  OBVIOUS
<1>2. n \in Len(s.hist) .. Len(l)
  BY <1>1, Reached
<1>3. s.hist \in Seq(Commits) /\ Len(s.hist) \in Nat /\ Len(l) \in Nat
  BY LenProperties DEF States
<1>4. n \in 0 .. Len(l) /\ Len(s.hist) <= n
  BY <1>2, <1>3
<1>5. PICK f : f = Followed(d, s, l)
  OBVIOUS
<1>6. f = (IF s.state \notin {"ok", "staged"} \/ n = Len(s.hist) THEN s
           ELSE [s EXCEPT !.hist = SubSeq(l, 1, n), !.state = "ok"])
  BY <1>1, <1>5 DEF Followed
<1>7. CASE f = s
  BY <1>5, <1>7
<1>8. CASE s.state \in {"ok", "staged"} /\ n # Len(s.hist)
  <2>1. PICK k : k = SubSeq(l, 1, n)
    OBVIOUS
  <2>2. k \in Seq(Commits) /\ Len(k) = n /\ Pre(k, l)
    BY <1>4, <2>1, Beginning
  <2>3. f = [s EXCEPT !.hist = k, !.state = "ok"]
    BY <1>6, <1>8, <2>1
  <2>4. f \in States /\ f.hist = k /\ f.state = "ok" /\ f.since = s.since
    BY <2>2, <2>3 DEF States
  <2>5. k # << >>
    BY <1>3, <1>4, <1>8, <2>2, EmptySeq
  <2> QED BY <1>4, <1>5, <1>8, <2>2, <2>4, <2>5
<1> QED BY <1>6, <1>7, <1>8

LEMMA HeldParts ==
    ASSUME ClientInv, NEW d \in Devices, NEW g \in Groups
    PROVE  /\ held[d][g] \in States /\ held[d][g].hist \in Seq(Commits) /\ log[g] \in Seq(Commits)
           /\ Pre(held[d][g].hist, log[g]) /\ (held[d][g].state = "ok" => held[d][g].hist # << >>)
           /\ Len(log[g]) \in Nat
<1>1. held[d][g] \in States /\ log[g] \in Seq(Commits)
  BY DEF ClientInv, Shapes, ServerShapes
<1>2. held[d][g].hist \in Seq(Commits)
  BY <1>1 DEF States
<1>3. Len(log[g]) \in Nat
  BY <1>1, LenProperties
<1> QED BY <1>1, <1>2, <1>3 DEF ClientInv, OfDevice, HeldOf

LEMMA WelcomedIs ==
    ASSUME ClientInv, NEW d \in Devices, NEW g \in Groups
    PROVE  LET w == Welcomed(d, g)
           IN  w = held[d][g] \/ /\ held[d][g].state = "none" /\ w \in States /\ w.state = "ok"
                                 /\ log[g] # << >> /\ Pre(w.hist, log[g]) /\ w.hist # << >>
<1>1. PICK w : w = Welcomed(d, g)
  OBVIOUS
<1>2. PICK W : W = Welcomes(d, g)
  OBVIOUS
<1>3. CASE Holds(d, g) \/ W = {}
  BY <1>1, <1>2, <1>3 DEF Welcomed
<1>4. CASE ~Holds(d, g) /\ W # {}
  <2>0. /\ held[d][g] \in States /\ held[d][g].hist \in Seq(Commits) /\ log[g] \in Seq(Commits)
        /\ Len(log[g]) \in Nat
    BY HeldParts
  <2>1. W \subseteq 1 .. Len(log[g])
    BY <1>2 DEF Welcomes
  <2>2. W \subseteq Nat
    BY <2>1
  <2>3. \E n \in W : \A m \in W : n <= m
    BY <1>4, <2>2, LeastOf
  <2>4. PICK e : e = CHOOSE n \in W : \A m \in W : n <= m
    OBVIOUS
  <2>5. e \in W
    BY <2>3, <2>4
  <2>6. e \in 1 .. Len(log[g])
    BY <2>1, <2>5
  <2>7. w = [state |-> "ok", hist |-> Append(made[log[g][e]].on, log[g][e]), since |-> e]
    BY <1>1, <1>2, <1>4, <2>4 DEF Welcomed
  <2>8. PICK on \in Seq(Commits), c \in Commits :
          on = SubSeq(log[g], 1, e - 1) /\ c = log[g][e] /\ made[log[g][e]].on = on /\ Len(on) = e - 1 /\ Pre(on, log[g])
    <3>1. made[log[g][e]].on = SubSeq(log[g], 1, e - 1)
      BY <2>6 DEF ClientInv, LogInv
    <3>2. e - 1 \in 0 .. Len(log[g])
      BY <2>0, <2>6
    <3> QED BY <2>0, <2>6, <3>1, <3>2, Beginning, ElementOfSeq
  <2>9. PICK k : k = Append(on, c)
    OBVIOUS
  <2>10. k \in Seq(Commits) /\ k # << >>
    BY <2>9, Appended
  <2>11. Pre(k, log[g])
    <3>1. Len(on) + 1 = e /\ Len(on) < Len(log[g])
      BY <2>0, <2>6, <2>8
    <3>2. c = log[g][Len(on) + 1]
      BY <2>8, <3>1
    <3> QED BY <2>0, <2>8, <2>9, <3>1, <3>2, PreExtends
  <2>12. w.state = "ok" /\ w.hist = k /\ w.since = e
    BY <2>7, <2>8, <2>9
  <2>13. w \in States
    BY <2>0, <2>6, <2>7, <2>8, <2>9, <2>10 DEF States
  <2>14. log[g] # << >>
    BY <2>6, EmptySeq
  <2> QED BY <1>1, <1>4, <2>10, <2>11, <2>12, <2>13, <2>14 DEF Holds
<1> QED BY <1>3, <1>4

LEMMA StaysIsAdvanced ==
    ASSUME ClientInv, NEW d \in Devices, NEW g \in Groups
    PROVE  Advanced(d, g, held[d][g])
BY HeldParts DEF Advanced

LEMMA WelcomedIsAdvanced ==
    ASSUME ClientInv, NEW d \in Devices, NEW g \in Groups
    PROVE  Advanced(d, g, Welcomed(d, g))
<1>1. PICK w : w = Welcomed(d, g)
  OBVIOUS
<1>2. w = held[d][g] \/ /\ held[d][g].state = "none" /\ w \in States /\ w.state = "ok"
                        /\ log[g] # << >> /\ Pre(w.hist, log[g]) /\ w.hist # << >>
  BY <1>1, WelcomedIs
<1>3. Advanced(d, g, w)
  BY <1>2, StaysIsAdvanced DEF Advanced
<1> QED BY <1>1, <1>3

LEMMA FollowedIsAdvanced ==
    ASSUME ClientInv, NEW d \in Devices, NEW g \in Groups
    PROVE  Advanced(d, g, Followed(d, Welcomed(d, g), log[g]))
<1>1. PICK w : w = Welcomed(d, g)
  OBVIOUS
<1>2. Advanced(d, g, w)
  BY <1>1, WelcomedIsAdvanced
<1>3. w \in States /\ Pre(w.hist, log[g]) /\ log[g] \in Seq(Commits)
  BY <1>2, HeldParts DEF Advanced
<1>4. PICK f : f = Followed(d, w, log[g])
  OBVIOUS
<1>5. /\ f \in States /\ Pre(f.hist, log[g])
      /\ \/ f = w
         \/ /\ w.state \in {"ok", "staged"} /\ f.state = "ok" /\ f.hist # << >>
            /\ f.since = w.since /\ Len(w.hist) <= Len(f.hist)
  BY <1>3, <1>4, FollowedIs
<1>6. Len(w.hist) \in Nat /\ Len(f.hist) \in Nat /\ Len(held[d][g].hist) \in Nat
  BY <1>3, <1>5, HeldParts, LenProperties DEF States
<1>7. Advanced(d, g, f)
  BY <1>2, <1>5, <1>6 DEF Advanced
<1> QED BY <1>1, <1>4, <1>7

LEMMA CaughtUpIs ==
    ASSUME ClientInv, NEW d \in Devices, NEW g \in Groups, NEW h \in CaughtUp(d, g)
    PROVE  h \in [Groups -> States] /\ \A x \in Groups : Advanced(d, x, h[x])
<1>0. held[d] \in [Groups -> States] /\ current \in Groups \cup {NoGroup}
  BY DEF ClientInv, Shapes, ServerShapes
<1>1. PICK f : f = Followed(d, Welcomed(d, g), log[g])
  OBVIOUS
<1>2. Advanced(d, g, f)
  BY <1>1, FollowedIsAdvanced
<1>3. \A x \in Groups : Advanced(d, x, held[d][x]) /\ Advanced(d, x, Welcomed(d, x))
  BY StaysIsAdvanced, WelcomedIsAdvanced
<1>4. \A x \in Groups : Welcomed(d, x) \in States
  BY <1>3 DEF Advanced
<1>5. f \in States
  BY <1>2 DEF Advanced
<1>6. CASE current = g \/ (current = NoGroup /\ Holds(d, g))
  <2>1. h = [held[d] EXCEPT ![g] = f]
    BY <1>1, <1>6, ClientAssumption DEF CaughtUp
  <2> QED BY <1>0, <1>2, <1>3, <1>5, <2>1
<1>7. CASE current \notin {g, NoGroup} /\ Holds(d, g)
  <2>1. h = held[d]
    BY <1>7 DEF CaughtUp
  <2> QED BY <1>0, <1>3, <2>1
<1>8. CASE current # g /\ ~Holds(d, g) /\ current = NoGroup
  <2>1. PICK S \in SUBSET (Groups \ {g}) : h = [x \in Groups |-> CASE x = g -> f
                                                          [] x \in S -> Welcomed(d, x)
                                                          [] OTHER -> held[d][x]]
    BY <1>1, <1>8 DEF CaughtUp
  <2>2. \A x \in Groups : (h[x] = f /\ x = g) \/ h[x] = Welcomed(d, x) \/ h[x] = held[d][x]
    BY <2>1
  <2>3. \A x \in Groups : Advanced(d, x, h[x])
    BY <1>2, <1>3, <2>2
  <2>4. h \in [Groups -> States]
    BY <1>0, <1>4, <1>5, <2>1
  <2> QED BY <2>3, <2>4
<1>9. CASE current # g /\ ~Holds(d, g) /\ current # NoGroup
  <2>1. h = [held[d] EXCEPT ![current] = Welcomed(d, current)]
    BY <1>9 DEF CaughtUp
  <2> QED BY <1>0, <1>3, <1>4, <1>9, <2>1
<1> QED BY <1>6, <1>7, <1>8, <1>9

(***************************************************************************)
(* What a step of one device leaves to the others                          *)
(***************************************************************************)
LogsGrow == \A g \in Groups : log'[g] = log[g] \/ \E c \in Commits : log'[g] = Append(log[g], c)

Framed(d) ==
    /\ \A x \in Devices : x # d => /\ pc'[x] = pc[x] /\ seen'[x] = seen[x] /\ job'[x] = job[x]
                                   /\ pub'[x] = pub[x] /\ held'[x] = held[x]
    /\ LogsGrow
    /\ \A c \in Commits : made[c].by \in Devices \ {d} /\ made[c].group # NoGroup => made'[c] = made[c]
    \* A group that another device is making is left to it.
    /\ \A g \in Groups : /\ log[g] = << >> /\ held[d][g].state = "none"
                         /\ \E x \in Devices : x # d /\ held[x][g].state # "none"
                         => log'[g] = << >> /\ held'[d][g].state = "none"

LEMMA StillPre ==
    ASSUME Shapes, LogsGrow, NEW g \in Groups, NEW h \in Seq(Commits), Pre(h, log[g])
    PROVE  Pre(h, log'[g])
<1>1. log[g] \in Seq(Commits)
  BY DEF Shapes, ServerShapes
<1>2. CASE log'[g] = log[g]
  BY <1>2
<1>3. CASE \E c \in Commits : log'[g] = Append(log[g], c)
  <2>1. PICK c \in Commits : log'[g] = Append(log[g], c)
    BY <1>3
  <2> QED BY <1>1, <2>1, PreGrows
<1> QED BY <1>2, <1>3 DEF LogsGrow

LEMMA StillLogged ==
    ASSUME Shapes, LogsGrow, NEW g \in Groups
    PROVE  /\ log[g] # << >> => log'[g] # << >>
           /\ \A n \in Nat : n < Len(log[g]) => n < Len(log'[g]) /\ log'[g][n + 1] = log[g][n + 1]
<1>1. log[g] \in Seq(Commits) /\ Len(log[g]) \in Nat
  BY LenProperties DEF Shapes, ServerShapes
<1>2. CASE log'[g] = log[g]
  BY <1>2
<1>3. CASE \E c \in Commits : log'[g] = Append(log[g], c)
  <2>0. PICK l : log'[g] = l
    OBVIOUS
  <2>1. PICK c \in Commits : log'[g] = l /\ l = Append(log[g], c)
    BY <1>3, <2>0
  <2>2. Len(l) = Len(log[g]) + 1 /\ l # << >> /\ \A i \in 1 .. Len(log[g]) : l[i] = log[g][i]
    BY <1>1, <2>1, Appended
  <2> QED BY <1>1, <2>1, <2>2
<1> QED BY <1>2, <1>3 DEF LogsGrow

LEMMA RecordParts ==
    ASSUME Shapes, NEW d \in Devices
    PROVE  /\ job[d].on \in Seq(Commits) /\ job[d].group \in Groups \cup {NoGroup} /\ job[d].base \in Nat
           /\ pub[d].on \in Seq(Commits) /\ pub[d].group \in Groups \cup {NoGroup} /\ pub[d].epoch \in Nat
           /\ seen[d].group \in Groups \cup {NoGroup} /\ seen[d].epoch \in Nat /\ job[d].who \subseteq Devices
           /\ info.on \in Seq(Commits) /\ info.group \in Groups \cup {NoGroup} /\ info.epoch \in Nat
           /\ Len(job[d].on) \in Nat
           /\ job[d] \in Jobs /\ pub[d] \in Publications /\ seen[d] \in Looks
<1>1. job[d] \in Jobs /\ pub[d] \in Publications /\ seen[d] \in Looks /\ info \in Infos
  BY DEF Shapes, ServerShapes, DeviceShapes
<1>2. job[d].on \in Seq(Commits)
  BY <1>1 DEF Jobs
<1>3. Len(job[d].on) \in Nat
  BY <1>2, LenProperties
<1> QED BY <1>1, <1>2, <1>3 DEF Jobs, Publications, Looks, Infos

LEMMA HeldStays ==
    ASSUME ClientInv, LogsGrow, NEW x \in Devices, held'[x] = held[x]
    PROVE  HeldOf(x)'
<1>1. SUFFICES ASSUME NEW g \in Groups
               PROVE  Pre(held[x][g].hist, log'[g]) /\ (held[x][g].state = "ok" => held[x][g].hist # << >>)
  BY DEF HeldOf
<1> QED BY HeldParts, StillPre DEF ClientInv

LEMMA PubStays ==
    ASSUME ClientInv, LogsGrow, NEW x \in Devices, pub'[x] = pub[x]
    PROVE  PubOf(x)'
<1>1. pub[x].on \in Seq(Commits) /\ pub[x].group \in Groups \cup {NoGroup}
  BY RecordParts DEF ClientInv
<1>2. PubOf(x)
  BY DEF ClientInv, OfDevice
<1> QED BY <1>1, <1>2, StillPre DEF PubOf, ClientInv

LEMMA InfoStays ==
    ASSUME ClientInv, LogsGrow, info' = info
    PROVE  InfoInv'
<1>1. info.on \in Seq(Commits) /\ info.group \in Groups \cup {NoGroup}
  BY DEF ClientInv, Shapes, ServerShapes, Infos
<1> QED BY <1>1, StillPre DEF InfoInv, ClientInv

LEMMA SeenStays ==
    ASSUME ClientInv, LogsGrow, NEW x \in Devices, pc'[x] = pc[x], seen'[x] = seen[x], job'[x] = job[x]
    PROVE  SeenOf(x)'
<1>1. job[x].on \in Seq(Commits) /\ job[x].group \in Groups \cup {NoGroup}
  BY RecordParts DEF ClientInv
<1>2. SeenOf(x)
  BY DEF ClientInv, OfDevice
<1>3. pc[x] = "fetched" => log'[job[x].group] # << >> /\ Pre(job[x].on, log'[job[x].group])
  BY <1>1, <1>2, StillPre, StillLogged DEF SeenOf, ClientInv
<1> QED BY <1>2, <1>3 DEF SeenOf, Locked

LEMMA JobStays ==
    ASSUME ClientInv, NEW d \in Devices, Framed(d), NEW x \in Devices, x # d, Locked(x)
    PROVE  JobOf(x)'
<1>1. JobOf(x)
  BY DEF ClientInv, OfDevice
<1>0. PICK j : j = job[x]
  OBVIOUS
<1>2. PICK g \in Groups : j = job[x] /\ g = j.group
  <2>1. job[x].group \in Groups
    BY <1>1, RecordParts DEF JobOf, ClientInv
  <2> QED BY <1>0, <2>1
<1>3. /\ j.kind # "none" /\ g # NoGroup /\ j.commit \in Commits
      /\ made[j.commit].by = x /\ made[j.commit].group = g
      /\ made[j.commit].on = j.on
      /\ held[x][g].hist = j.on
      /\ held[x][g].state = (IF j.kind = "join" THEN "joining" ELSE "staged")
      /\ IF j.kind = "establish" THEN j.on = << >> /\ j.base = 0 /\ pc[x] # "failed"
                                 ELSE j.base # 0 /\ (j.kind # "join" => j.on # << >>)
      /\ pc[x] = "accepted" => Len(j.on) < Len(log[g]) /\ log[g][Len(j.on) + 1] = j.commit
      /\ pc[x] = "sent" /\ j.kind = "establish" =>
          log[g] = << >> /\ \A y \in Devices : y # x => held[y][g].state = "none"
  BY <1>1, <1>2 DEF JobOf
<1>4. Len(j.on) \in Nat
  BY <1>2, RecordParts DEF ClientInv
<1>5. made'[j.commit] = made[j.commit]
  BY <1>3 DEF Framed
<1>6. pc'[x] = pc[x] /\ job'[x] = j /\ held'[x] = held[x]
  BY <1>2 DEF Framed
<1>7. pc[x] = "accepted" => Len(j.on) < Len(log'[g]) /\ log'[g][Len(j.on) + 1] = j.commit
  BY <1>3, <1>4, StillLogged DEF Framed, ClientInv
<1>8. pc[x] = "sent" /\ j.kind = "establish" =>
          log'[g] = << >> /\ \A y \in Devices : y # x => held'[y][g].state = "none"
  <2>1. SUFFICES ASSUME pc[x] = "sent", j.kind = "establish"
                 PROVE  log'[g] = << >> /\ \A y \in Devices : y # x => held'[y][g].state = "none"
    OBVIOUS
  <2>2. held[x][g].state # "none"
    BY <1>3
  <2>3. log'[g] = << >> /\ held'[d][g].state = "none"
    BY <1>3, <2>1, <2>2 DEF Framed
  <2> QED BY <1>3, <2>1, <2>3 DEF Framed
<1> QED BY <1>2, <1>3, <1>5, <1>6, <1>7, <1>8 DEF JobOf

LEMMA OthersKeep ==
    ASSUME ClientInv, NEW d \in Devices, Framed(d), NEW x \in Devices, x # d
    PROVE  OfDevice(x)'
<1>1. /\ pc'[x] = pc[x] /\ seen'[x] = seen[x] /\ job'[x] = job[x]
      /\ pub'[x] = pub[x] /\ held'[x] = held[x] /\ LogsGrow
  BY DEF Framed
<1>2. HeldOf(x)' /\ PubOf(x)' /\ SeenOf(x)'
  BY <1>1, HeldStays, PubStays, SeenStays
<1>3. Locked(x)' => Locked(x)
  BY <1>1 DEF Locked
<1>4. Locked(x) => JobOf(x)'
  BY JobStays
<1> QED BY <1>2, <1>3, <1>4 DEF OfDevice

LEMMA StepOf ==
    ASSUME ClientInv, NEW d \in Devices, Framed(d), Shapes', LogInv', InfoInv', OfDevice(d)'
    PROVE  ClientInv'
<1>1. \A x \in Devices : x # d => OfDevice(x)'
  BY OthersKeep
<1>2. \A x \in Devices : OfDevice(x)'
  BY <1>1
<1> QED BY <1>2 DEF ClientInv

LEMMA LogStays ==
    ASSUME ClientInv, log' = log, current' \in {current, NoGroup}, \A c \in Commits : InLog(c) => made'[c] = made[c]
    PROVE  LogInv' /\ LogsGrow
<1>1. ASSUME NEW g \in Groups, NEW i \in 1 .. Len(log[g]) PROVE made'[log[g][i]] = made[log[g][i]]
  <2>1. log[g] \in Seq(Commits)
    BY DEF ClientInv, Shapes, ServerShapes
  <2>2. log[g][i] \in Commits
    BY <2>1, ElementOfSeq
  <2> QED BY <2>2 DEF InLog
<1>2. LogInv
  BY DEF ClientInv
<1>3. \A g \in Groups : \A i \in 1 .. Len(log[g]) :
          made'[log[g][i]].group = g /\ made'[log[g][i]].on = SubSeq(log[g], 1, i - 1)
  BY <1>1, <1>2 DEF LogInv
<1>4. current' # NoGroup => log[current'] # << >>
  BY <1>2 DEF LogInv
<1>5. LogInv'
  BY <1>3, <1>4 DEF LogInv
<1> QED BY <1>5 DEF LogsGrow

(***************************************************************************)
(* Steps that leave the logs, the Commits and what is held                 *)
(***************************************************************************)
OnlyOf(d) == \A x \in Devices : x # d => /\ pc'[x] = pc[x] /\ seen'[x] = seen[x] /\ job'[x] = job[x]
                                         /\ pub'[x] = pub[x]

QuietBy(d) ==
    /\ UNCHANGED <<log, made, held, info>> /\ current' \in {current, NoGroup}
    /\ published' \subseteq Devices /\ revoked' \subseteq Devices
    /\ OnlyOf(d) /\ DeviceShapes'

LEMMA QuietStep ==
    ASSUME ClientInv, NEW d \in Devices, QuietBy(d), PubOf(d)', SeenOf(d)', Locked(d)' => JobOf(d)'
    PROVE  ClientInv'
<1>1. LogInv' /\ LogsGrow
  BY LogStays DEF QuietBy
<1>2. HeldOf(d)' /\ InfoInv'
  BY <1>1, HeldStays, InfoStays DEF QuietBy
<1>3. Framed(d)
  BY <1>1 DEF QuietBy, OnlyOf, Framed
<1>4. Shapes'
  BY DEF QuietBy, ClientInv, Shapes, ServerShapes
<1> QED BY <1>1, <1>2, <1>3, <1>4, StepOf DEF OfDevice

LEMMA SameIsExcept ==
    ASSUME Shapes, NEW d \in Devices
    PROVE  /\ pc = [pc EXCEPT ![d] = pc[d]] /\ seen = [seen EXCEPT ![d] = seen[d]]
           /\ job = [job EXCEPT ![d] = job[d]] /\ pub = [pub EXCEPT ![d] = pub[d]]
           /\ pc[d] \in Places /\ seen[d] \in Looks /\ job[d] \in Jobs /\ pub[d] \in Publications
BY DEF Shapes, DeviceShapes

LEMMA Blanks == /\ Unseen \in Looks /\ NoJob \in Jobs /\ Idle \in Publications
                /\ None \in States /\ Unmade \in CommitRecords /\ NoInfo \in Infos
                /\ None.hist = << >> /\ None.state = "none" /\ Idle.step = "off"
<1>1. << >> \in Seq(Commits)
  BY EmptySeq
<1> QED BY <1>1 DEF Unseen, Looks, NoJob, Jobs, Idle, Publications, None, States, Unmade, CommitRecords, NoInfo, Infos

\* The settle of a device is over.
LEMMA OverIs ==
    ASSUME ClientInv, NEW d \in Devices, Over(d), NEW b \in Publications, pub' = [pub EXCEPT ![d] = b]
    PROVE  DeviceShapes' /\ OnlyOf(d) /\ pub'[d] = b /\ pc'[d] = "idle" /\ SeenOf(d)' /\ ~Locked(d)'
<1>0. DeviceShapes
  BY DEF ClientInv, Shapes
<1>1. DeviceShapes' /\ OnlyOf(d) /\ pub'[d] = b /\ pc'[d] = "idle"
  <2>1. pc' \in [Devices -> Places] /\ pc'[d] = "idle" /\ \A x \in Devices : x # d => pc'[x] = pc[x]
    BY <1>0 DEF Over, DeviceShapes, Places
  <2>2. seen' \in [Devices -> Looks] /\ \A x \in Devices : x # d => seen'[x] = seen[x]
    BY <1>0, Blanks DEF Over, DeviceShapes
  <2>3. job' \in [Devices -> Jobs] /\ \A x \in Devices : x # d => job'[x] = job[x]
    BY <1>0, Blanks DEF Over, DeviceShapes
  <2>4. pub' \in [Devices -> Publications] /\ pub'[d] = b /\ \A x \in Devices : x # d => pub'[x] = pub[x]
    BY <1>0 DEF DeviceShapes
  <2> QED BY <2>1, <2>2, <2>3, <2>4 DEF DeviceShapes, OnlyOf
<1>2. ~Locked(d)'
  BY <1>1 DEF Locked
<1>3. SeenOf(d)'
  BY <1>1, <1>2 DEF SeenOf
<1> QED BY <1>1, <1>2, <1>3

\* What a device publishes after StartPublishing.
LEMMA StartIs ==
    ASSUME ClientInv, LogsGrow, NEW d \in Devices, NEW g \in Groups, StartPublishing(d, g)
    PROVE  \E b \in Publications : pub' = [pub EXCEPT ![d] = b] /\ PubOf(d)'
<1>1. pub[d] \in Publications /\ PubOf(d) /\ pub \in [Devices -> Publications]
  BY RecordParts DEF ClientInv, OfDevice, Shapes, DeviceShapes
<1>2. PICK s : s = [Idle EXCEPT !.step = "export", !.group = g]
  OBVIOUS
<1>3. s \in Publications /\ s.step = "export" /\ s.group = g
  BY <1>2, Blanks DEF Publications, Idle
<1>4. PICK b : b = pub'[d]
  OBVIOUS
<1>5. b \in {s, pub[d]} /\ pub' = [pub EXCEPT ![d] = b]
  BY <1>1, <1>2, <1>4 DEF StartPublishing
<1>6. CASE b = s
  BY <1>3, <1>4, <1>6, <1>5, ClientAssumption DEF PubOf
<1>7. CASE b = pub[d]
  BY <1>1, <1>4, <1>5, <1>7, PubStays
<1> QED BY <1>1, <1>3, <1>5, <1>6, <1>7

LEMMA EpochIs ==
    ASSUME ClientInv
    PROVE  Epoch \in Nat /\ (current # NoGroup => Epoch # 0 /\ Epoch = Len(log[current]))
<1>1. CASE current = NoGroup
  BY <1>1 DEF Epoch
<1>2. CASE current # NoGroup
  <2>1. log[current] \in Seq(Commits) /\ log[current] # << >>
    BY <1>2 DEF ClientInv, Shapes, ServerShapes, LogInv
  <2> QED BY <1>2, <2>1, EmptySeq, LenProperties DEF Epoch
<1> QED BY <1>1, <1>2

LEMMA ReadStateKeeps ==
    ASSUME ClientInv, NEW d \in Devices, ReadState(d)
    PROVE  ClientInv'
<1>1. PICK s : s = [group |-> current, epoch |-> Epoch, settling |-> TRUE]
  OBVIOUS
<1>2. s \in Looks /\ s.group = current
  BY <1>1, EpochIs DEF Looks, ClientInv, Shapes, ServerShapes
<1>3. PICK p : p = IF current = NoGroup THEN "establish" ELSE "catchup"
  OBVIOUS
<1>4. p \in Places
  BY <1>3 DEF Places
<1>5. DeviceShapes' /\ OnlyOf(d) /\ pc'[d] = p /\ seen'[d] = s /\ pub'[d] = pub[d]
  BY <1>1, <1>2, <1>3, <1>4 DEF ReadState, own, ClientInv, Shapes, DeviceShapes, OnlyOf
<1>6. UNCHANGED <<published, revoked, current, log, info, made, held>>
  BY DEF ReadState, server
<1>7. ~Locked(d)' /\ SeenOf(d)'
  BY <1>2, <1>3, <1>5 DEF SeenOf, Locked
<1>8. QuietBy(d) /\ LogsGrow
  BY <1>5, <1>6 DEF QuietBy, ClientInv, Shapes, ServerShapes, LogsGrow
<1> QED BY <1>5, <1>7, <1>8, PubStays, QuietStep

LEMMA OverKeeps ==
    ASSUME ClientInv, NEW d \in Devices, Over(d), UNCHANGED <<published, revoked, current, log, info, made, held>>,
           pub' = pub \/ \E g \in Groups : StartPublishing(d, g)
    PROVE  ClientInv'
<1>1. LogsGrow
  BY DEF LogsGrow
<1>2. \E b \in Publications : pub' = [pub EXCEPT ![d] = b] /\ PubOf(d)'
  <2>1. CASE pub' = pub
    BY <1>1, <2>1, SameIsExcept, PubStays DEF ClientInv
  <2>2. CASE \E g \in Groups : StartPublishing(d, g)
    BY <1>1, <2>2, StartIs
  <2> QED BY <2>1, <2>2
<1>3. DeviceShapes' /\ OnlyOf(d) /\ SeenOf(d)' /\ ~Locked(d)'
  BY <1>2, OverIs
<1>4. QuietBy(d)
  BY <1>3 DEF QuietBy, ClientInv, Shapes, ServerShapes
<1> QED BY <1>2, <1>3, <1>4, QuietStep

LEMMA SeenIsGroup ==
    ASSUME ClientInv, NEW d \in Devices,
           pc[d] \in {"catchup", "behind", "join", "fetched", "giveup", "reconcile", "stage", "again"}
    PROVE  seen[d].group \in Groups
BY RecordParts DEF ClientInv, OfDevice, SeenOf

LEMMA EndsKeep ==
    ASSUME ClientInv, NEW d \in Devices, NobodyThere(d) \/ AlreadyIn(d) \/ Reconciled(d) \/ CannotStage(d)
    PROVE  ClientInv'
<1>1. CASE NobodyThere(d)
  BY <1>1, OverKeeps DEF NobodyThere, server, own
<1>2. CASE AlreadyIn(d)
  BY <1>2, OverKeeps, SeenIsGroup DEF AlreadyIn, server
<1>3. CASE Reconciled(d)
  BY <1>3, OverKeeps, SeenIsGroup DEF Reconciled, server
<1>4. CASE CannotStage(d)
  BY <1>4, OverKeeps, SeenIsGroup DEF CannotStage, server
<1> QED BY <1>1, <1>2, <1>3, <1>4

LEMMA FetchInfoKeeps ==
    ASSUME ClientInv, NEW d \in Devices, FetchInfo(d)
    PROVE  ClientInv'
<1>1. PICK g : g = seen[d].group
  OBVIOUS
<1>2. g \in Groups /\ pc[d] = "join" /\ Served(g)
  BY <1>1, SeenIsGroup DEF FetchInfo
<1>3. g # NoGroup /\ info.group = g /\ current = g /\ info.epoch # 0 /\ info.on \in Seq(Commits) /\ info.epoch \in Nat
  BY <1>2, EpochIs, RecordParts, ClientAssumption DEF Served, ClientInv
<1>4. Pre(info.on, log[g]) /\ log[g] # << >>
  BY <1>3 DEF ClientInv, InfoInv, LogInv
<1>5. PICK j : j = [NoJob EXCEPT !.kind = "join", !.group = g, !.base = info.epoch, !.on = info.on]
  OBVIOUS
<1>6. j \in Jobs /\ j.kind = "join" /\ j.group = g /\ j.base = info.epoch /\ j.on = info.on
  BY <1>2, <1>3, <1>5 DEF Jobs, NoJob
<1>7. DeviceShapes' /\ OnlyOf(d) /\ pc'[d] = "fetched" /\ seen'[d] = seen[d] /\ job'[d] = j /\ pub'[d] = pub[d]
  <2>1. "fetched" \in Places
    BY DEF Places
  <2> QED BY <1>1, <1>5, <1>6, <2>1 DEF FetchInfo, own, ClientInv, Shapes, DeviceShapes, OnlyOf
<1>8. UNCHANGED <<published, revoked, current, log, info, made, held>>
  BY DEF FetchInfo, server
<1>9. ~Locked(d)'
  BY <1>7 DEF Locked
<1>10. SeenOf(d)'
  BY <1>1, <1>3, <1>4, <1>6, <1>7, <1>8, <1>9 DEF SeenOf
<1>11. QuietBy(d) /\ LogsGrow
  BY <1>7, <1>8 DEF QuietBy, ClientInv, Shapes, ServerShapes, LogsGrow
<1> QED BY <1>7, <1>9, <1>10, <1>11, PubStays, QuietStep

\* A settle that goes on elsewhere, with the job it had.
LEMMA GoesTo ==
    ASSUME ClientInv, NEW d \in Devices, NEW p \in Places \ {"sent", "accepted", "refused", "failed", "fetched"},
           NEW s \in Looks, NEW j \in Jobs,
           p \in {"catchup", "behind", "join", "giveup", "reconcile", "stage", "again"} => s.group # NoGroup,
           p = "stage" => j.kind \in {"add", "prune"},
           pc' = [pc EXCEPT ![d] = p], seen' = [seen EXCEPT ![d] = s], job' = [job EXCEPT ![d] = j], pub' = pub
    PROVE  DeviceShapes' /\ OnlyOf(d) /\ SeenOf(d)' /\ ~Locked(d)' /\ pub'[d] = pub[d]
<1>1. /\ DeviceShapes' /\ OnlyOf(d) /\ pub'[d] = pub[d]
      /\ pc'[d] = p /\ seen'[d] = s /\ job'[d] = j
  BY DEF ClientInv, Shapes, DeviceShapes, OnlyOf
<1>2. ~Locked(d)'
  BY <1>1 DEF Locked, Places
<1>3. SeenOf(d)'
  BY <1>1, <1>2 DEF SeenOf
<1> QED BY <1>1, <1>2, <1>3

LEMMA GoesQuietly ==
    ASSUME ClientInv, NEW d \in Devices, UNCHANGED <<log, made, held, info, published, revoked>>,
           current' \in {current, NoGroup},
           DeviceShapes', OnlyOf(d), SeenOf(d)', ~Locked(d)', pub'[d] = pub[d]
    PROVE  ClientInv'
<1>1. QuietBy(d) /\ LogsGrow
  BY DEF QuietBy, ClientInv, Shapes, ServerShapes, LogsGrow
<1> QED BY <1>1, PubStays, QuietStep

LEMMA AnnounceKeeps ==
    ASSUME ClientInv, NEW d \in Devices, Announce(d)
    PROVE  ClientInv'
<1>1. CASE Over(d)
  BY <1>1, OverKeeps DEF Announce, server
<1>2. CASE pc' = [pc EXCEPT ![d] = "giveup"] /\ UNCHANGED <<seen, job>>
  <2>1. seen[d].group # NoGroup /\ seen[d] \in Looks /\ job[d] \in Jobs /\ "giveup" \in Places
    BY SeenIsGroup, RecordParts, ClientAssumption DEF Announce, ClientInv, Places
  <2>2. seen' = [seen EXCEPT ![d] = seen[d]] /\ job' = [job EXCEPT ![d] = job[d]] /\ pub' = pub
    BY <1>2, SameIsExcept DEF Announce, ClientInv
  <2>3. DeviceShapes' /\ OnlyOf(d) /\ SeenOf(d)' /\ ~Locked(d)' /\ pub'[d] = pub[d]
    BY <1>2, <2>1, <2>2, GoesTo
  <2> QED BY <2>3, GoesQuietly DEF Announce, server
<1> QED BY <1>1, <1>2 DEF Announce

LEMMA GiveUpKeeps ==
    ASSUME ClientInv, NEW d \in Devices, GiveUp(d)
    PROVE  ClientInv'
<1>1. seen[d] \in Looks /\ job[d] \in Jobs /\ "settle" \in Places
  BY RecordParts DEF ClientInv, Places
<1>2. seen' = [seen EXCEPT ![d] = seen[d]] /\ job' = [job EXCEPT ![d] = job[d]] /\ pub' = pub
  BY SameIsExcept DEF GiveUp, ClientInv
<1>3. DeviceShapes' /\ OnlyOf(d) /\ SeenOf(d)' /\ ~Locked(d)' /\ pub'[d] = pub[d]
  BY <1>1, <1>2, GoesTo DEF GiveUp
<1> QED BY <1>3, GoesQuietly DEF GiveUp

LEMMA LookKeeps ==
    ASSUME ClientInv, NEW d \in Devices, Look(d)
    PROVE  ClientInv'
<1>1. seen[d] \in Looks /\ seen[d].group # NoGroup /\ "stage" \in Places
  BY SeenIsGroup, RecordParts, ClientAssumption DEF Look, ClientInv, Places
<1>2. PICK who : who = IF Stale(d) # {} THEN Stale(d) ELSE Missing(d)
  OBVIOUS
<1>3. who \subseteq Devices
  BY <1>2 DEF Stale, Missing, ClientInv, Shapes, ServerShapes
<1>4. PICK kind \in {"add", "prune"} : kind = IF Stale(d) # {} THEN "prune" ELSE "add"
  OBVIOUS
<1>5. PICK j : j = [NoJob EXCEPT !.kind = kind, !.who = who]
  OBVIOUS
<1>6. j \in Jobs /\ j.kind = kind
  BY <1>3, <1>5, Blanks DEF NoJob, Jobs
<1>7. job' = [job EXCEPT ![d] = j]
  BY <1>2, <1>4, <1>5 DEF Look
<1>8. seen' = [seen EXCEPT ![d] = seen[d]] /\ pub' = pub
  BY SameIsExcept DEF Look, ClientInv, own
<1>9. DeviceShapes' /\ OnlyOf(d) /\ SeenOf(d)' /\ ~Locked(d)' /\ pub'[d] = pub[d]
  BY <1>1, <1>6, <1>7, <1>8, GoesTo DEF Look
<1> QED BY <1>9, GoesQuietly DEF Look, server

LEMMA NothingMoves ==
    ASSUME ClientInv, NEW d \in Devices, UNCHANGED <<log, made, held, info, pc, seen, job, pub>>,
           current' \in {current, NoGroup}, published' \subseteq Devices, revoked' \subseteq Devices
    PROVE  ClientInv'
<1>1. LogsGrow /\ QuietBy(d)
  BY DEF LogsGrow, QuietBy, OnlyOf, ClientInv, Shapes, DeviceShapes
<1>2. PubOf(d)' /\ SeenOf(d)'
  BY <1>1, PubStays, SeenStays
<1>3. Locked(d)' => JobOf(d)'
  BY DEF Locked, JobOf, ClientInv, OfDevice
<1> QED BY <1>1, <1>2, <1>3, QuietStep

LEMMA AdmitKeeps ==
    ASSUME ClientInv, NEW d \in Devices, Admit(d)
    PROVE  ClientInv'
<1>1. CASE current # NoGroup /\ Holds(d, current)
  <2>1. PICK s : s = [group |-> current, epoch |-> Epoch, settling |-> FALSE]
    OBVIOUS
  <2>2. s \in Looks /\ s.group # NoGroup /\ "reconcile" \in Places /\ job[d] \in Jobs
    BY <1>1, <2>1, EpochIs, RecordParts DEF Looks, ClientInv, Shapes, ServerShapes, Places
  <2>3. /\ seen' = [seen EXCEPT ![d] = s] /\ pc' = [pc EXCEPT ![d] = "reconcile"]
        /\ job' = [job EXCEPT ![d] = job[d]] /\ pub' = pub
    BY <1>1, <2>1, SameIsExcept DEF Admit, ClientInv
  <2>4. DeviceShapes' /\ OnlyOf(d) /\ SeenOf(d)' /\ ~Locked(d)' /\ pub'[d] = pub[d]
    BY <2>2, <2>3, GoesTo
  <2> QED BY <2>4, GoesQuietly DEF Admit, server
<1>2. CASE ~(current # NoGroup /\ Holds(d, current))
  BY <1>2, NothingMoves DEF Admit, server, ClientInv, Shapes, ServerShapes
<1> QED BY <1>1, <1>2

LEMMA DirectoryKeeps ==
    ASSUME ClientInv, NEW d \in Devices, Publish(d) \/ Tombstone(d)
    PROVE  ClientInv'
BY NothingMoves DEF Publish, Tombstone, own, ClientInv, Shapes, ServerShapes

LEMMA RetireKeeps ==
    ASSUME ClientInv, NEW d \in Devices, Retire(d)
    PROVE  ClientInv'
<1>1. CASE pc[d] = "idle"
  <2>1. seen[d] \in Looks /\ job[d] \in Jobs /\ "settle" \in Places
    BY RecordParts DEF ClientInv, Places
  <2>2. /\ seen' = [seen EXCEPT ![d] = seen[d]] /\ job' = [job EXCEPT ![d] = job[d]] /\ pub' = pub
        /\ pc' = [pc EXCEPT ![d] = "settle"]
    BY <1>1, SameIsExcept DEF Retire, ClientInv
  <2>3. DeviceShapes' /\ OnlyOf(d) /\ SeenOf(d)' /\ ~Locked(d)' /\ pub'[d] = pub[d]
    BY <2>1, <2>2, GoesTo
  <2> QED BY <2>3, GoesQuietly DEF Retire
<1>2. CASE pc[d] # "idle"
  <2>1. pc' = pc
    BY <1>2, SameIsExcept DEF Retire, ClientInv
  <2> QED BY <2>1, NothingMoves DEF Retire, ClientInv, Shapes, ServerShapes
<1> QED BY <1>1, <1>2

\* A GroupInfo goes on its way.
LEMMA PublicationKeeps ==
    ASSUME ClientInv, NEW d \in Devices, UNCHANGED <<log, made, held, info, revoked, current, pc, seen, job>>,
           published' \subseteq Devices, NEW b \in Publications, pub' = [pub EXCEPT ![d] = b], PubOf(d)'
    PROVE  ClientInv'
<1>1. LogsGrow
  BY DEF LogsGrow
<1>2. QuietBy(d)
  BY DEF QuietBy, OnlyOf, ClientInv, Shapes, DeviceShapes, ServerShapes
<1>3. SeenOf(d)'
  BY <1>1, SeenStays
<1>4. Locked(d)' => JobOf(d)'
  BY DEF Locked, JobOf, ClientInv, OfDevice
<1> QED BY <1>2, <1>3, <1>4, QuietStep

LEMMA SeverKeeps ==
    ASSUME ClientInv, NEW d \in Devices, Sever(d)
    PROVE  ClientInv'
<1>1. pub'[d] = Idle /\ pub' = [pub EXCEPT ![d] = Idle]
  BY DEF Sever, ClientInv, Shapes, DeviceShapes
<1>2. PubOf(d)'
  BY <1>1, Blanks DEF PubOf
<1> QED BY <1>1, <1>2, Blanks, PublicationKeeps DEF Sever, ClientInv, Shapes, ServerShapes

LEMMA ExportKeeps ==
    ASSUME ClientInv, NEW d \in Devices, Export(d)
    PROVE  ClientInv'
<1>1. PICK p : p = pub[d]
  OBVIOUS
<1>2. p \in Publications /\ p.group \in Groups /\ p.step = "export"
  BY <1>1, RecordParts DEF Export, ClientInv, OfDevice, PubOf
<1>3. PICK k : k = held[d][p.group].hist
  OBVIOUS
<1>4. k \in Seq(Commits) /\ Pre(k, log[p.group])
  BY <1>2, <1>3, HeldParts
<1>5. PICK b : b = IF CanRead(d, p.group) THEN [p EXCEPT !.step = "label", !.on = k] ELSE Idle
  OBVIOUS
<1>6. b \in Publications /\ (b = Idle \/ (b.step = "label" /\ b.group = p.group /\ b.on = k))
  BY <1>2, <1>4, <1>5, Blanks DEF Publications
<1>7. pub' = [pub EXCEPT ![d] = b] /\ pub'[d] = b
  BY <1>1, <1>3, <1>5 DEF Export, ClientInv, Shapes, DeviceShapes
<1>8. log' = log
  BY DEF Export, server
<1>9. PubOf(d)'
  BY <1>2, <1>4, <1>6, <1>7, <1>8, Blanks, ClientAssumption DEF PubOf
<1> QED BY <1>6, <1>7, <1>9, PublicationKeeps DEF Export, server, ClientInv, Shapes, ServerShapes

LEMMA LabelKeeps ==
    ASSUME ClientInv, NEW d \in Devices, Label(d)
    PROVE  ClientInv'
<1>1. PICK p : p = pub[d]
  OBVIOUS
<1>2. p \in Publications /\ p.group \in Groups /\ p.step = "label" /\ Pre(p.on, log[p.group])
  BY <1>1, RecordParts DEF Label, ClientInv, OfDevice, PubOf
<1>3. PICK e \in Nat : e = Len(held[d][p.group].hist)
  BY <1>2, HeldParts, LenProperties
<1>4. PICK b : b = [p EXCEPT !.step = "check", !.epoch = e]
  OBVIOUS
<1>5. b \in Publications /\ b.step = "check" /\ b.group = p.group /\ b.on = p.on
  BY <1>2, <1>4 DEF Publications
<1>6. pub' = [pub EXCEPT ![d] = b] /\ pub'[d] = b
  BY <1>1, <1>3, <1>4 DEF Label, ClientInv, Shapes, DeviceShapes
<1>7. log' = log
  BY DEF Label, server
<1>8. PubOf(d)'
  BY <1>2, <1>5, <1>6, <1>7, ClientAssumption DEF PubOf
<1> QED BY <1>5, <1>6, <1>8, PublicationKeeps DEF Label, server, ClientInv, Shapes, ServerShapes

LEMMA CheckInfoKeeps ==
    ASSUME ClientInv, NEW d \in Devices, CheckInfo(d)
    PROVE  ClientInv'
<1>1. PICK p : p = pub[d]
  OBVIOUS
<1>2. p \in Publications /\ p.group \in Groups /\ p.step = "check" /\ Pre(p.on, log[p.group])
  BY <1>1, RecordParts DEF CheckInfo, ClientInv, OfDevice, PubOf
<1>3. PICK b : b = IF p.group = current /\ ~(info.group = p.group /\ info.epoch >= p.epoch)
                   THEN [p EXCEPT !.step = "write"] ELSE Idle
  OBVIOUS
<1>4. b \in Publications /\ (b = Idle \/ (b.step = "write" /\ b.group = p.group /\ b.on = p.on))
  BY <1>2, <1>3, Blanks DEF Publications
<1>5. pub' = [pub EXCEPT ![d] = b] /\ pub'[d] = b
  BY <1>1, <1>3 DEF CheckInfo, ClientInv, Shapes, DeviceShapes
<1>6. log' = log
  BY DEF CheckInfo, server
<1>7. PubOf(d)'
  BY <1>2, <1>4, <1>5, <1>6, Blanks, ClientAssumption DEF PubOf
<1> QED BY <1>4, <1>5, <1>7, PublicationKeeps DEF CheckInfo, server, ClientInv, Shapes, ServerShapes

LEMMA WriteInfoKeeps ==
    ASSUME ClientInv, NEW d \in Devices, WriteInfo(d)
    PROVE  ClientInv'
<1>1. PICK p : p = pub[d]
  OBVIOUS
<1>2. p \in Publications /\ p.group \in Groups /\ Pre(p.on, log[p.group])
  BY <1>1, RecordParts DEF WriteInfo, ClientInv, OfDevice, PubOf
<1>3. info' = [group |-> p.group, epoch |-> p.epoch, on |-> p.on]
  BY <1>1 DEF WriteInfo
<1>4. info' \in Infos /\ info'.group = p.group /\ info'.on = p.on
  BY <1>2, <1>3 DEF Infos, Publications
<1>5. pub' \in [Devices -> Publications] /\ pub'[d] = Idle /\ \A x \in Devices : x # d => pub'[x] = pub[x]
  BY Blanks DEF WriteInfo, ClientInv, Shapes, DeviceShapes
<1>6. UNCHANGED <<published, revoked, current, log, made, held, pc, seen, job>>
  BY DEF WriteInfo
<1>7. InfoInv'
  BY <1>2, <1>4, <1>6 DEF InfoInv
<1>8. LogInv' /\ LogsGrow
  BY <1>6, LogStays
<1>9. Shapes'
  BY <1>4, <1>5, <1>6 DEF ClientInv, Shapes, ServerShapes, DeviceShapes
<1>10. Framed(d)
  BY <1>5, <1>6, <1>8 DEF Framed
<1>11. HeldOf(d)' /\ SeenOf(d)'
  BY <1>6, <1>8, HeldStays, SeenStays
<1>12. PubOf(d)'
  BY <1>5, Blanks DEF PubOf
<1>13. Locked(d)' => JobOf(d)'
  BY <1>6 DEF Locked, JobOf, ClientInv, OfDevice
<1> QED BY <1>7, <1>8, <1>9, <1>10, <1>11, <1>12, <1>13, StepOf DEF OfDevice

\* The server declines, or nothing comes back.
LEMMA NoAnswerKeeps ==
    ASSUME ClientInv, NEW d \in Devices, Locked(d), NEW p \in {"refused", "failed"},
           p = "failed" => job[d].kind # "establish",
           pc' = [pc EXCEPT ![d] = p], UNCHANGED <<published, revoked, current, log, info, made, held, seen, job, pub>>
    PROVE  ClientInv'
<1>1. pc'[d] = p /\ p \in Places
  BY DEF ClientInv, Shapes, DeviceShapes, Places
<1>2. QuietBy(d) /\ LogsGrow
  BY <1>1 DEF QuietBy, LogsGrow, OnlyOf, ClientInv, Shapes, DeviceShapes, ServerShapes
<1>3. JobOf(d) /\ SeenOf(d)
  BY DEF ClientInv, OfDevice
<1>4. JobOf(d)'
  BY <1>1, <1>3 DEF JobOf
<1>5. SeenOf(d)'
  BY <1>1, <1>3 DEF SeenOf, Locked
<1> QED BY <1>2, <1>4, <1>5, PubStays, QuietStep

LEMMA DeclineKeeps ==
    ASSUME ClientInv, NEW d \in Devices, Decline(d)
    PROVE  ClientInv'
<1>1. Locked(d)
  BY DEF Decline, Locked
<1>2. JobOf(d)
  BY <1>1 DEF ClientInv, OfDevice
<1>3. job[d].kind = "establish" => EpochDeclared(d)
  BY <1>2, EmptySeq DEF JobOf, EpochDeclared
<1>4. PICK p \in {"refused", "failed"} : p = IF EpochDeclared(d) THEN "refused" ELSE "failed"
  OBVIOUS
<1> QED BY <1>1, <1>3, <1>4, NoAnswerKeeps DEF Decline, server, own

LEMMA LoseKeeps ==
    ASSUME "founding" \notin Failures, ClientInv, NEW d \in Devices, Lose(d)
    PROVE  ClientInv'
<1>1. Locked(d) /\ job[d].kind # "establish"
  BY DEF Lose, Locked
<1> QED BY <1>1, NoAnswerKeeps DEF Lose, server, own

(***************************************************************************)
(* Steps that catch up                                                     *)
(***************************************************************************)
Catches(d) ==
    \E h \in [Groups -> States] : held' = [held EXCEPT ![d] = h] /\ \A x \in Groups : Advanced(d, x, h[x])

LEMMA CatchKeeps ==
    ASSUME ClientInv, NEW d \in Devices, Catches(d), UNCHANGED <<published, revoked, current, log, info, made>>,
           DeviceShapes', OnlyOf(d), SeenOf(d)', ~Locked(d)', pub'[d] = pub[d]
    PROVE  ClientInv'
<1>1. PICK h \in [Groups -> States] : held' = [held EXCEPT ![d] = h] /\ \A x \in Groups : Advanced(d, x, h[x])
  BY DEF Catches
<1>2. held' \in [Devices -> [Groups -> States]] /\ held'[d] = h /\ \A x \in Devices : x # d => held'[x] = held[x]
  BY <1>1 DEF ClientInv, Shapes
<1>3. LogInv' /\ LogsGrow
  BY LogStays
<1>4. InfoInv' /\ PubOf(d)'
  BY <1>3, InfoStays, PubStays
<1>5. Shapes'
  BY <1>2 DEF ClientInv, Shapes, ServerShapes
<1>6. HeldOf(d)'
  BY <1>1, <1>2 DEF HeldOf, Advanced
<1>7. \A g \in Groups : log[g] = << >> /\ held[d][g].state = "none" => h[g].state = "none"
  BY <1>1 DEF Advanced
<1>8. Framed(d)
  BY <1>2, <1>3, <1>7 DEF Framed, OnlyOf
<1> QED BY <1>3, <1>4, <1>5, <1>6, <1>8, StepOf DEF OfDevice

LEMMA CatchesUp ==
    ASSUME ClientInv, NEW d \in Devices, NEW g \in Groups, NEW h \in CaughtUp(d, g), held' = [held EXCEPT ![d] = h]
    PROVE  Catches(d)
BY CaughtUpIs DEF Catches

LEMMA CatchUpKeeps ==
    ASSUME ClientInv, NEW d \in Devices, CatchUp(d) \/ CheckFollowing(d) \/ CatchUpAgain(d)
    PROVE  ClientInv'
<1>1. pc[d] \in {"catchup", "behind", "again"}
  BY DEF CatchUp, CheckFollowing, CatchUpAgain
<1>2. seen[d].group \in Groups /\ seen[d].group # NoGroup
  BY <1>1, SeenIsGroup, ClientAssumption
<1>3. PICK h \in CaughtUp(d, seen[d].group) : held' = [held EXCEPT ![d] = h]
  BY DEF CatchUp, CheckFollowing, CatchUpAgain
<1>4. Catches(d)
  BY <1>2, <1>3, CatchesUp
<1>5. PICK p : p \in {"join", "behind", "reconcile"} /\ pc' = [pc EXCEPT ![d] = p]
  <2>1. CASE CatchUp(d)
    BY <2>1 DEF CatchUp
  <2>2. CASE CheckFollowing(d) \/ CatchUpAgain(d)
    BY <2>2 DEF CheckFollowing, CatchUpAgain
  <2> QED BY <2>1, <2>2
<1>6. UNCHANGED <<published, revoked, current, log, info, made, seen, job, pub>>
  BY DEF CatchUp, CheckFollowing, CatchUpAgain, server, own
<1>7. seen' = [seen EXCEPT ![d] = seen[d]] /\ job' = [job EXCEPT ![d] = job[d]]
  BY <1>6, SameIsExcept DEF ClientInv
<1>8. p \in Places /\ seen[d] \in Looks /\ job[d] \in Jobs
  BY <1>5, RecordParts DEF ClientInv, Places
<1>9. DeviceShapes' /\ OnlyOf(d) /\ SeenOf(d)' /\ ~Locked(d)' /\ pub'[d] = pub[d]
  BY <1>2, <1>5, <1>6, <1>7, <1>8, GoesTo
<1> QED BY <1>4, <1>6, <1>9, CatchKeeps

LEMMA WatchKeeps ==
    ASSUME ClientInv, NEW d \in Devices, Live(d) \/ Recheck(d)
    PROVE  ClientInv'
<1>1. ~Locked(d) /\ UNCHANGED <<published, revoked, current, log, info, made, pc, seen, job, pub>>
  BY DEF Live, Recheck, server
<1>2. CASE held' = held
  BY <1>1, <1>2, NothingMoves DEF ClientInv, Shapes, ServerShapes
<1>3. CASE current # NoGroup /\ \E h \in CaughtUp(d, current) : held' = [held EXCEPT ![d] = h]
  <2>1. current \in Groups
    BY <1>3 DEF ClientInv, Shapes, ServerShapes
  <2>2. Catches(d)
    BY <1>3, <2>1, CatchesUp
  <2>3. LogsGrow
    BY <1>1 DEF LogsGrow
  <2>4. DeviceShapes' /\ OnlyOf(d) /\ ~Locked(d)'
    BY <1>1 DEF ClientInv, Shapes, DeviceShapes, OnlyOf, Locked
  <2>5. SeenOf(d)'
    BY <1>1, <2>3, SeenStays
  <2> QED BY <1>1, <2>2, <2>4, <2>5, CatchKeeps
<1> QED BY <1>2, <1>3 DEF Live, Recheck

(***************************************************************************)
(* Steps that build a Commit                                               *)
(***************************************************************************)
Builds(d, c, g, rec, s, j) ==
    /\ made[c] = Unmade /\ made' = [made EXCEPT ![c] = rec]
    /\ held' = [held EXCEPT ![d][g] = s]
    /\ pc' = [pc EXCEPT ![d] = "sent"] /\ job' = [job EXCEPT ![d] = j]
    /\ UNCHANGED <<published, revoked, current, log, info, seen, pub>>

\* What is built fits: the record, the state held and the job are about one Commit on a
\* state the group was in.
Fits(d, c, g, rec, s, j) ==
    /\ rec.group = g /\ rec.by = d /\ s.hist = rec.on /\ Pre(rec.on, log[g])
    /\ j.kind # "none" /\ j.group = g /\ j.commit = c /\ j.on = rec.on
    /\ s.state = (IF j.kind = "join" THEN "joining" ELSE "staged")
    /\ IF j.kind = "establish"
       THEN rec.on = << >> /\ j.base = 0 /\ log[g] = << >> /\ \A x \in Devices : held[x][g].state = "none"
       ELSE /\ j.base # 0 /\ (j.kind # "join" => j.on # << >>) /\ seen[d].group # NoGroup
            /\ (log[g] # << >> \/ held[d][g].state # "none")

LEMMA BuildKeeps ==
    ASSUME ClientInv, NEW d \in Devices, NEW c \in Commits, NEW g \in Groups, NEW rec \in CommitRecords,
           NEW s \in States, NEW j \in Jobs, Builds(d, c, g, rec, s, j), Fits(d, c, g, rec, s, j)
    PROVE  ClientInv'
<1>1. /\ held' \in [Devices -> [Groups -> States]] /\ held'[d][g] = s
      /\ \A x \in Devices : x # d => held'[x] = held[x]
      /\ \A x \in Groups : x # g => held'[d][x] = held[d][x]
  BY DEF Builds, ClientInv, Shapes
<1>2. made' \in [Commits -> CommitRecords] /\ made'[c] = rec /\ \A x \in Commits : x # c => made'[x] = made[x]
  BY DEF Builds, ClientInv, Shapes
<1>3. /\ DeviceShapes' /\ OnlyOf(d) /\ pc'[d] = "sent" /\ job'[d] = j /\ seen'[d] = seen[d] /\ pub'[d] = pub[d]
  BY DEF Builds, ClientInv, Shapes, DeviceShapes, Places, OnlyOf
<1>4. UNCHANGED <<published, revoked, current, log, info>>
  BY DEF Builds
<1>5. made[c].group = NoGroup
  BY DEF Builds, Unmade
<1>6. \A x \in Commits : InLog(x) => made'[x] = made[x]
  <2>1. SUFFICES ASSUME InLog(c) PROVE FALSE
    BY <1>2
  <2>2. made[c].group \in Groups
    BY <2>1 DEF InLog, ClientInv, LogInv
  <2> QED BY <1>5, <2>2, ClientAssumption
<1>7. LogInv' /\ LogsGrow
  BY <1>4, <1>6, LogStays
<1>8. InfoInv' /\ PubOf(d)'
  BY <1>3, <1>4, <1>7, InfoStays, PubStays
<1>9. Shapes'
  BY <1>1, <1>2, <1>3, <1>4 DEF ClientInv, Shapes, ServerShapes
<1>10. HeldOf(d)'
  <2>1. s.state # "ok" /\ Pre(s.hist, log[g])
    BY DEF Fits
  <2>2. \A x \in Groups : Pre(held[d][x].hist, log[x]) /\ (held[d][x].state = "ok" => held[d][x].hist # << >>)
    BY HeldParts
  <2> QED BY <1>1, <1>4, <2>1, <2>2 DEF HeldOf
<1>11. SeenOf(d)'
  BY <1>3 DEF SeenOf, Locked, Fits
<1>12. JobOf(d)'
  <2>1. /\ j.kind # "none" /\ g # NoGroup /\ j.group = g /\ j.commit = c /\ rec.by = d /\ rec.group = g
        /\ rec.on = j.on /\ s.hist = j.on /\ s.state = (IF j.kind = "join" THEN "joining" ELSE "staged")
        /\ IF j.kind = "establish" THEN j.on = << >> /\ j.base = 0
           ELSE j.base # 0 /\ (j.kind # "join" => j.on # << >>)
    BY ClientAssumption DEF Fits
  <2>2. j.kind = "establish" => log'[g] = << >> /\ \A x \in Devices : x # d => held'[x][g].state = "none"
    BY <1>1, <1>4 DEF Fits
  <2> QED BY <1>1, <1>2, <1>3, <2>1, <2>2 DEF JobOf
<1>13. \A x \in Groups : /\ log[x] = << >> /\ held[d][x].state = "none"
                         /\ \E y \in Devices : y # d /\ held[y][x].state # "none"
                         => held'[d][x].state = "none"
  BY <1>1 DEF Fits
<1>14. Framed(d)
  BY <1>1, <1>2, <1>3, <1>4, <1>5, <1>7, <1>13 DEF Framed, OnlyOf
<1> QED BY <1>7, <1>8, <1>9, <1>10, <1>11, <1>12, <1>14, StepOf DEF OfDevice

LEMMA EstablishBuilds ==
    ASSUME ClientInv, NEW d \in Devices, NEW g \in Groups, NEW c \in Commits, Establish(d, g, c)
    PROVE  \E rec \in CommitRecords, s \in States, j \in Jobs :
             /\ Builds(d, c, g, rec, s, j) /\ Fits(d, c, g, rec, s, j)
             /\ j.kind = "establish" /\ rec.drops = {} /\ s.since = 0
<1>0. << >> \in Seq(Commits) /\ published \ {d} \subseteq Devices
  BY EmptySeq DEF ClientInv, Shapes, ServerShapes
<1>1. PICK rec : rec = [group |-> g, on |-> << >>, by |-> d, adds |-> published \ {d}, drops |-> {}]
  OBVIOUS
<1>2. rec \in CommitRecords /\ rec.group = g /\ rec.by = d /\ rec.on = << >> /\ rec.drops = {}
  BY <1>0, <1>1 DEF CommitRecords
<1>3. PICK s : s = [state |-> "staged", hist |-> << >>, since |-> 0]
  OBVIOUS
<1>4. s \in States /\ s.hist = << >> /\ s.state = "staged" /\ s.since = 0
  BY <1>0, <1>3 DEF States
<1>5. PICK j : j = [kind |-> "establish", group |-> g, base |-> 0, commit |-> c, who |-> {}, on |-> << >>]
  OBVIOUS
<1>6. j \in Jobs /\ j.kind = "establish" /\ j.group = g /\ j.base = 0 /\ j.commit = c /\ j.on = << >>
  BY <1>0, <1>5 DEF Jobs
<1>7. Builds(d, c, g, rec, s, j)
  <2>1. Offer(d, "establish", c, rec, 0)
    BY <1>1 DEF Establish
  <2>2. job' = [job EXCEPT ![d] = j]
    BY <1>2, <1>5, <2>1 DEF Offer
  <2> QED BY <1>3, <2>1, <2>2 DEF Builds, Offer, Establish, server, own
<1>8. log[g] = << >> /\ Pre(<< >>, log[g]) /\ \A x \in Devices : held[x][g].state = "none"
  BY <1>0, NothingIsPre DEF Establish, Holds
<1>9. Fits(d, c, g, rec, s, j)
  BY <1>2, <1>4, <1>6, <1>8 DEF Fits
<1> QED BY <1>2, <1>4, <1>6, <1>7, <1>9

LEMMA ExternalJoinBuilds ==
    ASSUME ClientInv, NEW d \in Devices, NEW c \in Commits, ExternalJoin(d, c)
    PROVE  \E g \in Groups, rec \in CommitRecords, s \in States, j \in Jobs :
             /\ Builds(d, c, g, rec, s, j) /\ Fits(d, c, g, rec, s, j)
             /\ j.kind = "join" /\ rec.drops = {d} /\ s.since = Len(s.hist) + 1 /\ held[d][g].state = "none"
<1>1. PICK g, on, base : g = job[d].group /\ on = job[d].on /\ base = job[d].base
  OBVIOUS
<1>2. /\ g \in Groups /\ on \in Seq(Commits) /\ base \in Nat /\ base # 0 /\ Len(on) \in Nat
      /\ log[g] # << >> /\ Pre(on, log[g]) /\ seen[d].group # NoGroup
  BY <1>1, RecordParts DEF ExternalJoin, ClientInv, OfDevice, SeenOf
<1>3. PICK rec : rec = [group |-> g, on |-> on, by |-> d, adds |-> {d}, drops |-> {d}]
  OBVIOUS
<1>4. rec \in CommitRecords /\ rec.group = g /\ rec.by = d /\ rec.on = on /\ rec.drops = {d}
  BY <1>2, <1>3 DEF CommitRecords
<1>5. PICK s : s = [state |-> "joining", hist |-> on, since |-> Len(on) + 1]
  OBVIOUS
<1>6. s \in States /\ s.hist = on /\ s.state = "joining" /\ s.since = Len(on) + 1
  BY <1>2, <1>5 DEF States
<1>7. PICK j : j = [kind |-> "join", group |-> g, base |-> base, commit |-> c, who |-> {}, on |-> on]
  OBVIOUS
<1>8. j \in Jobs /\ j.kind = "join" /\ j.group = g /\ j.base = base /\ j.commit = c /\ j.on = on
  BY <1>2, <1>7 DEF Jobs
<1>9. Builds(d, c, g, rec, s, j)
  <2>1. Offer(d, "join", c, rec, base)
    BY <1>1, <1>3 DEF ExternalJoin
  <2>2. job' = [job EXCEPT ![d] = j]
    BY <1>4, <1>7, <2>1 DEF Offer
  <2> QED BY <1>1, <1>5, <2>1, <2>2 DEF Builds, Offer, ExternalJoin, server, own
<1>10. Fits(d, c, g, rec, s, j)
  BY <1>2, <1>4, <1>6, <1>8 DEF Fits
<1>11. held[d][g].state = "none"
  BY <1>1 DEF ExternalJoin, Holds
<1> QED BY <1>2, <1>4, <1>6, <1>8, <1>9, <1>10, <1>11

LEMMA StageBuilds ==
    ASSUME ClientInv, NEW d \in Devices, NEW c \in Commits, Stage(d, c)
    PROVE  \E g \in Groups, rec \in CommitRecords, s \in States, j \in Jobs :
             /\ Builds(d, c, g, rec, s, j) /\ Fits(d, c, g, rec, s, j)
             /\ j.kind \in {"add", "prune"} /\ job[d].kind \in {"add", "prune"}
             /\ rec.drops \subseteq (IF job[d].kind = "prune" THEN job[d].who ELSE {})
             /\ held[d][g].state = "ok" /\ s.since = held[d][g].since /\ s.hist = held[d][g].hist
<1>1. PICK g, on, kind, who : g = seen[d].group /\ on = held[d][g].hist /\ kind = job[d].kind /\ who = job[d].who
  OBVIOUS
<1>2. g \in Groups /\ g # NoGroup /\ kind \in {"add", "prune"} /\ who \subseteq Devices
  BY <1>1, SeenIsGroup, RecordParts, ClientAssumption DEF Stage, ClientInv, OfDevice, SeenOf
<1>3. held[d][g].state = "ok"
  BY <1>1 DEF Stage, Stageable
<1>4. on \in Seq(Commits) /\ Pre(on, log[g]) /\ on # << >> /\ held[d][g] \in States
  BY <1>1, <1>2, <1>3, HeldParts
<1>5. Len(on) \in Nat /\ Len(on) # 0
  BY <1>4, LenProperties, EmptySeq
<1>6. PICK adds, drops : /\ adds = (IF kind = "add" THEN who ELSE {})
                         /\ drops = (IF kind = "add" THEN {} ELSE who \cap Leaves(on))
  OBVIOUS
<1>7. PICK rec : rec = [group |-> g, on |-> on, by |-> d, adds |-> adds, drops |-> drops]
  OBVIOUS
<1>8. rec \in CommitRecords /\ rec.group = g /\ rec.by = d /\ rec.on = on /\ rec.drops = drops
  BY <1>2, <1>4, <1>6, <1>7 DEF CommitRecords
<1>9. PICK s : s = [held[d][g] EXCEPT !.state = "staged"]
  OBVIOUS
<1>10. s \in States /\ s.hist = on /\ s.state = "staged" /\ s.since = held[d][g].since
  BY <1>1, <1>4, <1>9 DEF States
<1>11. PICK j : j = [kind |-> kind, group |-> g, base |-> Len(on), commit |-> c, who |-> {}, on |-> on]
  OBVIOUS
<1>12. j \in Jobs /\ j.kind = kind /\ j.group = g /\ j.base = Len(on) /\ j.commit = c /\ j.on = on
  BY <1>2, <1>4, <1>5, <1>11 DEF Jobs
<1>13. Builds(d, c, g, rec, s, j)
  <2>1. Offer(d, kind, c, rec, Len(on))
    BY <1>1, <1>6, <1>7 DEF Stage
  <2>2. job' = [job EXCEPT ![d] = j]
    BY <1>8, <1>11, <2>1 DEF Offer
  <2>3. held' = [held EXCEPT ![d][g] = s]
    BY <1>1, <1>9 DEF Stage
  <2> QED BY <2>1, <2>2, <2>3 DEF Builds, Offer, Stage, server, own
<1>14. Fits(d, c, g, rec, s, j)
  BY <1>1, <1>2, <1>3, <1>4, <1>5, <1>8, <1>10, <1>12 DEF Fits
<1>15. drops \subseteq (IF kind = "prune" THEN who ELSE {})
  BY <1>2, <1>6
<1> QED BY <1>1, <1>2, <1>3, <1>8, <1>10, <1>12, <1>13, <1>14, <1>15

LEMMA OffersKeep ==
    ASSUME ClientInv, NEW d \in Devices, NEW c \in Commits,
           ExternalJoin(d, c) \/ Stage(d, c) \/ \E g \in Groups : Establish(d, g, c)
    PROVE  ClientInv'
<1>1. \E g \in Groups, rec \in CommitRecords, s \in States, j \in Jobs :
         Builds(d, c, g, rec, s, j) /\ Fits(d, c, g, rec, s, j)
  <2>1. CASE ExternalJoin(d, c)
    BY <2>1, ExternalJoinBuilds
  <2>2. CASE Stage(d, c)
    BY <2>2, StageBuilds
  <2>3. CASE \E g \in Groups : Establish(d, g, c)
    BY <2>3, EstablishBuilds
  <2> QED BY <2>1, <2>2, <2>3
<1> QED BY <1>1, BuildKeeps

(***************************************************************************)
(* The server's yes, and what a device makes of its answers                *)
(***************************************************************************)
\* The Commit under way, in parts.
LEMMA JobParts ==
    ASSUME ClientInv, NEW d \in Devices, Locked(d)
    PROVE  /\ job[d].group \in Groups /\ job[d].group # NoGroup /\ job[d].commit \in Commits
           /\ job[d].on \in Seq(Commits) /\ Pre(job[d].on, log[job[d].group])
           /\ log[job[d].group] \in Seq(Commits)
           /\ job[d] \in Jobs /\ job[d].kind \in {"establish", "join", "add", "prune"}
           /\ (job[d].kind # "establish" => seen[d].group # NoGroup)
<1>1. JobOf(d) /\ SeenOf(d)
  BY DEF ClientInv, OfDevice
<1>2. job[d].group \in Groups /\ job[d] \in Jobs /\ job[d].on \in Seq(Commits)
  BY <1>1, RecordParts DEF JobOf, ClientInv
<1>3. job[d].kind \in {"establish", "join", "add", "prune"}
  BY <1>1, <1>2 DEF JobOf, Jobs
<1>4. Pre(job[d].on, log[job[d].group]) /\ log[job[d].group] \in Seq(Commits)
  BY <1>1, <1>2, HeldParts DEF JobOf
<1> QED BY <1>1, <1>2, <1>3, <1>4 DEF JobOf, SeenOf

\* What the server accepts was built on all of the log.
LEMMA AcceptedIsNext ==
    ASSUME ClientInv, NEW d \in Devices, pc[d] = "sent", EpochDeclared(d), Accepts(d)
    PROVE  job[d].on = log[job[d].group]
<1>0. Locked(d)
  BY DEF Locked
<1>1. JobOf(d)
  BY <1>0 DEF ClientInv, OfDevice
<1>2. /\ job[d].group \in Groups /\ job[d].group # NoGroup /\ job[d].commit \in Commits
      /\ job[d].on \in Seq(Commits) /\ Pre(job[d].on, log[job[d].group])
      /\ log[job[d].group] \in Seq(Commits)
  BY <1>0, JobParts
<1>3. CASE job[d].base = 0
  BY <1>1, <1>3 DEF JobOf
<1>4. CASE job[d].base # 0
  <2>1. current = job[d].group /\ Epoch = job[d].base /\ job[d].base = Len(job[d].on)
    BY <1>1, <1>4 DEF Accepts, EpochDeclared, JobOf
  <2>2. Len(job[d].on) = Len(log[job[d].group])
    BY <1>2, <2>1 DEF Epoch
  <2> QED BY <1>2, <2>2, PreFull
<1> QED BY <1>3, <1>4

LEMMA AcceptKeeps ==
    ASSUME ClientInv, NEW d \in Devices, Accept(d)
    PROVE  ClientInv'
<1>0. pc[d] = "sent" /\ Locked(d) /\ EpochDeclared(d) /\ Accepts(d)
  BY DEF Accept, Locked
<1>1. JobOf(d) /\ SeenOf(d)
  BY <1>0 DEF ClientInv, OfDevice
<1>2. PICK g \in Groups, c \in Commits, on \in Seq(Commits) :
        g = job[d].group /\ c = job[d].commit /\ on = job[d].on
  BY <1>0, JobParts
<1>3. on = log[g]
  BY <1>0, <1>2, AcceptedIsNext
<1>4. made[c].by = d /\ made[c].group = g /\ made[c].on = on /\ held[d][g].state # "none"
  BY <1>1, <1>2 DEF JobOf
<1>5. PICK l : l = Append(on, c)
  OBVIOUS
<1>6. /\ l \in Seq(Commits) /\ Len(l) = Len(on) + 1 /\ l # << >> /\ Len(on) \in Nat
      /\ l[Len(on) + 1] = c /\ \A i \in 1 .. Len(on) : l[i] = on[i]
  BY <1>5, Appended, LenProperties
<1>7. /\ log' \in [Groups -> Seq(Commits)] /\ log'[g] = l /\ \A x \in Groups : x # g => log'[x] = log[x]
  BY <1>2, <1>3, <1>5, <1>6 DEF Accept, ClientInv, Shapes, ServerShapes
<1>8. current' = g /\ UNCHANGED <<published, revoked, info, made, held, seen, job, pub>>
  BY <1>2 DEF Accept, own
<1>9. LogsGrow
  BY <1>3, <1>5, <1>7 DEF LogsGrow
<1>10. DeviceShapes' /\ OnlyOf(d) /\ pc'[d] = "accepted"
  BY <1>8 DEF Accept, ClientInv, Shapes, DeviceShapes, Places, OnlyOf
<1>11. Shapes'
  BY <1>7, <1>8, <1>10 DEF ClientInv, Shapes, ServerShapes
<1>12. LogInv'
  <2>1. ASSUME NEW i \in 1 .. Len(l)
        PROVE  made[l[i]].group = g /\ made[l[i]].on = SubSeq(l, 1, i - 1)
    <3>1. CASE i = Len(on) + 1
      <4>1. l[i] = c /\ i - 1 = Len(on) /\ Len(on) \in 0 .. Len(on)
        BY <1>6, <3>1
      <4>2. SubSeq(l, 1, Len(on)) = SubSeq(on, 1, Len(on))
        BY <1>5, <4>1, AppendedBefore
      <4>3. SubSeq(on, 1, Len(on)) = on
        BY SubSeqFull
      <4> QED BY <1>4, <4>1, <4>2, <4>3
    <3>2. CASE i # Len(on) + 1
      <4>1. i \in 1 .. Len(on) /\ i - 1 \in 0 .. Len(on)
        BY <1>6, <3>2
      <4>2. l[i] = on[i]
        BY <1>6, <4>1
      <4>3. made[on[i]].group = g /\ made[on[i]].on = SubSeq(on, 1, i - 1)
        BY <1>3, <4>1 DEF ClientInv, LogInv
      <4>4. SubSeq(l, 1, i - 1) = SubSeq(on, 1, i - 1)
        BY <1>5, <4>1, AppendedBefore
      <4> QED BY <4>2, <4>3, <4>4
    <3> QED BY <3>1, <3>2
  <2>2. ASSUME NEW x \in Groups, NEW i \in 1 .. Len(log'[x])
        PROVE  made[log'[x][i]].group = x /\ made[log'[x][i]].on = SubSeq(log'[x], 1, i - 1)
    <3>1. CASE x = g
      BY <1>7, <2>1, <3>1
    <3>2. CASE x # g
      BY <1>7, <3>2 DEF ClientInv, LogInv
    <3> QED BY <3>1, <3>2
  <2>3. log'[current'] # << >>
    BY <1>6, <1>7, <1>8
  <2> QED BY <1>8, <2>2, <2>3 DEF LogInv
<1>13. InfoInv' /\ PubOf(d)' /\ HeldOf(d)'
  BY <1>8, <1>9, InfoStays, PubStays, HeldStays
<1>14. SeenOf(d)'
  BY <1>0, <1>1, <1>8, <1>10 DEF SeenOf, Locked
<1>15. JobOf(d)'
  <2>1. Len(on) < Len(l) /\ l[Len(on) + 1] = c
    BY <1>6
  <2> QED BY <1>1, <1>2, <1>7, <1>8, <1>10, <2>1 DEF JobOf
<1>16. Framed(d)
  <2>1. \A x \in Groups : log[x] = << >> /\ held[d][x].state = "none" => log'[x] = << >>
    BY <1>4, <1>7
  <2> QED BY <1>8, <1>9, <1>10, <2>1 DEF Framed, OnlyOf
<1> QED BY <1>11, <1>12, <1>13, <1>14, <1>15, <1>16, StepOf DEF OfDevice

\* A device is done with a Commit: what it holds of the group is something the group was in.
Settles(d, s) ==
    /\ Locked(d)
    /\ s \in States /\ Pre(s.hist, log[job[d].group]) /\ (s.state = "ok" => s.hist # << >>)
    /\ held' = [held EXCEPT ![d][job[d].group] = s]
    /\ UNCHANGED <<published, revoked, current, log, info>>
    /\ made' = made \/ made' = Forgotten(job[d].commit)

LEMMA SettlesKeeps ==
    ASSUME ClientInv, NEW d \in Devices, NEW s, Settles(d, s),
           DeviceShapes', OnlyOf(d), SeenOf(d)', ~Locked(d)', PubOf(d)'
    PROVE  ClientInv'
<1>0. JobOf(d)
  BY DEF Settles, ClientInv, OfDevice
<1>1. PICK g \in Groups, c \in Commits : g = job[d].group /\ c = job[d].commit
  BY JobParts DEF Settles
<1>2. made[c].by = d /\ held[d][g].state # "none"
  BY <1>0, <1>1 DEF JobOf
<1>3. /\ held' \in [Devices -> [Groups -> States]] /\ held'[d][g] = s
      /\ \A x \in Devices : x # d => held'[x] = held[x]
      /\ \A x \in Groups : x # g => held'[d][x] = held[d][x]
  BY <1>1 DEF Settles, ClientInv, Shapes
<1>4. /\ made' \in [Commits -> CommitRecords]
      /\ \A x \in Commits : x # c => made'[x] = made[x]
      /\ InLog(c) => made'[c] = made[c]
  BY <1>1, Blanks DEF Settles, Forgotten, ClientInv, Shapes
<1>5. UNCHANGED <<published, revoked, current, log, info>>
  BY DEF Settles
<1>6. LogInv' /\ LogsGrow
  BY <1>4, <1>5, LogStays
<1>7. InfoInv'
  BY <1>5, <1>6, InfoStays
<1>8. Shapes'
  BY <1>3, <1>4, <1>5 DEF ClientInv, Shapes, ServerShapes
<1>9. HeldOf(d)'
  <2>1. \A x \in Groups : Pre(held[d][x].hist, log[x]) /\ (held[d][x].state = "ok" => held[d][x].hist # << >>)
    BY HeldParts
  <2>2. Pre(s.hist, log[g]) /\ (s.state = "ok" => s.hist # << >>)
    BY <1>1 DEF Settles
  <2> QED BY <1>3, <1>5, <2>1, <2>2 DEF HeldOf
<1>10. Framed(d)
  <2>1. \A x \in Groups : held[d][x].state = "none" => held'[d][x].state = "none"
    BY <1>2, <1>3
  <2>2. \A x \in Commits : made[x].by \in Devices \ {d} => made'[x] = made[x]
    BY <1>2, <1>4
  <2> QED BY <1>3, <1>5, <1>6, <2>1, <2>2 DEF Framed, OnlyOf
<1> QED BY <1>6, <1>7, <1>8, <1>9, <1>10, StepOf DEF OfDevice

\* The settle goes on at p.
LEMMA GoesOn ==
    ASSUME ClientInv, NEW d \in Devices, Locked(d), LogsGrow,
           NEW p \in {"settle", "join", "again", "reconcile"}, p # "settle" => job[d].kind # "establish",
           pc' = [pc EXCEPT ![d] = p], job' = [job EXCEPT ![d] = NoJob], UNCHANGED <<seen, pub>>
    PROVE  DeviceShapes' /\ OnlyOf(d) /\ SeenOf(d)' /\ ~Locked(d)' /\ PubOf(d)'
<1>1. p \in Places \ {"sent", "accepted", "refused", "failed", "fetched"} /\ seen[d] \in Looks
  BY RecordParts DEF Places, ClientInv
<1>2. p \in {"catchup", "behind", "join", "giveup", "reconcile", "stage", "again"} => seen[d].group # NoGroup
  BY JobParts
<1>3. seen' = [seen EXCEPT ![d] = seen[d]]
  BY SameIsExcept DEF ClientInv
<1>4. DeviceShapes' /\ OnlyOf(d) /\ SeenOf(d)' /\ ~Locked(d)' /\ pub'[d] = pub[d]
  BY <1>1, <1>2, <1>3, Blanks, GoesTo
<1> QED BY <1>4, PubStays

\* The settle ends, and the device may start to publish.
LEMMA ComesToAnEnd ==
    ASSUME ClientInv, NEW d \in Devices, LogsGrow, Over(d), pub' = pub \/ \E g \in Groups : StartPublishing(d, g)
    PROVE  DeviceShapes' /\ OnlyOf(d) /\ SeenOf(d)' /\ ~Locked(d)' /\ PubOf(d)'
<1>1. \E b \in Publications : pub' = [pub EXCEPT ![d] = b] /\ PubOf(d)'
  <2>1. CASE pub' = pub
    BY <2>1, SameIsExcept, PubStays DEF ClientInv
  <2>2. CASE \E g \in Groups : StartPublishing(d, g)
    BY <2>2, StartIs
  <2> QED BY <2>1, <2>2
<1> QED BY <1>1, OverIs

\* What the device holds after a step of its own, and where its settle is.
Answered(d, s) ==
    /\ Settles(d, s)
    /\ DeviceShapes' /\ OnlyOf(d) /\ SeenOf(d)' /\ ~Locked(d)' /\ PubOf(d)'
    /\ pc'[d] # "stage"

LEMMA MergeAnswered ==
    ASSUME ClientInv, NEW d \in Devices, Merge(d)
    PROVE  \E s \in States : /\ Answered(d, s) /\ s.state = "ok" /\ s.since = held[d][job[d].group].since
                              /\ s.hist = Append(held[d][job[d].group].hist, job[d].commit)
<1>0. Locked(d) /\ pc[d] = "accepted"
  BY DEF Merge, Locked
<1>1. JobOf(d)
  BY <1>0 DEF ClientInv, OfDevice
<1>2. PICK g \in Groups, c \in Commits, on \in Seq(Commits) :
        g = job[d].group /\ c = job[d].commit /\ on = job[d].on /\ log[g] \in Seq(Commits) /\ Pre(on, log[g])
  BY <1>0, JobParts
<1>3. held[d][g] \in States /\ held[d][g].hist = on /\ Len(on) < Len(log[g]) /\ c = log[g][Len(on) + 1]
  BY <1>0, <1>1, <1>2, HeldParts DEF JobOf
<1>4. PICK k : k = Append(on, c)
  OBVIOUS
<1>5. k \in Seq(Commits) /\ k # << >> /\ Pre(k, log[g])
  <2>1. k \in Seq(Commits) /\ k # << >>
    BY <1>4, Appended
  <2>2. Pre(Append(on, c), log[g])
    BY <1>2, <1>3, PreExtends
  <2> QED BY <1>4, <2>1, <2>2
<1>6. PICK s : s = [held[d][g] EXCEPT !.state = "ok", !.hist = k]
  OBVIOUS
<1>7. s \in States /\ s.hist = k /\ s.state = "ok" /\ s.since = held[d][g].since
  BY <1>3, <1>5, <1>6 DEF States
<1>8. held' = [held EXCEPT ![d][g] = s]
  <2>1. held' = [held EXCEPT ![d][g].state = "ok", ![d][g].hist = Append(@, c)]
    BY <1>2 DEF Merge
  <2> QED BY <1>2, <1>3, <1>4, <1>6, <2>1 DEF ClientInv, Shapes, States
<1>9. Settles(d, s) /\ LogsGrow
  BY <1>0, <1>2, <1>5, <1>7, <1>8 DEF Settles, Merge, server, LogsGrow
<1>10. job[d].kind = "prune" => DeviceShapes' /\ OnlyOf(d) /\ SeenOf(d)' /\ ~Locked(d)' /\ PubOf(d)' /\ pc'[d] # "stage"
  <2>0. HAVE job[d].kind = "prune"
  <2>1. DeviceShapes' /\ OnlyOf(d) /\ SeenOf(d)' /\ ~Locked(d)' /\ PubOf(d)'
    BY <1>0, <1>9, <2>0, GoesOn DEF Merge
  <2>2. pc'[d] = "reconcile"
    BY <2>0 DEF Merge, ClientInv, Shapes, DeviceShapes
  <2> QED BY <2>1, <2>2
<1>11. job[d].kind # "prune" => DeviceShapes' /\ OnlyOf(d) /\ SeenOf(d)' /\ ~Locked(d)' /\ PubOf(d)' /\ pc'[d] # "stage"
  <2>0. HAVE job[d].kind # "prune"
  <2>1. DeviceShapes' /\ OnlyOf(d) /\ SeenOf(d)' /\ ~Locked(d)' /\ PubOf(d)'
    BY <1>2, <1>9, <2>0, ComesToAnEnd DEF Merge
  <2>2. pc'[d] = "idle"
    BY <2>0 DEF Merge, Over, ClientInv, Shapes, DeviceShapes
  <2> QED BY <2>1, <2>2
<1>12. Answered(d, s)
  BY <1>9, <1>10, <1>11 DEF Answered
<1> QED BY <1>2, <1>3, <1>4, <1>7, <1>12

\* What is left of a Commit that is dropped: the group as it was, or nothing of it.
LEMMA DroppedIs ==
    ASSUME ClientInv, NEW d \in Devices, Locked(d)
    PROVE  /\ None \in States /\ Pre(None.hist, log[job[d].group]) /\ None.state # "ok"
           /\ job[d].kind \notin {"establish", "join"} =>
                LET s == [held[d][job[d].group] EXCEPT !.state = "ok"]
                IN  s \in States /\ Pre(s.hist, log[job[d].group]) /\ s.hist # << >>
<1>1. JobOf(d)
  BY DEF ClientInv, OfDevice
<1>2. PICK g \in Groups : g = job[d].group /\ log[g] \in Seq(Commits)
  BY JobParts
<1>3. None \in States /\ Pre(None.hist, log[g]) /\ None.state # "ok"
  BY <1>2, Blanks, NothingIsPre
<1>4. PICK s : s = [held[d][g] EXCEPT !.state = "ok"]
  OBVIOUS
<1>5. held[d][g] \in States /\ Pre(held[d][g].hist, log[g])
  BY HeldParts
<1>6. s \in States /\ s.hist = held[d][g].hist
  BY <1>4, <1>5 DEF States
<1>7. job[d].kind \notin {"establish", "join"} => held[d][g].hist # << >>
  BY <1>1, <1>2 DEF JobOf
<1> QED BY <1>2, <1>3, <1>4, <1>5, <1>6, <1>7

\* What a device keeps of a group whose Commit it drops.
Dropped(d, s) ==
    IF job[d].kind \in {"establish", "join"} THEN s = None
    ELSE s.state = "ok" /\ s.hist = held[d][job[d].group].hist /\ s.since = held[d][job[d].group].since

LEMMA DroppedState ==
    ASSUME ClientInv, NEW d \in Devices, Locked(d), NEW s,
           s = IF job[d].kind \in {"establish", "join"} THEN None ELSE [held[d][job[d].group] EXCEPT !.state = "ok"]
    PROVE  Dropped(d, s)
<1>1. PICK g \in Groups : g = job[d].group
  BY JobParts
<1>2. held[d][g] \in States
  BY HeldParts
<1> QED BY <1>1, <1>2 DEF Dropped, States

LEMMA RefusedAnswered ==
    ASSUME ClientInv, NEW d \in Devices, Refused(d)
    PROVE  \E s \in States : Answered(d, s) /\ Dropped(d, s)
<1>0. Locked(d)
  BY DEF Refused, Locked
<1>1. PICK k \in {"establish", "join", "add", "prune"}, g \in Groups : k = job[d].kind /\ g = job[d].group
  BY <1>0, JobParts
<1>2. PICK s : s = IF k \in {"establish", "join"} THEN None ELSE [held[d][g] EXCEPT !.state = "ok"]
  OBVIOUS
<1>3. s \in States /\ Pre(s.hist, log[g]) /\ (s.state = "ok" => s.hist # << >>)
  BY <1>0, <1>1, <1>2, DroppedIs
<1>4. held' = [held EXCEPT ![d][g] = s]
  BY <1>1, <1>2 DEF Refused
<1>5. Settles(d, s) /\ LogsGrow
  BY <1>0, <1>1, <1>3, <1>4 DEF Settles, Refused, server, LogsGrow
<1>6. PICK p \in {"settle", "join", "again"} : pc' = [pc EXCEPT ![d] = p] /\ (p # "settle" => k # "establish")
  <2>1. PICK next : /\ next = [establish |-> "settle", join |-> "join", add |-> "again", prune |-> "again"]
                    /\ pc' = [pc EXCEPT ![d] = next[k]]
    BY <1>1 DEF Refused
  <2>2. next["establish"] = "settle" /\ next["join"] = "join" /\ next["add"] = "again" /\ next["prune"] = "again"
    BY <2>1
  <2>3. PICK p : p = next[k]
    OBVIOUS
  <2>4. p \in {"settle", "join", "again"} /\ (p # "settle" => k # "establish")
    BY <2>2, <2>3
  <2> QED BY <2>1, <2>3, <2>4
<1>7. DeviceShapes' /\ OnlyOf(d) /\ SeenOf(d)' /\ ~Locked(d)' /\ PubOf(d)'
  BY <1>0, <1>1, <1>5, <1>6, GoesOn DEF Refused, own
<1>8. pc'[d] # "stage"
  BY <1>6 DEF ClientInv, Shapes, DeviceShapes
<1>9. Dropped(d, s)
  BY <1>0, <1>1, <1>2, DroppedState
<1> QED BY <1>3, <1>5, <1>7, <1>8, <1>9 DEF Answered

LEMMA FailedAnswered ==
    ASSUME ClientInv, NEW d \in Devices, Failed(d)
    PROVE  job[d].kind # "establish" /\ \E s \in States : Answered(d, s) /\ Dropped(d, s)
<1>0. Locked(d) /\ pc[d] = "failed"
  BY DEF Failed, Locked
<1>1. PICK k \in {"establish", "join", "add", "prune"}, g \in Groups : k = job[d].kind /\ g = job[d].group
  BY <1>0, JobParts
<1>2. k # "establish"
  BY <1>0, <1>1 DEF ClientInv, OfDevice, JobOf
<1>3. PICK s : s = IF k = "join" THEN None ELSE [held[d][g] EXCEPT !.state = "ok"]
  OBVIOUS
<1>4. s \in States /\ Pre(s.hist, log[g]) /\ (s.state = "ok" => s.hist # << >>)
  BY <1>0, <1>1, <1>2, <1>3, DroppedIs
<1>5. held' = [held EXCEPT ![d][g] = s]
  BY <1>1, <1>3 DEF Failed
<1>6. Settles(d, s) /\ LogsGrow
  BY <1>0, <1>1, <1>4, <1>5 DEF Settles, Failed, server, LogsGrow
<1>7. k = "join" => DeviceShapes' /\ OnlyOf(d) /\ SeenOf(d)' /\ ~Locked(d)' /\ PubOf(d)' /\ pc'[d] # "stage"
  <2>0. HAVE k = "join"
  <2>1. DeviceShapes' /\ OnlyOf(d) /\ SeenOf(d)' /\ ~Locked(d)' /\ PubOf(d)'
    BY <1>0, <1>1, <1>6, <2>0, GoesOn DEF Failed
  <2>2. pc'[d] = "join"
    BY <1>1, <2>0 DEF Failed, ClientInv, Shapes, DeviceShapes
  <2> QED BY <2>1, <2>2
<1>8. k # "join" => DeviceShapes' /\ OnlyOf(d) /\ SeenOf(d)' /\ ~Locked(d)' /\ PubOf(d)' /\ pc'[d] # "stage"
  <2>0. HAVE k # "join"
  <2>1. DeviceShapes' /\ OnlyOf(d) /\ SeenOf(d)' /\ ~Locked(d)' /\ PubOf(d)'
    BY <1>1, <1>6, <2>0, ComesToAnEnd DEF Failed
  <2>2. pc'[d] = "idle"
    BY <1>1, <2>0 DEF Failed, Over, ClientInv, Shapes, DeviceShapes
  <2> QED BY <2>1, <2>2
<1>9. Dropped(d, s)
  BY <1>0, <1>1, <1>2, <1>3, DroppedState
<1>10. Answered(d, s)
  BY <1>6, <1>7, <1>8 DEF Answered
<1> QED BY <1>1, <1>2, <1>4, <1>9, <1>10

LEMMA AnswersKeep ==
    ASSUME ClientInv, NEW d \in Devices, Merge(d) \/ Refused(d) \/ Failed(d)
    PROVE  ClientInv'
<1>1. PICK s \in States : Answered(d, s)
  BY MergeAnswered, RefusedAnswered, FailedAnswered
<1> QED BY <1>1, SettlesKeeps DEF Answered

LEMMA ReloadKeeps ==
    ASSUME ClientInv, NEW d \in Devices, Reload(d)
    PROVE  ClientInv'
<1>1. Over(d) /\ pub' = [pub EXCEPT ![d] = Idle] /\ UNCHANGED <<published, revoked, current, log, info, held>>
  BY DEF Reload, server
<1>2. DeviceShapes' /\ OnlyOf(d) /\ SeenOf(d)' /\ ~Locked(d)' /\ pub'[d] = Idle
  BY <1>1, OverIs, Blanks
<1>3. PubOf(d)'
  BY <1>2, Blanks DEF PubOf
<1>4. CASE Locked(d)
  <2>1. PICK g \in Groups : g = job[d].group
    BY <1>4, JobParts
  <2>2. held[d][g] \in States /\ Pre(held[d][g].hist, log[g]) /\ (held[d][g].state = "ok" => held[d][g].hist # << >>)
    BY HeldParts
  <2>3. held = [held EXCEPT ![d][g] = held[d][g]]
    BY DEF ClientInv, Shapes
  <2>4. Settles(d, held[d][g])
    BY <1>1, <1>4, <2>1, <2>2, <2>3 DEF Settles, Reload
  <2> QED BY <1>2, <1>3, <2>4, SettlesKeeps
<1>5. CASE ~Locked(d)
  <2>1. QuietBy(d)
    BY <1>1, <1>2, <1>5 DEF QuietBy, Reload, ClientInv, Shapes, ServerShapes
  <2> QED BY <1>2, <1>3, <2>1, QuietStep
<1> QED BY <1>4, <1>5

LEMMA ClientInvAtFirst == Init => ClientInv
<1>1. SUFFICES ASSUME Init PROVE ClientInv
  OBVIOUS
<1>2. << >> \in Seq(Commits)
  BY EmptySeq
<1>3. Shapes
  BY <1>1, <1>2, Blanks, ClientAssumption DEF Init, Shapes, ServerShapes, DeviceShapes, Places
<1>4. LogInv
  <2>1. \A g \in Groups : log[g] = << >>
    BY <1>1 DEF Init
  <2>2. Len(<< >>) = 0
    BY EmptySeq
  <2> QED BY <1>1, <2>1, <2>2 DEF Init, LogInv
<1>5. InfoInv
  BY <1>1 DEF Init, InfoInv, NoInfo
<1>6. ASSUME NEW d \in Devices PROVE OfDevice(d)
  <2>1. pc[d] = "idle" /\ pub[d] = Idle
    BY <1>1 DEF Init
  <2>2. HeldOf(d)
    <3>1. \A g \in Groups : held[d][g] = None /\ log[g] = << >>
      BY <1>1 DEF Init
    <3> QED BY <1>2, <3>1, NothingIsPre, Blanks DEF HeldOf
  <2>3. PubOf(d)
    BY <2>1, Blanks DEF PubOf
  <2>4. SeenOf(d) /\ ~Locked(d)
    BY <2>1 DEF SeenOf, Locked
  <2> QED BY <2>2, <2>3, <2>4 DEF OfDevice
<1> QED BY <1>3, <1>4, <1>5, <1>6 DEF ClientInv

LEMMA ClientInvKept ==
    ASSUME "founding" \notin Failures, ClientInv, [Next]_vars
    PROVE  ClientInv'
<1>1. CASE UNCHANGED vars
  <2>1. UNCHANGED <<published, revoked, current, log, made, info, held, pc, seen, job, pub>>
    BY <1>1 DEF vars
  <2> QED BY <2>1 DEF ClientInv, Shapes, ServerShapes, DeviceShapes, LogInv, InfoInv, OfDevice, HeldOf, PubOf, SeenOf,
                      JobOf, Locked
<1>2. ASSUME NEW d \in Awake, Settle(d) PROVE ClientInv'
  <2>0. d \in Devices
    BY ClientAssumption
  <2>1. ASSUME NEW c \in Commits,
               ExternalJoin(d, c) \/ Stage(d, c) \/ \E g \in Groups : Establish(d, g, c)
        PROVE  ClientInv'
    BY <2>0, <2>1, OffersKeep
  <2>2. CASE ReadState(d) \/ NobodyThere(d) \/ CatchUp(d) \/ CheckFollowing(d) \/ FetchInfo(d) \/ AlreadyIn(d)
    BY <2>0, <2>2, ReadStateKeeps, EndsKeep, CatchUpKeeps, FetchInfoKeeps
  <2>3. CASE Announce(d) \/ GiveUp(d) \/ Admit(d) \/ Look(d) \/ Reconciled(d) \/ CannotStage(d)
    BY <2>0, <2>3, AnnounceKeeps, GiveUpKeeps, AdmitKeeps, LookKeeps, EndsKeep
  <2>4. CASE Accept(d) \/ Decline(d) \/ Merge(d) \/ Refused(d) \/ CatchUpAgain(d) \/ Failed(d)
    BY <2>0, <2>4, AcceptKeeps, DeclineKeeps, CatchUpKeeps, AnswersKeep
  <2> QED BY <1>2, <2>1, <2>2, <2>3, <2>4 DEF Settle
<1>3. ASSUME NEW d \in Awake, Beside(d) PROVE ClientInv'
  <2>0. d \in Devices
    BY ClientAssumption
  <2> QED BY <1>3, <2>0, WatchKeeps, ExportKeeps, LabelKeeps, CheckInfoKeeps, WriteInfoKeeps, RetireKeeps DEF Beside
<1>4. ASSUME NEW d \in Devices, Happens(d) PROVE ClientInv'
  BY <1>4, DirectoryKeeps, SeverKeeps, LoseKeeps, ReloadKeeps DEF Happens
<1> QED BY <1>1, <1>2, <1>3, <1>4 DEF Next

LEMMA ClientInvAlways ==
    ASSUME "founding" \notin Failures
    PROVE  Spec => []ClientInv
<1>1. ClientInv /\ [Next]_vars => ClientInv'
  BY ClientInvKept
<1> QED BY <1>1, ClientInvAtFirst, PTL DEF Spec

\* Every Commit in a group's log was built on the log before it, whatever requests and
\* answers are lost and tabs reloaded, as long as a founder hears the answer to the Commit
\* that makes its group (postMLSCommit, Session.commit, establishGroup, tryExternalJoin).
THEOREM EveryCommitApplies ==
    ASSUME "founding" \notin Failures
    PROVE  Spec => []LogApplies
<1>1. ClientInv => LogApplies
  BY DEF ClientInv, LogInv, LogApplies
<1> QED BY <1>1, ClientInvAlways, PTL

\* ... and the state of each device is one the group was in: no Commit that was refused or
\* lost, no join from a stale GroupInfo and no Welcome leads elsewhere (Session.commit,
\* joinByExternalCommit, catchUp, publishGroupInfo).
THEOREM NoDeviceForks ==
    ASSUME "founding" \notin Failures
    PROVE  Spec => []NoFork
<1>1. ClientInv => NoFork
  BY DEF ClientInv, OfDevice, HeldOf, NoFork, History, Pre
<1> QED BY <1>1, ClientInvAlways, PTL

(***************************************************************************)
(* No step takes a group away                                              *)
(***************************************************************************)
\* t is what was s, or something later.
Grows(s, t) ==
    s.state \in {"ok", "staged"} /\ s.hist # << >> =>
        /\ t.state \in {"ok", "staged"}
        /\ \E n \in 0 .. Len(t.hist) : s.hist = SubSeq(t.hist, 1, n)

Kept == \A d \in Devices, g \in Groups : Grows(held[d][g], held'[d][g])

LEMMA GrowsIf ==
    ASSUME NEW s \in States, NEW t \in States, Pre(s.hist, t.hist), t.state \in {"ok", "staged"}
    PROVE  Grows(s, t)
<1>1. s.hist \in Seq(Commits) /\ t.hist \in Seq(Commits)
  BY DEF States
<1>2. Len(s.hist) \in Nat /\ Len(t.hist) \in Nat
  BY <1>1, LenProperties
<1>3. Len(s.hist) \in 0 .. Len(t.hist) /\ s.hist = SubSeq(t.hist, 1, Len(s.hist))
  BY <1>2 DEF Pre
<1> QED BY <1>3 DEF Grows

LEMMA PreItself ==
    ASSUME NEW S, NEW l \in Seq(S)
    PROVE  Pre(l, l)
BY SubSeqFull, LenProperties DEF Pre

LEMMA SameGrows ==
    ASSUME NEW s \in States
    PROVE  Grows(s, s)
<1>1. s.hist \in Seq(Commits)
  BY DEF States
<1>2. s.state \in {"ok", "staged"} => Grows(s, s)
  BY <1>1, PreItself, GrowsIf
<1> QED BY <1>2 DEF Grows

LEMMA AllKept ==
    ASSUME ClientInv, held' = held
    PROVE  Kept
BY SameGrows, HeldParts DEF Kept

LEMMA OneKept ==
    ASSUME ClientInv, NEW d \in Devices, NEW g \in Groups, NEW s, held' = [held EXCEPT ![d][g] = s], Grows(held[d][g], s)
    PROVE  Kept
<1>1. /\ held'[d][g] = s
      /\ \A x \in Devices : x # d => held'[x] = held[x]
      /\ \A x \in Groups : x # g => held'[d][x] = held[d][x]
  BY DEF ClientInv, Shapes
<1>2. \A x \in Devices, y \in Groups : Grows(held[x][y], held[x][y])
  BY SameGrows, HeldParts
<1> QED BY <1>1, <1>2 DEF Kept

LEMMA AdvancedGrows ==
    ASSUME ClientInv, NEW d \in Devices, NEW g \in Groups, NEW s, Advanced(d, g, s)
    PROVE  Grows(held[d][g], s)
<1>0. PICK t : t = held[d][g]
  OBVIOUS
<1>1. t \in States /\ t.hist \in Seq(Commits) /\ log[g] \in Seq(Commits) /\ Pre(t.hist, log[g])
  BY <1>0, HeldParts
<1>2. s \in States /\ s.hist \in Seq(Commits) /\ Pre(s.hist, log[g])
  BY DEF Advanced, States
<1>3. CASE s = t
  BY <1>0, <1>1, <1>3, SameGrows
<1>4. CASE t.state = "none"
  BY <1>0, <1>4 DEF Grows
<1>5. CASE s.state = "ok" /\ Len(t.hist) <= Len(s.hist)
  <2>1. Pre(t.hist, s.hist)
    BY <1>1, <1>2, <1>5, PrePre
  <2> QED BY <1>0, <1>1, <1>2, <1>5, <2>1, GrowsIf
<1> QED BY <1>0, <1>3, <1>4, <1>5 DEF Advanced

LEMMA CatchingKept ==
    ASSUME ClientInv, NEW d \in Devices, Catches(d)
    PROVE  Kept
<1>1. PICK h \in [Groups -> States] : held' = [held EXCEPT ![d] = h] /\ \A g \in Groups : Advanced(d, g, h[g])
  BY DEF Catches
<1>2. held'[d] = h /\ \A x \in Devices : x # d => held'[x] = held[x]
  BY <1>1 DEF ClientInv, Shapes
<1>3. \A g \in Groups : Grows(held[d][g], h[g])
  BY <1>1, AdvancedGrows
<1>4. \A x \in Devices, g \in Groups : Grows(held[x][g], held[x][g])
  BY SameGrows, HeldParts
<1> QED BY <1>2, <1>3, <1>4 DEF Kept

LEMMA CatchUpKept ==
    ASSUME ClientInv, NEW d \in Devices,
           CatchUp(d) \/ CheckFollowing(d) \/ CatchUpAgain(d) \/ Live(d) \/ Recheck(d)
    PROVE  Kept
<1>1. CASE CatchUp(d) \/ CheckFollowing(d) \/ CatchUpAgain(d)
  <2>1. pc[d] \in {"catchup", "behind", "again"}
    BY <1>1 DEF CatchUp, CheckFollowing, CatchUpAgain
  <2>2. seen[d].group \in Groups
    BY <2>1, SeenIsGroup
  <2>3. PICK h \in CaughtUp(d, seen[d].group) : held' = [held EXCEPT ![d] = h]
    BY <1>1 DEF CatchUp, CheckFollowing, CatchUpAgain
  <2> QED BY <2>2, <2>3, CatchesUp, CatchingKept
<1>2. CASE Live(d) \/ Recheck(d)
  <2>1. CASE held' = held
    BY <2>1, AllKept
  <2>2. CASE current # NoGroup /\ \E h \in CaughtUp(d, current) : held' = [held EXCEPT ![d] = h]
    <3>1. current \in Groups
      BY <2>2 DEF ClientInv, Shapes, ServerShapes
    <3> QED BY <2>2, <3>1, CatchesUp, CatchingKept
  <2> QED BY <1>2, <2>1, <2>2 DEF Live, Recheck
<1> QED BY <1>1, <1>2

LEMMA OffersKept ==
    ASSUME ClientInv, NEW d \in Devices, NEW c \in Commits,
           ExternalJoin(d, c) \/ Stage(d, c) \/ \E g \in Groups : Establish(d, g, c)
    PROVE  Kept
<1>1. PICK g \in Groups, rec \in CommitRecords, s \in States, j \in Jobs :
         /\ Builds(d, c, g, rec, s, j) /\ Fits(d, c, g, rec, s, j)
         /\ held[d][g].state = "none" \/ (s.hist = held[d][g].hist /\ j.kind # "join")
  <2>1. CASE ExternalJoin(d, c)
    BY <2>1, ExternalJoinBuilds
  <2>2. CASE Stage(d, c)
    BY <2>2, StageBuilds
  <2>3. ASSUME NEW g \in Groups, Establish(d, g, c)
        PROVE  \E rec \in CommitRecords, s \in States, j \in Jobs :
                  Builds(d, c, g, rec, s, j) /\ Fits(d, c, g, rec, s, j) /\ held[d][g].state = "none"
    BY <2>3, EstablishBuilds DEF Establish, Holds
  <2> QED BY <2>1, <2>2, <2>3
<1>2. held' = [held EXCEPT ![d][g] = s]
  BY <1>1 DEF Builds
<1>3. Grows(held[d][g], s)
  <2>1. CASE held[d][g].state = "none"
    BY <2>1 DEF Grows
  <2>2. CASE s.hist = held[d][g].hist /\ j.kind # "join"
    <3>1. s.state = "staged"
      BY <1>1, <2>2 DEF Fits
    <3>2. held[d][g] \in States /\ held[d][g].hist \in Seq(Commits)
      BY HeldParts
    <3> QED BY <2>2, <3>1, <3>2, PreItself, GrowsIf
  <2> QED BY <1>1, <2>1, <2>2
<1> QED BY <1>2, <1>3, OneKept

LEMMA AnswersKept ==
    ASSUME ClientInv, NEW d \in Devices, Merge(d) \/ Refused(d) \/ Failed(d)
    PROVE  Kept
<1>0. Locked(d)
  BY DEF Merge, Refused, Failed, Locked
<1>1. PICK g \in Groups, c \in Commits : g = job[d].group /\ c = job[d].commit
  BY <1>0, JobParts
<1>2. PICK t \in States : t = held[d][g] /\ t.hist \in Seq(Commits)
  BY HeldParts
<1>3. PICK s \in States : Answered(d, s) /\ (Dropped(d, s) \/ (s.state = "ok" /\ s.hist = Append(t.hist, c)))
  BY <1>1, <1>2, MergeAnswered, RefusedAnswered, FailedAnswered
<1>4. held' = [held EXCEPT ![d][g] = s]
  BY <1>1, <1>3 DEF Answered, Settles
<1>5. CASE s.state = "ok" /\ s.hist = Append(t.hist, c)
  <2>1. Pre(t.hist, Append(t.hist, c))
    BY <1>2, PreItself, PreGrows
  <2>2. Grows(t, s)
    BY <1>2, <1>5, <2>1, GrowsIf
  <2> QED BY <1>2, <1>4, <2>2, OneKept
<1>6. CASE Dropped(d, s)
  <2>1. /\ job[d].kind = "join" => t.state = "joining"
        /\ job[d].kind = "establish" => t.hist = << >>
    BY <1>0, <1>1, <1>2 DEF ClientInv, OfDevice, JobOf
  <2>2. job[d].kind \in {"join", "establish"} => Grows(t, s)
    BY <2>1 DEF Grows
  <2>3. job[d].kind \notin {"join", "establish"} => Grows(t, s)
    <3>1. HAVE job[d].kind \notin {"join", "establish"}
    <3>2. s.state = "ok" /\ s.hist = t.hist
      BY <1>1, <1>2, <1>6, <3>1 DEF Dropped
    <3> QED BY <1>2, <3>2, PreItself, GrowsIf
  <2> QED BY <1>2, <1>4, <2>2, <2>3, OneKept
<1> QED BY <1>3, <1>5, <1>6

LEMMA StepKeeps ==
    ASSUME ClientInv, [Next]_vars
    PROVE  Kept
<1>1. CASE held' = held
  BY <1>1, AllKept
<1>2. ASSUME NEW d \in Awake, Settle(d), held' # held PROVE Kept
  <2>0. d \in Devices
    BY ClientAssumption
  <2>1. ASSUME NEW c \in Commits,
               ExternalJoin(d, c) \/ Stage(d, c) \/ \E g \in Groups : Establish(d, g, c)
        PROVE  Kept
    BY <2>0, <2>1, OffersKept
  <2>2. CASE CatchUp(d) \/ CheckFollowing(d) \/ CatchUpAgain(d)
    BY <2>0, <2>2, CatchUpKept
  <2>3. CASE Merge(d) \/ Refused(d) \/ Failed(d)
    BY <2>0, <2>3, AnswersKept
  <2>4. ReadState(d) \/ NobodyThere(d) \/ FetchInfo(d) \/ AlreadyIn(d) \/ Announce(d) \/ GiveUp(d) => held' = held
    BY DEF ReadState, NobodyThere, FetchInfo, AlreadyIn, Announce, GiveUp
  <2>5. Admit(d) \/ Look(d) \/ Reconciled(d) \/ CannotStage(d) \/ Accept(d) \/ Decline(d) => held' = held
    BY DEF Admit, Look, Reconciled, CannotStage, Accept, Decline
  <2> QED BY <1>2, <2>1, <2>2, <2>3, <2>4, <2>5 DEF Settle
<1>3. ASSUME NEW d \in Awake, Beside(d), held' # held PROVE Kept
  <2>0. d \in Devices
    BY ClientAssumption
  <2>1. Export(d) \/ Label(d) \/ CheckInfo(d) \/ WriteInfo(d) \/ Retire(d) => held' = held
    BY DEF Export, Label, CheckInfo, WriteInfo, Retire
  <2> QED BY <1>3, <2>0, <2>1, CatchUpKept DEF Beside
<1>4. ASSUME NEW d \in Devices, Happens(d) PROVE held' = held
  BY <1>4 DEF Happens, Publish, Tombstone, Sever, Lose, Reload
<1>5. UNCHANGED vars => held' = held
  BY DEF vars
<1> QED BY <1>1, <1>2, <1>3, <1>4, <1>5 DEF Next

\* A device that is in a group stays in it, and its state only grows: a refused or
\* unanswered Commit takes back what it staged, and a join is only of a group one does not
\* hold (Session.commit, joinByExternalCommit, discardGroup).
THEOREM NoGroupIsLost ==
    ASSUME "founding" \notin Failures
    PROVE  Spec => KeysKept
<1>1. ClientInv /\ [Next]_vars => Kept
  BY StepKeeps
<1>2. Kept => \A d \in Devices, g \in Groups :
                held[d][g].state \in {"ok", "staged"} /\ held[d][g].hist # << >> =>
                    /\ held'[d][g].state \in {"ok", "staged"}
                    /\ \E n \in 0 .. Len(held'[d][g].hist) : held[d][g].hist = SubSeq(held'[d][g].hist, 1, n)
  BY DEF Kept, Grows
<1> QED BY <1>1, <1>2, ClientInvAlways, PTL DEF Spec, KeysKept

(***************************************************************************)
(* When no request is lost and no tab is reloaded                          *)
(***************************************************************************)
\* An external commit of d's own: it throws out the leaf d had, and adds the new one.
OwnJoin(d, c) == made[c].by = d /\ d \in made[c].drops

\* A Commit throws out terminated devices, and else only the old leaf of its builder.
DropInv == \A c \in Commits : made[c].drops \subseteq revoked \cup {made[c].by}

Asking(d, g) == pc[d] \in {"sent", "refused", "failed"} /\ job[d].kind = "join" /\ job[d].group = g

\* A device is half-joined only while its request is under way, and holds the leaf of the last
\* external commit of its own that the log has.
HeldSince(d, g) ==
    /\ held[d][g].state = "joining" => /\ Locked(d) /\ job[d].kind = "join" /\ job[d].group = g
                                       /\ held[d][g].since = Len(held[d][g].hist) + 1
    /\ \A i \in 1 .. Len(log[g]) : OwnJoin(d, log[g][i]) => Holds(d, g) /\ i <= held[d][g].since /\ ~Asking(d, g)

\* What a device is about to prune is terminated, and never itself; a founder's leaf is its first.
PruneOf(d) ==
    /\ pc[d] = "stage" /\ job[d].kind = "prune" => job[d].who \subseteq revoked \ {d}
    /\ Locked(d) /\ job[d].kind # "join" => d \notin made[job[d].commit].drops
    /\ Locked(d) /\ job[d].kind = "establish" => held[d][job[d].group].since = 0

ReadInv ==
    /\ ClientInv /\ DropInv
    /\ \A d \in Devices : PruneOf(d) /\ \A g \in Groups : HeldSince(d, g)

\* ReadInv is what UnreadableIsNoticed needs.
LEMMA ReadIsNoticed == ReadInv => UnreadableIsNoticed
<1>1. SUFFICES ASSUME ReadInv, NEW d \in published \ revoked, current # NoGroup, Holds(d, current), ~Locked(d),
                      Len(held[d][current].hist) >= Epoch
               PROVE  held[d][current].hist = log[current] /\ CanRead(d, current)
  BY DEF UnreadableIsNoticed
<1>2. ClientInv /\ d \in Devices /\ current \in Groups
  BY <1>1 DEF ReadInv, ClientInv, Shapes, ServerShapes
<1>3. PICK g \in Groups, s \in States : g = current /\ s = held[d][g] /\ s.hist \in Seq(Commits)
                  /\ log[g] \in Seq(Commits) /\ Pre(s.hist, log[g])
  BY <1>2, HeldParts
<1>4. Len(s.hist) = Len(log[g])
  BY <1>1, <1>2, <1>3, EpochIs, LenProperties DEF Pre
<1>5. s.hist = log[g]
  BY <1>3, <1>4, PreFull
<1>6. HeldSince(d, g) /\ DropInv
  BY <1>1, <1>2 DEF ReadInv
<1>7. s.state \in {"ok", "staged"}
  BY <1>1, <1>3, <1>6 DEF HeldSince, Holds, States
<1>8. ASSUME NEW j \in s.since + 1 .. Len(s.hist), d \in made[s.hist[j]].drops PROVE FALSE
  <2>1. s.since \in Nat /\ Len(s.hist) \in Nat
    BY <1>3, LenProperties DEF States
  <2>2. j \in 1 .. Len(log[g]) /\ j > s.since
    BY <1>5, <2>1
  <2>3. PICK c \in Commits : c = log[g][j]
    BY <1>3, <2>2, ElementOfSeq
  <2>4. d \in made[c].drops
    BY <1>5, <1>8, <2>3
  <2>5. made[c].by = d
    BY <1>1, <1>6, <2>4 DEF DropInv
  <2>6. OwnJoin(d, log[g][j])
    BY <2>3, <2>4, <2>5 DEF OwnJoin
  <2>7. j <= s.since
    BY <1>3, <1>6, <2>2, <2>6 DEF HeldSince
  <2> QED BY <2>1, <2>2, <2>7
<1>9. Alive(d, s)
  BY <1>8 DEF Alive
<1> QED BY <1>3, <1>5, <1>7, <1>9 DEF CanRead

LEMMA ReadAtFirst == Init => ReadInv
<1>1. SUFFICES ASSUME Init PROVE ReadInv
  OBVIOUS
<1>2. DropInv
  BY <1>1 DEF Init, DropInv, Unmade
<1>3. ASSUME NEW d \in Devices, NEW g \in Groups PROVE HeldSince(d, g)
  <2>1. pc[d] = "idle" /\ held[d][g] = None /\ log[g] = << >>
    BY <1>1 DEF Init
  <2>2. Len(<< >>) = 0
    BY EmptySeq
  <2> QED BY <2>1, <2>2, Blanks DEF HeldSince
<1>4. ASSUME NEW d \in Devices PROVE PruneOf(d)
  <2>1. pc[d] = "idle"
    BY <1>1 DEF Init
  <2> QED BY <2>1 DEF PruneOf, Locked
<1> QED BY <1>1, <1>2, <1>3, <1>4, ClientInvAtFirst DEF ReadInv

\* The log's Commits are there to stay, so what they are of is too.
LEMMA OwnStays ==
    ASSUME ClientInv, \A c \in Commits : InLog(c) => made'[c] = made[c],
           NEW d \in Devices, NEW g \in Groups, NEW i \in 1 .. Len(log[g])
    PROVE  made'[log[g][i]] = made[log[g][i]] /\ log[g][i] \in Commits
<1>1. log[g] \in Seq(Commits)
  BY DEF ClientInv, Shapes, ServerShapes
<1>2. log[g][i] \in Commits
  BY <1>1, ElementOfSeq
<1> QED BY <1>2 DEF InLog

\* What a device has of a group and asks about it, when only others move.
LEMMA SinceStays ==
    ASSUME ClientInv, NEW d \in Devices, NEW g \in Groups, HeldSince(d, g),
           log'[g] = log[g], held'[d][g] = held[d][g], \A c \in Commits : InLog(c) => made'[c] = made[c],
           Locked(d) => Locked(d)' /\ job'[d] = job[d], Asking(d, g)' => Asking(d, g)
    PROVE  HeldSince(d, g)'
<1>1. \A i \in 1 .. Len(log[g]) : made'[log[g][i]] = made[log[g][i]]
  BY OwnStays
<1>2. held[d][g].state = "joining" => /\ Locked(d)' /\ job'[d].kind = "join" /\ job'[d].group = g
                                      /\ held[d][g].since = Len(held[d][g].hist) + 1
  BY DEF HeldSince
<1>3. \A i \in 1 .. Len(log[g]) : made'[log[g][i]].by = d /\ d \in made'[log[g][i]].drops =>
         held[d][g].state # "none" /\ i <= held[d][g].since /\ ~Asking(d, g)'
  BY <1>1 DEF HeldSince, OwnJoin, Holds
<1> QED BY <1>2, <1>3 DEF HeldSince, OwnJoin, Holds

\* Steps that leave the logs, the Commits and what is held.
LEMMA QuietRead ==
    ASSUME ReadInv, ClientInv', NEW d \in Devices, UNCHANGED <<log, made, held>>, revoked \subseteq revoked',
           \A x \in Devices : x # d => pc'[x] = pc[x] /\ job'[x] = job[x],
           Locked(d)' = Locked(d), Locked(d) => job'[d] = job[d],
           pc'[d] \in {"sent", "refused", "failed"} => pc[d] \in {"sent", "refused", "failed"},
           pc'[d] = "stage" /\ job'[d].kind = "prune" => job'[d].who \subseteq revoked' \ {d}
    PROVE  ReadInv'
<1>1. DropInv'
  BY DEF ReadInv, DropInv
<1>2. ASSUME NEW x \in Devices PROVE PruneOf(x)'
  <2>1. PruneOf(x)
    BY DEF ReadInv
  <2>2. CASE x = d
    BY <2>1, <2>2 DEF PruneOf
  <2>3. CASE x # d
    <3>1. pc'[x] = pc[x] /\ job'[x] = job[x] /\ Locked(x)' = Locked(x)
      BY <2>3 DEF Locked
    <3> QED BY <2>1, <3>1 DEF PruneOf
  <2> QED BY <2>2, <2>3
<1>3. ASSUME NEW x \in Devices, NEW g \in Groups PROVE HeldSince(x, g)'
  <2>1. ClientInv /\ HeldSince(x, g)
    BY DEF ReadInv
  <2>2. CASE x = d
    <3>1. Asking(d, g)' => Asking(d, g)
      BY DEF Asking, Locked
    <3> QED BY <2>1, <2>2, <3>1, SinceStays
  <2>3. CASE x # d
    <3>1. pc'[x] = pc[x] /\ job'[x] = job[x] /\ Locked(x)' = Locked(x)
      BY <2>3 DEF Locked
    <3>2. Asking(x, g)' => Asking(x, g)
      BY <3>1 DEF Asking
    <3> QED BY <2>1, <3>1, <3>2, SinceStays
  <2> QED BY <2>2, <2>3
<1> QED BY <1>1, <1>2, <1>3 DEF ReadInv

LEMMA StillRead ==
    ASSUME ReadInv, ClientInv', NEW d \in Devices, UNCHANGED <<log, made, held, pc, job>>, revoked \subseteq revoked'
    PROVE  ReadInv'
<1>1. PruneOf(d)
  BY DEF ReadInv
<1>2. Locked(d)' = Locked(d)
  BY DEF Locked
<1>3. pc'[d] = "stage" /\ job'[d].kind = "prune" => job'[d].who \subseteq revoked' \ {d}
  BY <1>1 DEF PruneOf
<1>4. /\ UNCHANGED <<log, made, held>> /\ \A x \in Devices : x # d => pc'[x] = pc[x] /\ job'[x] = job[x]
      /\ Locked(d) => job'[d] = job[d]
      /\ pc'[d] \in {"sent", "refused", "failed"} => pc[d] \in {"sent", "refused", "failed"}
  OBVIOUS
<1> QED BY <1>2, <1>3, <1>4, QuietRead

LEMMA ElsewhereRead ==
    ASSUME ReadInv, ClientInv', NEW d \in Devices, UNCHANGED <<log, made, held, revoked>>, ~Locked(d),
           NEW p \in Places \ {"sent", "accepted", "refused", "failed"}, pc' = [pc EXCEPT ![d] = p],
           NEW j, job' = [job EXCEPT ![d] = j],
           p = "stage" /\ j.kind = "prune" => j.who \subseteq revoked \ {d}
    PROVE  ReadInv'
<1>1. pc'[d] = p /\ job'[d] = j /\ \A x \in Devices : x # d => pc'[x] = pc[x] /\ job'[x] = job[x]
  BY DEF ReadInv, ClientInv, Shapes, DeviceShapes
<1>2. ~Locked(d)'
  BY <1>1 DEF Locked
<1>3. (Locked(d)' = Locked(d)) /\ (Locked(d) => job'[d] = job[d])
  BY <1>2 DEF Locked
<1>4. pc'[d] \notin {"sent", "refused", "failed"}
  BY <1>1
<1>5. pc'[d] = "stage" /\ job'[d].kind = "prune" => job'[d].who \subseteq revoked' \ {d}
  BY <1>1
<1>6. revoked \subseteq revoked' /\ UNCHANGED <<log, made, held>>
  OBVIOUS
<1> QED BY <1>1, <1>3, <1>4, <1>5, <1>6, QuietRead

\* Looking at the log, while nothing is under way.
LEMMA CatchingRead ==
    ASSUME ReadInv, ClientInv', NEW d \in Devices, ~Locked(d), ~Locked(d)', Catches(d), UNCHANGED <<log, made, revoked>>,
           pc'[d] # "stage" \/ pc'[d] = pc[d],
           \A x \in Devices : job'[x] = job[x] /\ (x # d => pc'[x] = pc[x])
    PROVE  ReadInv'
<1>0. ClientInv
  BY DEF ReadInv
<1>1. PICK h \in [Groups -> States] : held' = [held EXCEPT ![d] = h] /\ \A g \in Groups : Advanced(d, g, h[g])
  BY DEF Catches
<1>2. held'[d] = h /\ \A x \in Devices : x # d => held'[x] = held[x]
  BY <1>0, <1>1 DEF ClientInv, Shapes
<1>3. DropInv'
  BY DEF ReadInv, DropInv
<1>4. ASSUME NEW x \in Devices PROVE PruneOf(x)'
  <2>1. PruneOf(x)
    BY DEF ReadInv
  <2>2. CASE x = d
    BY <2>1, <2>2 DEF PruneOf
  <2>3. CASE x # d
    <3>1. pc'[x] = pc[x] /\ job'[x] = job[x] /\ Locked(x)' = Locked(x) /\ held'[x] = held[x]
      BY <1>2, <2>3 DEF Locked
    <3> QED BY <2>1, <3>1 DEF PruneOf
  <2> QED BY <2>2, <2>3
<1>5. ASSUME NEW x \in Devices, NEW g \in Groups PROVE HeldSince(x, g)'
  <2>1. HeldSince(x, g)
    BY DEF ReadInv
  <2>2. CASE x = d
    <3>1. Advanced(d, g, h[g]) /\ held'[d][g] = h[g]
      BY <1>1, <1>2
    <3>2. held[d][g].state # "joining" /\ ~Asking(d, g)'
      BY <2>1, <2>2 DEF HeldSince, Asking, Locked
    <3>3. h[g].state # "joining"
      BY <3>1, <3>2 DEF Advanced
    <3>4. held[d][g].state # "none" => h[g].state # "none" /\ h[g].since = held[d][g].since
      BY <3>1 DEF Advanced
    <3>5. \A i \in 1 .. Len(log[g]) : OwnJoin(d, log[g][i]) => h[g].state # "none" /\ i <= h[g].since
      BY <2>1, <2>2, <3>4 DEF HeldSince, Holds
    <3> QED BY <2>2, <3>1, <3>2, <3>3, <3>5 DEF HeldSince, OwnJoin, Holds
  <2>3. CASE x # d
    <3>1. pc'[x] = pc[x] /\ job'[x] = job[x] /\ Locked(x)' = Locked(x) /\ held'[x] = held[x]
      BY <1>2, <2>3 DEF Locked
    <3>2. Asking(x, g)' => Asking(x, g)
      BY <3>1 DEF Asking
    <3> QED BY <1>0, <2>1, <3>1, <3>2, SinceStays
  <2> QED BY <2>2, <2>3
<1> QED BY <1>3, <1>4, <1>5 DEF ReadInv

\* A Commit is built on what one holds, or to get in.
LEMMA BuildRead ==
    ASSUME ReadInv, ClientInv', NEW d \in Devices, NEW c \in Commits, NEW g \in Groups, NEW rec, NEW s, NEW j,
           Builds(d, c, g, rec, s, j), ~Locked(d),
           rec.by = d, rec.drops \subseteq revoked \cup {d}, j.commit = c, j.group = g,
           IF j.kind = "join"
           THEN s.state = "joining" /\ s.since = Len(s.hist) + 1 /\ held[d][g].state = "none"
           ELSE /\ s.state = "staged" /\ d \notin rec.drops
                /\ IF held[d][g].state = "none" THEN s.since = 0 ELSE s.since = held[d][g].since /\ j.kind # "establish"
    PROVE  ReadInv'
<1>0. ClientInv
  BY DEF ReadInv
<1>1. /\ held'[d][g] = s /\ \A x \in Devices : x # d => held'[x] = held[x]
      /\ \A x \in Groups : x # g => held'[d][x] = held[d][x]
  BY <1>0 DEF Builds, ClientInv, Shapes
<1>2. /\ made'[c] = rec /\ \A x \in Commits : x # c => made'[x] = made[x]
      /\ made[c].group = NoGroup
  BY <1>0 DEF Builds, ClientInv, Shapes, Unmade
<1>3. /\ pc'[d] = "sent" /\ job'[d] = j
      /\ \A x \in Devices : x # d => pc'[x] = pc[x] /\ job'[x] = job[x]
  BY <1>0 DEF Builds, ClientInv, Shapes, DeviceShapes
<1>4. UNCHANGED <<published, revoked, current, log>>
  BY DEF Builds
<1>5. \A x \in Commits : InLog(x) => made'[x] = made[x]
  <2>1. SUFFICES ASSUME InLog(c) PROVE FALSE
    BY <1>2
  <2>2. made[c].group \in Groups
    BY <1>0, <2>1 DEF InLog, ClientInv, LogInv
  <2> QED BY <1>2, <2>2, ClientAssumption
<1>6. DropInv'
  BY <1>2, <1>4 DEF ReadInv, DropInv
<1>7. ASSUME NEW x \in Devices PROVE PruneOf(x)'
  <2>1. PruneOf(x)
    BY DEF ReadInv
  <2>2. CASE x = d
    <3>1. j.kind # "join" => d \notin made'[c].drops
      BY <1>2
    <3>2. j.kind = "establish" => held'[d][g].since = 0
      BY <1>1
    <3> QED BY <1>3, <2>2, <3>1, <3>2 DEF PruneOf
  <2>3. CASE x # d
    <3>1. pc'[x] = pc[x] /\ job'[x] = job[x] /\ Locked(x)' = Locked(x) /\ held'[x] = held[x]
      BY <1>1, <1>3, <2>3 DEF Locked
    <3>2. Locked(x) => made'[job[x].commit] = made[job[x].commit]
      <4>1. SUFFICES ASSUME Locked(x) PROVE made'[job[x].commit] = made[job[x].commit]
        OBVIOUS
      <4>2. JobOf(x)
        BY <1>0, <4>1 DEF ClientInv, OfDevice
      <4>3. job[x].commit \in Commits /\ made[job[x].commit].group # NoGroup
        BY <4>2 DEF JobOf
      <4> QED BY <1>2, <4>3
    <3> QED BY <1>4, <2>1, <3>1, <3>2 DEF PruneOf
  <2> QED BY <2>2, <2>3
<1>8. ASSUME NEW x \in Devices, NEW y \in Groups PROVE HeldSince(x, y)'
  <2>1. HeldSince(x, y)
    BY DEF ReadInv
  <2>2. CASE x = d /\ y = g
    <3>1. \A i \in 1 .. Len(log[g]) : made'[log[g][i]] = made[log[g][i]]
      BY <1>0, <1>5, OwnStays
    <3>2. \A i \in 1 .. Len(log[g]) : OwnJoin(d, log[g][i]) =>
             held[d][g].state # "none" /\ i <= held[d][g].since
      BY <2>1, <2>2 DEF HeldSince, Holds
    <3>3. Locked(d)'
      BY <1>3 DEF Locked
    <3>4. s.state = "joining" => j.kind = "join" /\ s.since = Len(s.hist) + 1
      OBVIOUS
    <3>5. \A i \in 1 .. Len(log[g]) : OwnJoin(d, log[g][i]) => s.state # "none" /\ i <= s.since /\ j.kind # "join"
      BY <3>2
    <3>6. \A i \in 1 .. Len(log[g]) : OwnJoin(d, log[g][i])' => s.state # "none" /\ i <= s.since /\ j.kind # "join"
      BY <1>4, <3>1, <3>5 DEF OwnJoin
    <3>7. Asking(d, g)' => j.kind = "join"
      BY <1>3 DEF Asking
    <3> QED BY <1>1, <1>3, <1>4, <2>2, <3>3, <3>4, <3>6, <3>7 DEF HeldSince, Holds
  <2>3. CASE x = d /\ y # g
    <3>1. ~Asking(d, y)' /\ held'[d][y] = held[d][y]
      BY <1>1, <1>3, <2>3 DEF Asking
    <3> QED BY <1>0, <1>4, <1>5, <2>1, <2>3, <3>1, SinceStays
  <2>4. CASE x # d
    <3>1. pc'[x] = pc[x] /\ job'[x] = job[x] /\ Locked(x)' = Locked(x) /\ held'[x] = held[x]
      BY <1>1, <1>3, <2>4 DEF Locked
    <3>2. Asking(x, y)' => Asking(x, y)
      BY <3>1 DEF Asking
    <3> QED BY <1>0, <1>4, <1>5, <2>1, <3>1, <3>2, SinceStays
  <2> QED BY <2>2, <2>3, <2>4
<1> QED BY <1>6, <1>7, <1>8 DEF ReadInv

\* The server's yes: the log has one Commit more, its builder's.
LEMMA AcceptRead ==
    ASSUME ReadInv, ClientInv', NEW d \in Devices, Accept(d)
    PROVE  ReadInv'
<1>0. ClientInv /\ pc[d] = "sent" /\ Locked(d) /\ EpochDeclared(d) /\ Accepts(d)
  BY DEF ReadInv, Accept, Locked
<1>1. JobOf(d) /\ PruneOf(d)
  BY <1>0 DEF ReadInv, ClientInv, OfDevice
<1>2. PICK g \in Groups, c \in Commits, on \in Seq(Commits) :
        g = job[d].group /\ c = job[d].commit /\ on = job[d].on
  BY <1>0, JobParts
<1>3. on = log[g]
  BY <1>0, <1>2, AcceptedIsNext
<1>4. made[c].by = d /\ held[d][g].hist = on /\ held[d][g].state = (IF job[d].kind = "join" THEN "joining" ELSE "staged")
  BY <1>1, <1>2 DEF JobOf
<1>5. PICK l : l = Append(on, c)
  OBVIOUS
<1>6. /\ Len(l) = Len(on) + 1 /\ Len(on) \in Nat
      /\ l[Len(on) + 1] = c /\ \A i \in 1 .. Len(on) : l[i] = on[i]
  BY <1>5, Appended, LenProperties
<1>7. log'[g] = l /\ \A x \in Groups : x # g => log'[x] = log[x]
  BY <1>0, <1>2, <1>3, <1>5 DEF Accept, ClientInv, Shapes, ServerShapes
<1>8. UNCHANGED <<revoked, made, held, job>>
  BY DEF Accept
<1>9. pc'[d] = "accepted" /\ \A x \in Devices : x # d => pc'[x] = pc[x]
  BY <1>0 DEF Accept, ClientInv, Shapes, DeviceShapes
<1>10. DropInv'
  BY <1>8 DEF ReadInv, DropInv
<1>11. ASSUME NEW x \in Devices PROVE PruneOf(x)'
  <2>1. PruneOf(x)
    BY DEF ReadInv
  <2>2. CASE x = d
    BY <1>0, <1>8, <1>9, <2>1, <2>2 DEF PruneOf
  <2>3. CASE x # d
    <3>1. pc'[x] = pc[x] /\ Locked(x)' = Locked(x)
      BY <1>9, <2>3 DEF Locked
    <3> QED BY <1>8, <2>1, <3>1 DEF PruneOf
  <2> QED BY <2>2, <2>3
<1>12. ASSUME NEW x \in Devices, NEW y \in Groups PROVE HeldSince(x, y)'
  <2>1. HeldSince(x, y)
    BY DEF ReadInv
  <2>2. Locked(x) => Locked(x)' /\ job'[x] = job[x]
    BY <1>8, <1>9 DEF Locked
  <2>3. Asking(x, y)' => Asking(x, y) /\ x # d
    BY <1>8, <1>9 DEF Asking
  <2>4. CASE y # g
    BY <1>0, <1>7, <1>8, <2>1, <2>2, <2>3, <2>4, SinceStays
  <2>5. CASE y = g
    <3>1. held[x][g].state = "joining" => /\ Locked(x)' /\ job'[x].kind = "join" /\ job'[x].group = g
                                          /\ held[x][g].since = Len(held[x][g].hist) + 1
      BY <2>1, <2>2, <2>5 DEF HeldSince
    <3>2. ASSUME NEW i \in 1 .. Len(l), made[l[i]].by = x, x \in made[l[i]].drops
          PROVE  held[x][g].state # "none" /\ i <= held[x][g].since /\ ~Asking(x, g)'
      <4>1. CASE i \in 1 .. Len(on)
        <5>1. l[i] = log[g][i] /\ i \in 1 .. Len(log[g])
          BY <1>3, <1>6, <4>1
        <5>2. OwnJoin(x, log[g][i])
          BY <3>2, <5>1 DEF OwnJoin
        <5> QED BY <2>1, <2>3, <2>5, <5>1, <5>2 DEF HeldSince, Holds
      <4>2. CASE i = Len(on) + 1
        <5>1. l[i] = c /\ x = d
          BY <1>4, <1>6, <3>2, <4>2
        <5>2. job[d].kind = "join"
          BY <1>0, <1>1, <1>2, <3>2, <5>1 DEF PruneOf
        <5>3. held[d][g].since = Len(on) + 1
          BY <1>4, <3>1, <5>1, <5>2
        <5>4. i <= held[d][g].since
          BY <1>6, <4>2, <5>3
        <5> QED BY <1>4, <2>3, <2>5, <5>1, <5>2, <5>4
      <4> QED BY <1>6, <4>1, <4>2
    <3>3. \A i \in 1 .. Len(log'[g]) : OwnJoin(x, log[g][i])' => Holds(x, g)' /\ i <= held'[x][g].since /\ ~Asking(x, g)'
      BY <1>7, <1>8, <3>2 DEF OwnJoin, Holds
    <3> QED BY <1>8, <2>5, <3>1, <3>3 DEF HeldSince
  <2> QED BY <2>4, <2>5
<1> QED BY <1>10, <1>11, <1>12 DEF ReadInv

\* The answer is dealt with: a device that is in keeps its leaf, one that lets go of the group
\* has no external commit in its log.
LEMMA SettlesRead ==
    ASSUME ReadInv, ClientInv', NEW d \in Devices, NEW s, Settles(d, s), ~Locked(d)', pc'[d] # "stage",
           \A x \in Devices : x # d => pc'[x] = pc[x] /\ job'[x] = job[x],
           s.state # "joining",
           IF s.state = "none" THEN pc[d] \in {"refused", "failed"} /\ job[d].kind \in {"join", "establish"}
                               ELSE s.since = held[d][job[d].group].since
    PROVE  ReadInv'
<1>0. ClientInv /\ Locked(d)
  BY DEF ReadInv, Settles
<1>1. JobOf(d) /\ PruneOf(d)
  BY <1>0 DEF ReadInv, ClientInv, OfDevice
<1>2. PICK g \in Groups, c \in Commits : g = job[d].group /\ c = job[d].commit
  BY <1>0, JobParts
<1>3. made[c].by = d
  BY <1>1, <1>2 DEF JobOf
<1>4. /\ held'[d][g] = s /\ \A x \in Devices : x # d => held'[x] = held[x]
      /\ \A x \in Groups : x # g => held'[d][x] = held[d][x]
  BY <1>0, <1>2 DEF Settles, ClientInv, Shapes
<1>5. /\ \A x \in Commits : x # c => made'[x] = made[x]
      /\ InLog(c) => made'[c] = made[c]
      /\ made'[c] = made[c] \/ made'[c] = Unmade
  BY <1>0, <1>2 DEF Settles, Forgotten, ClientInv, Shapes
<1>6. UNCHANGED <<revoked, log>>
  BY DEF Settles
<1>7. DropInv'
  <2>1. made'[c].drops \subseteq revoked \cup {made'[c].by}
    <3>1. CASE made'[c] = made[c]
      BY <3>1 DEF ReadInv, DropInv
    <3>2. CASE made'[c] = Unmade
      BY <3>2 DEF Unmade
    <3> QED BY <1>5, <3>1, <3>2
  <2> QED BY <1>5, <1>6, <2>1 DEF ReadInv, DropInv
<1>8. ASSUME NEW x \in Devices PROVE PruneOf(x)'
  <2>1. PruneOf(x)
    BY DEF ReadInv
  <2>2. CASE x = d
    BY <2>2 DEF PruneOf
  <2>3. CASE x # d
    <3>1. pc'[x] = pc[x] /\ job'[x] = job[x] /\ Locked(x)' = Locked(x) /\ held'[x] = held[x]
      BY <1>4, <2>3 DEF Locked
    <3>2. Locked(x) => made'[job[x].commit] = made[job[x].commit]
      <4>1. SUFFICES ASSUME Locked(x) PROVE made'[job[x].commit] = made[job[x].commit]
        OBVIOUS
      <4>2. JobOf(x)
        BY <1>0, <4>1 DEF ClientInv, OfDevice
      <4>3. job[x].commit \in Commits /\ made[job[x].commit].by = x
        BY <4>2 DEF JobOf
      <4> QED BY <1>3, <1>5, <2>3, <4>3
    <3> QED BY <1>6, <2>1, <3>1, <3>2 DEF PruneOf
  <2> QED BY <2>2, <2>3
<1>9. ASSUME NEW x \in Devices, NEW y \in Groups PROVE HeldSince(x, y)'
  <2>1. HeldSince(x, y)
    BY DEF ReadInv
  <2>2. \A i \in 1 .. Len(log[y]) : made'[log[y][i]] = made[log[y][i]]
    BY <1>0, <1>5, OwnStays
  <2>3. CASE x = d
    <3>1. ~Asking(d, y)'
      BY DEF Asking, Locked
    <3>2. held'[d][y].state # "joining"
      <4>1. y # g => held[d][y].state # "joining"
        BY <1>2, <2>1, <2>3 DEF HeldSince
      <4> QED BY <1>4, <4>1
    <3>3. ASSUME NEW i \in 1 .. Len(log[y]), OwnJoin(d, log[y][i])
          PROVE  held'[d][y].state # "none" /\ i <= held'[d][y].since
      <4>1. held[d][y].state # "none" /\ i <= held[d][y].since /\ ~Asking(d, y)
        BY <2>1, <2>3, <3>3 DEF HeldSince, Holds
      <4>2. CASE y # g
        BY <1>4, <4>1, <4>2
      <4>3. CASE y = g
        <5>1. s.state # "none"
          <6>1. SUFFICES ASSUME s.state = "none" PROVE FALSE
            OBVIOUS
          <6>2. job[d].kind = "establish"
            BY <1>2, <4>1, <4>3, <6>1 DEF Asking
          <6>3. held[d][g].since = 0
            BY <1>0, <1>1, <1>2, <6>2 DEF PruneOf
          <6>4. i <= 0 /\ i >= 1
            BY <4>1, <4>3, <6>3
          <6> QED BY <6>4
        <5> QED BY <1>2, <1>4, <4>1, <4>3, <5>1
      <4> QED BY <4>2, <4>3
    <3>4. \A i \in 1 .. Len(log[y]) : OwnJoin(d, log[y][i])' => OwnJoin(d, log[y][i])
      BY <1>6, <2>2 DEF OwnJoin
    <3> QED BY <1>6, <2>3, <3>1, <3>2, <3>3, <3>4 DEF HeldSince, Holds
  <2>4. CASE x # d
    <3>1. pc'[x] = pc[x] /\ job'[x] = job[x] /\ Locked(x)' = Locked(x) /\ held'[x] = held[x]
      BY <1>4, <2>4 DEF Locked
    <3>2. Asking(x, y)' => Asking(x, y)
      BY <3>1 DEF Asking
    <3>3. \A z \in Commits : InLog(z) => made'[z] = made[z]
      BY <1>5
    <3> QED BY <1>0, <1>6, <2>1, <3>1, <3>2, <3>3, SinceStays
  <2> QED BY <2>3, <2>4
<1> QED BY <1>7, <1>8, <1>9 DEF ReadInv

LEMMA EndsRead ==
    ASSUME ReadInv, ClientInv', NEW d \in Devices, ~Locked(d), Over(d), UNCHANGED <<log, made, held, revoked>>
    PROVE  ReadInv'
<1>1. "idle" \in Places \ {"sent", "accepted", "refused", "failed"}
  BY DEF Places
<1> QED BY <1>1, ElsewhereRead DEF Over

LEMMA GoesRead ==
    ASSUME ReadInv, ClientInv', NEW d \in Devices, ~Locked(d), UNCHANGED <<log, made, held, revoked, job>>,
           NEW p \in Places \ {"sent", "accepted", "refused", "failed", "stage"}, pc' = [pc EXCEPT ![d] = p]
    PROVE  ReadInv'
<1>1. job' = [job EXCEPT ![d] = job[d]]
  BY SameIsExcept DEF ReadInv, ClientInv
<1> QED BY <1>1, ElsewhereRead

LEMMA LookRead ==
    ASSUME ReadInv, ClientInv', NEW d \in Devices, Look(d)
    PROVE  ReadInv'
<1>1. PICK who : who = IF Stale(d) # {} THEN Stale(d) ELSE Missing(d)
  OBVIOUS
<1>2. PICK kind : kind = IF Stale(d) # {} THEN "prune" ELSE "add"
  OBVIOUS
<1>3. PICK j : j = [NoJob EXCEPT !.kind = kind, !.who = who]
  OBVIOUS
<1>4. j.kind = kind /\ j.who = who
  BY <1>3 DEF NoJob
<1>5. kind = "prune" => who \subseteq revoked \ {d}
  BY <1>1, <1>2 DEF Stale
<1>6. job' = [job EXCEPT ![d] = j] /\ pc' = [pc EXCEPT ![d] = "stage"] /\ ~Locked(d)
  BY <1>1, <1>2, <1>3 DEF Look, Locked
<1>7. UNCHANGED <<log, made, held, revoked>> /\ "stage" \in Places \ {"sent", "accepted", "refused", "failed"}
  BY DEF Look, server, Places
<1> QED BY <1>4, <1>5, <1>6, <1>7, ElsewhereRead

LEMMA SettlingRead ==
    ASSUME ReadInv, ClientInv', NEW d \in Devices,
           ReadState(d) \/ NobodyThere(d) \/ FetchInfo(d) \/ AlreadyIn(d) \/ Announce(d) \/ GiveUp(d)
             \/ Reconciled(d) \/ CannotStage(d)
    PROVE  ReadInv'
<1>0. /\ UNCHANGED <<log, made, held, revoked>>
      /\ pc[d] \in {"settle", "idle", "establish", "join", "fetched", "giveup", "reconcile", "stage"}
  BY DEF ReadState, NobodyThere, FetchInfo, AlreadyIn, Announce, GiveUp, Reconciled, CannotStage, server
<1>1. ~Locked(d)
  BY <1>0 DEF Locked
<1>2. CASE Over(d)
  BY <1>0, <1>1, <1>2, EndsRead
<1>3. CASE UNCHANGED job /\ \E p \in {"establish", "catchup", "giveup", "settle"} : pc' = [pc EXCEPT ![d] = p]
  <2>1. PICK p \in {"establish", "catchup", "giveup", "settle"} : pc' = [pc EXCEPT ![d] = p]
    BY <1>3
  <2>2. p \in Places \ {"sent", "accepted", "refused", "failed", "stage"}
    BY DEF Places
  <2> QED BY <1>0, <1>1, <1>3, <2>1, <2>2, GoesRead
<1>4. CASE FetchInfo(d)
  <2>1. PICK j : job' = [job EXCEPT ![d] = j] /\ pc' = [pc EXCEPT ![d] = "fetched"]
    BY <1>4 DEF FetchInfo
  <2>2. "fetched" \in Places \ {"sent", "accepted", "refused", "failed"}
    BY DEF Places
  <2> QED BY <1>0, <1>1, <2>1, <2>2, ElsewhereRead
<1>5. NobodyThere(d) \/ AlreadyIn(d) \/ Reconciled(d) \/ CannotStage(d) => Over(d)
  BY DEF NobodyThere, AlreadyIn, Reconciled, CannotStage
<1>6. ReadState(d) \/ GiveUp(d) =>
        UNCHANGED job /\ \E p \in {"establish", "catchup", "giveup", "settle"} : pc' = [pc EXCEPT ![d] = p]
  BY DEF ReadState, GiveUp
<1>7. Announce(d) => Over(d) \/ (UNCHANGED job /\ pc' = [pc EXCEPT ![d] = "giveup"])
  BY DEF Announce
<1> QED BY <1>2, <1>3, <1>4, <1>5, <1>6, <1>7

LEMMA AdmitRead ==
    ASSUME ReadInv, ClientInv', NEW d \in Devices, Admit(d)
    PROVE  ReadInv'
<1>0. UNCHANGED <<log, made, held, revoked, job>> /\ ~Locked(d)
  BY DEF Admit, server, Locked
<1>1. CASE pc' = pc
  BY <1>0, <1>1, StillRead
<1>2. CASE pc' = [pc EXCEPT ![d] = "reconcile"]
  <2>1. "reconcile" \in Places \ {"sent", "accepted", "refused", "failed", "stage"}
    BY DEF Places
  <2> QED BY <1>0, <1>2, <2>1, GoesRead
<1> QED BY <1>1, <1>2 DEF Admit

LEMMA RetireRead ==
    ASSUME ReadInv, ClientInv', NEW d \in Devices, Retire(d)
    PROVE  ReadInv'
<1>0. UNCHANGED <<log, made, held, revoked, job>>
  BY DEF Retire
<1>1. CASE pc[d] # "idle"
  <2>1. pc' = pc
    BY <1>1, SameIsExcept DEF Retire, ReadInv, ClientInv
  <2> QED BY <1>0, <2>1, StillRead
<1>2. CASE pc[d] = "idle"
  <2>1. "settle" \in Places \ {"sent", "accepted", "refused", "failed", "stage"} /\ ~Locked(d)
    BY <1>2 DEF Places, Locked
  <2>2. pc' = [pc EXCEPT ![d] = "settle"]
    BY <1>2 DEF Retire
  <2> QED BY <1>0, <2>1, <2>2, GoesRead
<1> QED BY <1>1, <1>2

LEMMA BesideRead ==
    ASSUME ReadInv, ClientInv', NEW d \in Devices,
           Export(d) \/ Label(d) \/ CheckInfo(d) \/ WriteInfo(d) \/ Publish(d) \/ Tombstone(d) \/ Sever(d)
    PROVE  ReadInv'
<1>1. UNCHANGED <<log, made, held, pc, job>> /\ revoked \subseteq revoked'
  BY DEF Export, Label, CheckInfo, WriteInfo, Publish, Tombstone, Sever, server
<1> QED BY <1>1, StillRead

LEMMA DeclineRead ==
    ASSUME ReadInv, ClientInv', NEW d \in Devices, Decline(d)
    PROVE  ReadInv'
<1>1. PICK p \in {"refused", "failed"} : pc' = [pc EXCEPT ![d] = p]
  BY DEF Decline
<1>2. pc'[d] = p /\ pc[d] = "sent" /\ \A x \in Devices : x # d => pc'[x] = pc[x]
  BY <1>1 DEF Decline, ReadInv, ClientInv, Shapes, DeviceShapes
<1>3. UNCHANGED <<log, made, held, job>> /\ revoked' = revoked
  BY DEF Decline, server
<1>4. (Locked(d)' = Locked(d)) /\ pc'[d] # "stage"
  BY <1>2 DEF Locked
<1>5. /\ \A x \in Devices : x # d => pc'[x] = pc[x] /\ job'[x] = job[x]
      /\ revoked \subseteq revoked' /\ UNCHANGED <<log, made, held>>
      /\ Locked(d) => job'[d] = job[d]
  BY <1>2, <1>3
<1> QED BY <1>2, <1>4, <1>5, QuietRead

LEMMA CatchUpRead ==
    ASSUME ReadInv, ClientInv', NEW d \in Devices,
           CatchUp(d) \/ CheckFollowing(d) \/ CatchUpAgain(d) \/ Live(d) \/ Recheck(d)
    PROVE  ReadInv'
<1>0. ClientInv /\ UNCHANGED <<log, made, revoked, job>> /\ ~Locked(d)
  BY DEF ReadInv, CatchUp, CheckFollowing, CatchUpAgain, Live, Recheck, server, Locked
<1>1. CASE CatchUp(d) \/ CheckFollowing(d) \/ CatchUpAgain(d)
  <2>1. pc[d] \in {"catchup", "behind", "again"}
    BY <1>1 DEF CatchUp, CheckFollowing, CatchUpAgain
  <2>2. seen[d].group \in Groups
    BY <1>0, <2>1, SeenIsGroup
  <2>3. PICK h \in CaughtUp(d, seen[d].group) : held' = [held EXCEPT ![d] = h]
    BY <1>1 DEF CatchUp, CheckFollowing, CatchUpAgain
  <2>4. Catches(d)
    BY <1>0, <2>2, <2>3, CatchesUp
  <2>5. PICK p : p \in {"join", "behind", "reconcile"} /\ pc' = [pc EXCEPT ![d] = p]
    <3>1. CASE CatchUp(d)
      BY <3>1 DEF CatchUp
    <3>2. CASE CheckFollowing(d) \/ CatchUpAgain(d)
      BY <3>2 DEF CheckFollowing, CatchUpAgain
    <3> QED BY <1>1, <3>1, <3>2
  <2>6. pc'[d] = p /\ \A x \in Devices : x # d => pc'[x] = pc[x]
    BY <1>0, <2>5 DEF ClientInv, Shapes, DeviceShapes
  <2>7. ~Locked(d)' /\ pc'[d] # "stage"
    BY <2>5, <2>6 DEF Locked
  <2> QED BY <1>0, <2>4, <2>6, <2>7, CatchingRead
<1>2. CASE Live(d) \/ Recheck(d)
  <2>1. pc' = pc
    BY <1>2 DEF Live, Recheck
  <2>2. ~Locked(d)'
    BY <1>0, <2>1 DEF Locked
  <2>3. CASE held' = held
    BY <1>0, <2>1, <2>3, StillRead
  <2>4. CASE current # NoGroup /\ \E h \in CaughtUp(d, current) : held' = [held EXCEPT ![d] = h]
    <3>1. current \in Groups
      BY <1>0, <2>4 DEF ClientInv, Shapes, ServerShapes
    <3>2. Catches(d)
      BY <1>0, <2>4, <3>1, CatchesUp
    <3> QED BY <1>0, <2>1, <2>2, <3>2, CatchingRead
  <2> QED BY <1>2, <2>3, <2>4 DEF Live, Recheck
<1> QED BY <1>1, <1>2

LEMMA OffersRead ==
    ASSUME ReadInv, ClientInv', NEW d \in Devices, NEW c \in Commits,
           ExternalJoin(d, c) \/ Stage(d, c) \/ \E g \in Groups : Establish(d, g, c)
    PROVE  ReadInv'
<1>0. ClientInv
  BY DEF ReadInv
<1>1. CASE ExternalJoin(d, c)
  <2>1. PICK g \in Groups, rec \in CommitRecords, s \in States, j \in Jobs :
           /\ Builds(d, c, g, rec, s, j) /\ Fits(d, c, g, rec, s, j)
           /\ j.kind = "join" /\ rec.drops = {d} /\ s.since = Len(s.hist) + 1 /\ held[d][g].state = "none"
    BY <1>0, <1>1, ExternalJoinBuilds
  <2>2. ~Locked(d)
    BY <1>1 DEF ExternalJoin, Locked
  <2>3. rec.by = d /\ j.commit = c /\ j.group = g /\ s.state = "joining"
    BY <2>1 DEF Fits
  <2>4. rec.drops \subseteq revoked \cup {d}
    BY <2>1
  <2> QED BY <2>1, <2>2, <2>3, <2>4, BuildRead
<1>2. CASE Stage(d, c)
  <2>1. PICK g \in Groups, rec \in CommitRecords, s \in States, j \in Jobs :
           /\ Builds(d, c, g, rec, s, j) /\ Fits(d, c, g, rec, s, j)
           /\ j.kind \in {"add", "prune"} /\ job[d].kind \in {"add", "prune"}
           /\ rec.drops \subseteq (IF job[d].kind = "prune" THEN job[d].who ELSE {})
           /\ held[d][g].state = "ok" /\ s.since = held[d][g].since
    BY <1>0, <1>2, StageBuilds
  <2>2. ~Locked(d) /\ pc[d] = "stage"
    BY <1>2 DEF Stage, Locked
  <2>3. rec.by = d /\ j.commit = c /\ j.group = g /\ s.state = "staged"
    BY <2>1 DEF Fits
  <2>4. rec.drops \subseteq revoked \cup {d} /\ d \notin rec.drops
    BY <2>1, <2>2 DEF ReadInv, PruneOf
  <2> QED BY <2>1, <2>2, <2>3, <2>4, BuildRead
<1>3. ASSUME NEW g \in Groups, Establish(d, g, c) PROVE ReadInv'
  <2>1. PICK rec \in CommitRecords, s \in States, j \in Jobs :
           /\ Builds(d, c, g, rec, s, j) /\ Fits(d, c, g, rec, s, j)
           /\ j.kind = "establish" /\ rec.drops = {} /\ s.since = 0
    BY <1>0, <1>3, EstablishBuilds
  <2>2. ~Locked(d) /\ held[d][g].state = "none"
    BY <1>3 DEF Establish, Locked, Holds
  <2>3. rec.by = d /\ j.commit = c /\ j.group = g /\ s.state = "staged"
    BY <2>1 DEF Fits
  <2>4. rec.drops \subseteq revoked \cup {d} /\ d \notin rec.drops
    BY <2>1
  <2> QED BY <2>1, <2>2, <2>3, <2>4, BuildRead
<1> QED BY <1>1, <1>2, <1>3

LEMMA AnswersRead ==
    ASSUME ReadInv, ClientInv', NEW d \in Devices, Merge(d) \/ Refused(d) \/ Failed(d)
    PROVE  ReadInv'
<1>0. ClientInv
  BY DEF ReadInv
<1>1. Refused(d) \/ Failed(d) => pc[d] \in {"refused", "failed"}
  BY DEF Refused, Failed
<1>2. PICK s \in States : /\ Answered(d, s)
                          /\ \/ s.state = "ok" /\ s.since = held[d][job[d].group].since
                             \/ Dropped(d, s) /\ pc[d] \in {"refused", "failed"}
  BY <1>0, <1>1, MergeAnswered, RefusedAnswered, FailedAnswered
<1>3. /\ s.state # "joining"
      /\ IF s.state = "none" THEN pc[d] \in {"refused", "failed"} /\ job[d].kind \in {"join", "establish"}
                             ELSE s.since = held[d][job[d].group].since
  BY <1>2, Blanks DEF Dropped
<1>4. Settles(d, s) /\ ~Locked(d)' /\ pc'[d] # "stage" /\ \A x \in Devices : x # d => pc'[x] = pc[x] /\ job'[x] = job[x]
  BY <1>2 DEF Answered, OnlyOf
<1> QED BY <1>3, <1>4, SettlesRead

LEMMA ReadKept ==
    ASSUME Failures = {}, ReadInv, [Next]_vars
    PROVE  ReadInv'
<1>0. ClientInv'
  BY ClientInvKept DEF ReadInv
<1>1. CASE UNCHANGED vars
  <2>1. UNCHANGED <<revoked, log, made, held, pc, job>>
    BY <1>1 DEF vars
  <2> QED BY <1>0, <2>1 DEF ReadInv, DropInv, PruneOf, HeldSince, OwnJoin, Holds, Asking, Locked
<1>2. ASSUME NEW d \in Awake, Settle(d) PROVE ReadInv'
  <2>0. d \in Devices
    BY ClientAssumption
  <2>1. ASSUME NEW c \in Commits,
               ExternalJoin(d, c) \/ Stage(d, c) \/ \E g \in Groups : Establish(d, g, c)
        PROVE  ReadInv'
    BY <1>0, <2>0, <2>1, OffersRead
  <2>2. CASE ReadState(d) \/ NobodyThere(d) \/ FetchInfo(d) \/ AlreadyIn(d) \/ Announce(d) \/ GiveUp(d)
             \/ Reconciled(d) \/ CannotStage(d)
    BY <1>0, <2>0, <2>2, SettlingRead
  <2>3. CASE CatchUp(d) \/ CheckFollowing(d) \/ CatchUpAgain(d)
    BY <1>0, <2>0, <2>3, CatchUpRead
  <2>4. CASE Admit(d) \/ Look(d) \/ Accept(d) \/ Decline(d)
    BY <1>0, <2>0, <2>4, AdmitRead, LookRead, AcceptRead, DeclineRead
  <2>5. CASE Merge(d) \/ Refused(d) \/ Failed(d)
    BY <1>0, <2>0, <2>5, AnswersRead
  <2> QED BY <1>2, <2>1, <2>2, <2>3, <2>4, <2>5 DEF Settle
<1>3. ASSUME NEW d \in Awake, Beside(d) PROVE ReadInv'
  <2>0. d \in Devices
    BY ClientAssumption
  <2> QED BY <1>0, <1>3, <2>0, CatchUpRead, BesideRead, RetireRead DEF Beside
<1>4. ASSUME NEW d \in Devices, Happens(d) PROVE ReadInv'
  <2>1. ~Lose(d) /\ ~Reload(d)
    BY DEF Lose, Reload
  <2> QED BY <1>0, <1>4, <2>1, BesideRead DEF Happens
<1> QED BY <1>1, <1>2, <1>3, <1>4 DEF Next

\* While every request is answered and no tab is reloaded, a device that holds the group at
\* the server's epoch is in the server's state and has a leaf: what cannot read is behind,
\* and that is what the client looks for (stillBehind, catchUpToLatest, reconcileDevices).
THEOREM WhoCannotReadIsBehind ==
    ASSUME Failures = {}
    PROVE  Spec => []UnreadableIsNoticed
<1>1. ReadInv /\ [Next]_vars => ReadInv'
  BY ReadKept
<1> QED BY <1>1, ReadAtFirst, ReadIsNoticed, PTL DEF Spec

(***************************************************************************)
(* Types                                                                   *)
(***************************************************************************)
Watches == {"no", "watched", "confirmed"}

\* Attempts are counted before a Commit is built, so one that is under way has not used
\* them up; a settle that is over left nothing behind.
Attempted(d) ==
    /\ pc[d] \in {"fetched", "stage"} => tries[d] < Attempts
    /\ Locked(d) /\ job[d].kind # "establish" => tries[d] < Attempts
    /\ pc[d] = "idle" => seen[d] = Unseen /\ job[d] = NoJob

Signed == \A c \in Commits : InLog(c) => made[c].by \in Devices

TypedInv ==
    /\ ClientInv /\ Signed
    /\ waiting \subseteq Devices /\ asked \subseteq Devices
    /\ tries \in [Devices -> 0 .. Attempts] /\ wedge \in [Devices -> Watches]
    /\ \A d \in Devices : Attempted(d)

LEMMA TypedIsTypeOK == TypedInv => TypeOK
<1>1. SUFFICES ASSUME TypedInv PROVE TypeOK
  OBVIOUS
<1>2. ClientInv /\ Shapes /\ LogInv
  BY <1>1 DEF TypedInv, ClientInv
<1>3. /\ published \cup revoked \cup waiting \cup asked \subseteq Devices
      /\ current \in Groups \cup {NoGroup}
      /\ log \in [Groups -> Seq(Commits)]
      /\ current # NoGroup => log[current] # << >>
      /\ DOMAIN made = Commits
      /\ held \in [Devices -> [Groups -> States]]
  BY <1>1, <1>2 DEF TypedInv, Shapes, ServerShapes, LogInv
<1>4. \A c \in Commits : InLog(c) => made[c].by \in Devices
  BY <1>1 DEF TypedInv, Signed
<1>5. ASSUME NEW d \in Devices
      PROVE  /\ pc[d] \in Places
             /\ pc[d] = "idle" => seen[d] = Unseen /\ job[d] = NoJob
             /\ Locked(d) => job[d].commit \in Commits /\ made[job[d].commit].by = d
             /\ tries[d] \in 0 .. Attempts
             /\ pub[d].step \in {"off", "export", "label", "check", "write"}
             /\ wedge[d] \in Watches
  <2>1. pc[d] \in Places /\ pub[d].step \in {"off", "export", "label", "check", "write"}
    BY <1>2 DEF Shapes, DeviceShapes, Publications
  <2>2. Locked(d) => job[d].commit \in Commits /\ made[job[d].commit].by = d
    BY <1>2 DEF ClientInv, OfDevice, JobOf
  <2>3. tries[d] \in 0 .. Attempts /\ wedge[d] \in Watches /\ Attempted(d)
    BY <1>1 DEF TypedInv
  <2> QED BY <2>1, <2>2, <2>3 DEF Attempted
<1> QED BY <1>3, <1>4, <1>5 DEF TypeOK, Places, Watches

LEMMA TypedAtFirst == Init => TypedInv
<1>1. SUFFICES ASSUME Init PROVE TypedInv
  OBVIOUS
<1>2. Signed
  <2>1. \A g \in Groups : Len(log[g]) = 0
    BY <1>1, EmptySeq DEF Init
  <2> QED BY <2>1 DEF Signed, InLog
<1>3. ASSUME NEW d \in Devices PROVE Attempted(d)
  BY <1>1 DEF Init, Attempted, Locked
<1>4. 0 \in 0 .. Attempts
  BY ClientAssumption
<1>5. /\ waiting \subseteq Devices /\ asked \subseteq Devices
      /\ tries \in [Devices -> 0 .. Attempts] /\ wedge \in [Devices -> Watches]
  BY <1>1, <1>4 DEF Init, Watches
<1> QED BY <1>1, <1>2, <1>3, <1>5, ClientInvAtFirst DEF TypedInv

LEMMA StillSigned ==
    ASSUME Signed, log' = log, \A c \in Commits : InLog(c) => made'[c] = made[c]
    PROVE  Signed'
BY DEF Signed, InLog

\* What a step leaves typed beside the settles.
Tidy ==
    /\ waiting' \subseteq Devices /\ asked' \subseteq Devices /\ wedge' \in [Devices -> Watches]
    /\ Signed'

\* A settle that goes on at p, or is over.
LEMMA TypedMove ==
    ASSUME TypedInv, ClientInv', Tidy, NEW d \in Devices,
           NEW p, pc' = [pc EXCEPT ![d] = p], NEW s, seen' = [seen EXCEPT ![d] = s],
           NEW j, job' = [job EXCEPT ![d] = j], NEW n \in 0 .. Attempts, tries' = [tries EXCEPT ![d] = n],
           p \in {"fetched", "stage"} => n < Attempts,
           p \in {"sent", "accepted", "refused", "failed"} /\ j.kind # "establish" => n < Attempts,
           p = "idle" => s = Unseen /\ j = NoJob
    PROVE  TypedInv'
<1>1. /\ pc'[d] = p /\ seen'[d] = s /\ job'[d] = j /\ tries'[d] = n
      /\ \A x \in Devices : x # d => pc'[x] = pc[x] /\ seen'[x] = seen[x] /\ job'[x] = job[x] /\ tries'[x] = tries[x]
      /\ tries' \in [Devices -> 0 .. Attempts]
  BY DEF TypedInv, ClientInv, Shapes, DeviceShapes
<1>2. Attempted(d)'
  BY <1>1 DEF Attempted, Locked
<1>3. \A x \in Devices : x # d => Attempted(x)'
  BY <1>1 DEF TypedInv, Attempted, Locked
<1> QED BY <1>1, <1>2, <1>3 DEF TypedInv, Tidy

LEMMA TypedOver ==
    ASSUME TypedInv, ClientInv', Tidy, NEW d \in Devices, Over(d)
    PROVE  TypedInv'
<1>1. 0 \in 0 .. Attempts
  BY ClientAssumption
<1>2. PICK p, s, j, n : /\ p = "idle" /\ s = Unseen /\ j = NoJob /\ n = 0
                        /\ pc' = [pc EXCEPT ![d] = p] /\ seen' = [seen EXCEPT ![d] = s]
                        /\ job' = [job EXCEPT ![d] = j] /\ tries' = [tries EXCEPT ![d] = n]
  BY DEF Over
<1>3. p \notin {"fetched", "stage"} /\ p \notin {"sent", "accepted", "refused", "failed"}
  BY <1>2
<1> QED BY <1>1, <1>2, <1>3, TypedMove

LEMMA TypedStill ==
    ASSUME TypedInv, ClientInv', Tidy, UNCHANGED <<pc, seen, job, tries>>
    PROVE  TypedInv'
<1>1. ASSUME NEW d \in Devices PROVE Attempted(d)'
  BY DEF TypedInv, Attempted, Locked
<1> QED BY <1>1 DEF TypedInv, Tidy

\* The settle goes on with what it has in hand, its attempts counted as they were.
LEMMA TypedGoes ==
    ASSUME TypedInv, ClientInv', Tidy, NEW d \in Devices,
           NEW p \in {"settle", "establish", "catchup", "behind", "join", "giveup", "reconcile", "again"},
           pc' = [pc EXCEPT ![d] = p], NEW s, seen' = [seen EXCEPT ![d] = s],
           NEW j, job' = [job EXCEPT ![d] = j], NEW n \in 0 .. Attempts, tries' = [tries EXCEPT ![d] = n]
    PROVE  TypedInv'
BY TypedMove

LEMMA OldParts ==
    ASSUME TypedInv, NEW d \in Devices
    PROVE  /\ seen = [seen EXCEPT ![d] = seen[d]] /\ job = [job EXCEPT ![d] = job[d]]
           /\ tries = [tries EXCEPT ![d] = tries[d]] /\ tries[d] \in 0 .. Attempts /\ 0 \in 0 .. Attempts
           /\ Attempted(d) /\ Signed /\ ClientInv
           /\ waiting \subseteq Devices /\ asked \subseteq Devices /\ wedge \in [Devices -> Watches]
BY SameIsExcept, ClientAssumption DEF TypedInv, ClientInv

\* A Commit that is nowhere is in no log, and one that is dropped is kept if it is in one.
LEMMA LoggedStay ==
    ASSUME ClientInv, NEW c \in Commits,
           made' = made \/ (made[c] = Unmade /\ \E rec : made' = [made EXCEPT ![c] = rec]) \/ made' = Forgotten(c)
    PROVE  \A x \in Commits : InLog(x) => made'[x] = made[x]
<1>1. CASE made' = made
  BY <1>1
<1>2. CASE made[c] = Unmade /\ \E rec : made' = [made EXCEPT ![c] = rec]
  <2>1. ~InLog(c)
    <3>1. SUFFICES ASSUME InLog(c) PROVE FALSE
      OBVIOUS
    <3>2. made[c].group \in Groups
      BY <3>1 DEF InLog, ClientInv, LogInv
    <3> QED BY <1>2, <3>2, ClientAssumption DEF Unmade
  <2>2. \A x \in Commits : x # c => made'[x] = made[x]
    BY <1>2 DEF ClientInv, Shapes
  <2> QED BY <2>1, <2>2
<1>3. CASE made' = Forgotten(c)
  BY <1>3 DEF Forgotten, ClientInv, Shapes
<1> QED BY <1>1, <1>2, <1>3

LEMMA TidyIf ==
    ASSUME TypedInv, log' = log, \A c \in Commits : InLog(c) => made'[c] = made[c],
           waiting' \subseteq Devices, asked' \subseteq Devices, wedge' \in [Devices -> Watches]
    PROVE  Tidy
BY StillSigned DEF Tidy, TypedInv

LEMMA EndsTyped ==
    ASSUME TypedInv, ClientInv', NEW d \in Devices,
           NobodyThere(d) \/ AlreadyIn(d) \/ Reconciled(d) \/ CannotStage(d)
    PROVE  TypedInv'
<1>1. /\ Over(d) /\ UNCHANGED <<log, made, asked, wedge>> /\ waiting' \subseteq waiting
  BY DEF NobodyThere, AlreadyIn, Reconciled, CannotStage, server, own
<1>2. Tidy
  BY <1>1, TidyIf, OldParts
<1> QED BY <1>1, <1>2, TypedOver

LEMMA ReloadTyped ==
    ASSUME TypedInv, ClientInv', NEW d \in Devices, Reload(d)
    PROVE  TypedInv'
<1>1. Over(d) /\ log' = log /\ waiting' \subseteq Devices /\ asked' \subseteq Devices
  BY OldParts DEF Reload, server
<1>2. wedge' \in [Devices -> Watches]
  BY OldParts DEF Reload, Watches
<1>3. \A c \in Commits : InLog(c) => made'[c] = made[c]
  <2>1. CASE Locked(d)
    <3>1. job[d].commit \in Commits /\ made' = Forgotten(job[d].commit) /\ ClientInv
      BY <2>1, OldParts, JobParts DEF Reload
    <3> QED BY <3>1, LoggedStay
  <2>2. CASE ~Locked(d)
    BY <2>2 DEF Reload
  <2> QED BY <2>1, <2>2
<1>4. Tidy
  BY <1>1, <1>2, <1>3, TidyIf
<1> QED BY <1>1, <1>4, TypedOver

LEMMA AnnounceTyped ==
    ASSUME TypedInv, ClientInv', NEW d \in Devices, Announce(d)
    PROVE  TypedInv'
<1>1. UNCHANGED <<log, made, wedge>> /\ waiting' \subseteq Devices /\ asked' \subseteq Devices
  BY OldParts, ClientAssumption DEF Announce, server
<1>2. Tidy
  BY <1>1, TidyIf, OldParts
<1>3. CASE Over(d)
  BY <1>2, <1>3, TypedOver
<1>4. CASE pc' = [pc EXCEPT ![d] = "giveup"] /\ UNCHANGED <<seen, job, tries>>
  BY <1>2, <1>4, OldParts, TypedGoes
<1> QED BY <1>3, <1>4 DEF Announce

LEMMA ReadStateTyped ==
    ASSUME TypedInv, ClientInv', NEW d \in Devices, ReadState(d)
    PROVE  TypedInv'
<1>1. UNCHANGED <<log, made, wedge, waiting, asked, job, tries>>
  BY DEF ReadState, server, own
<1>2. Tidy
  BY <1>1, TidyIf, OldParts
<1>3. PICK p, s : /\ p \in {"establish", "catchup"} /\ pc' = [pc EXCEPT ![d] = p]
                  /\ seen' = [seen EXCEPT ![d] = s]
  BY DEF ReadState
<1> QED BY <1>1, <1>2, <1>3, OldParts, TypedGoes

LEMMA CatchUpTyped ==
    ASSUME TypedInv, ClientInv', NEW d \in Devices, CatchUp(d) \/ CheckFollowing(d) \/ CatchUpAgain(d)
    PROVE  TypedInv'
<1>1. UNCHANGED <<log, made, asked, seen, job>>
  BY DEF CatchUp, CheckFollowing, CatchUpAgain, server, own
<1>2. waiting' \subseteq Devices
  BY OldParts DEF CatchUp, CheckFollowing, CatchUpAgain, own
<1>3. wedge' \in [Devices -> Watches]
  <2>1. CASE wedge' = wedge
    BY <2>1, OldParts
  <2>2. CASE CheckFollowing(d)
    <3>1. PICK w : wedge' = [wedge EXCEPT ![d] = w] /\ w \in {"watched", wedge[d]}
      BY <2>2 DEF CheckFollowing
    <3> QED BY <3>1, OldParts DEF Watches
  <2> QED BY <2>1, <2>2 DEF CatchUp, CatchUpAgain, own
<1>4. Tidy
  BY <1>1, <1>2, <1>3, TidyIf, OldParts
<1>5. PICK p \in {"join", "behind", "reconcile"} : pc' = [pc EXCEPT ![d] = p]
  <2>1. CASE CatchUp(d)
    BY <2>1 DEF CatchUp
  <2>2. CASE CheckFollowing(d) \/ CatchUpAgain(d)
    BY <2>2 DEF CheckFollowing, CatchUpAgain
  <2> QED BY <2>1, <2>2
<1>6. PICK n \in 0 .. Attempts : tries' = [tries EXCEPT ![d] = n]
  BY OldParts DEF CatchUp, CheckFollowing, CatchUpAgain
<1> QED BY <1>1, <1>4, <1>5, <1>6, OldParts, TypedGoes

LEMMA FetchInfoTyped ==
    ASSUME TypedInv, ClientInv', NEW d \in Devices, FetchInfo(d)
    PROVE  TypedInv'
<1>1. UNCHANGED <<log, made, wedge, waiting, asked, seen, tries>> /\ tries[d] < Attempts
  BY DEF FetchInfo, server, own
<1>2. Tidy
  BY <1>1, TidyIf, OldParts
<1>3. PICK p, j : p = "fetched" /\ pc' = [pc EXCEPT ![d] = p] /\ job' = [job EXCEPT ![d] = j]
  BY DEF FetchInfo
<1>4. p # "idle" /\ p \notin {"sent", "accepted", "refused", "failed"}
  BY <1>3
<1>5. PICK n, s : /\ n \in 0 .. Attempts /\ n < Attempts /\ tries' = [tries EXCEPT ![d] = n]
                  /\ seen' = [seen EXCEPT ![d] = s]
  BY <1>1, OldParts
<1> QED BY <1>2, <1>3, <1>4, <1>5, TypedMove

LEMMA LookTyped ==
    ASSUME TypedInv, ClientInv', NEW d \in Devices, Look(d)
    PROVE  TypedInv'
<1>1. UNCHANGED <<log, made, wedge, waiting, asked, seen, tries>> /\ tries[d] < Attempts
  BY DEF Look, server, own
<1>2. Tidy
  BY <1>1, TidyIf, OldParts
<1>3. PICK p, j : p = "stage" /\ pc' = [pc EXCEPT ![d] = p] /\ job' = [job EXCEPT ![d] = j]
  BY DEF Look
<1>4. p # "idle" /\ p \notin {"sent", "accepted", "refused", "failed"}
  BY <1>3
<1>5. PICK n, s : /\ n \in 0 .. Attempts /\ n < Attempts /\ tries' = [tries EXCEPT ![d] = n]
                  /\ seen' = [seen EXCEPT ![d] = s]
  BY <1>1, OldParts
<1> QED BY <1>2, <1>3, <1>4, <1>5, TypedMove

LEMMA GiveUpTyped ==
    ASSUME TypedInv, ClientInv', NEW d \in Devices, GiveUp(d)
    PROVE  TypedInv'
<1>1. UNCHANGED <<log, made, wedge, asked, seen, job, tries>> /\ waiting' \subseteq Devices
  BY OldParts DEF GiveUp
<1>2. Tidy
  BY <1>1, TidyIf, OldParts
<1>3. PICK p \in {"settle"} : pc' = [pc EXCEPT ![d] = p]
  BY DEF GiveUp
<1> QED BY <1>1, <1>2, <1>3, OldParts, TypedGoes

LEMMA AdmitTyped ==
    ASSUME TypedInv, ClientInv', NEW d \in Devices, Admit(d)
    PROVE  TypedInv'
<1>1. UNCHANGED <<log, made, wedge, waiting, job>> /\ asked' \subseteq Devices
  BY OldParts DEF Admit, server
<1>2. Tidy
  BY <1>1, TidyIf, OldParts
<1>3. CASE UNCHANGED <<seen, tries, pc>>
  BY <1>1, <1>2, <1>3, TypedStill
<1>4. CASE current # NoGroup /\ Holds(d, current)
  <2>1. PICK p, s : /\ p = "reconcile" /\ pc' = [pc EXCEPT ![d] = p] /\ seen' = [seen EXCEPT ![d] = s]
                    /\ tries' = [tries EXCEPT ![d] = 0]
    BY <1>4 DEF Admit
  <2> QED BY <1>1, <1>2, <2>1, OldParts, TypedGoes
<1> QED BY <1>3, <1>4 DEF Admit

LEMMA BesideTyped ==
    ASSUME TypedInv, ClientInv', NEW d \in Devices,
           \/ Live(d) \/ Recheck(d) \/ Export(d) \/ Label(d) \/ CheckInfo(d) \/ WriteInfo(d)
           \/ Publish(d) \/ Tombstone(d) \/ Sever(d)
    PROVE  TypedInv'
<1>1. UNCHANGED <<log, made, waiting, pc, seen, job, tries>> /\ asked' \subseteq Devices
  BY OldParts DEF Live, Recheck, Export, Label, CheckInfo, WriteInfo, Publish, Tombstone, Sever, server, own
<1>2. wedge' \in [Devices -> Watches]
  <2>1. CASE wedge' = wedge
    BY <2>1, OldParts
  <2>2. CASE Live(d)
    <3>1. PICK w : wedge' = [wedge EXCEPT ![d] = w] /\ w \in {"watched", wedge[d]}
      BY <2>2 DEF Live
    <3> QED BY <3>1, OldParts DEF Watches
  <2>3. CASE Recheck(d) \/ Sever(d)
    <3>1. PICK w : wedge' = [wedge EXCEPT ![d] = w] /\ w \in {"no", "confirmed"}
      BY <2>3 DEF Recheck, Sever
    <3> QED BY <3>1, OldParts DEF Watches
  <2> QED BY <2>1, <2>2, <2>3 DEF Export, Label, CheckInfo, WriteInfo, Publish, Tombstone, own
<1>3. Tidy
  BY <1>1, <1>2, TidyIf, OldParts
<1> QED BY <1>1, <1>3, TypedStill

LEMMA RetireTyped ==
    ASSUME TypedInv, ClientInv', NEW d \in Devices, Retire(d)
    PROVE  TypedInv'
<1>1. UNCHANGED <<log, made, waiting, asked, seen, job, tries>>
  BY DEF Retire
<1>2. wedge' \in [Devices -> Watches]
  BY OldParts DEF Retire, Watches
<1>3. Tidy
  BY <1>1, <1>2, TidyIf, OldParts
<1>4. CASE pc[d] = "idle"
  <2>1. PICK p \in {"settle"} : pc' = [pc EXCEPT ![d] = p]
    BY <1>4 DEF Retire
  <2> QED BY <1>1, <1>3, <2>1, OldParts, TypedGoes
<1>5. CASE pc[d] # "idle"
  <2>1. pc' = pc
    BY <1>5, OldParts, SameIsExcept DEF Retire, ClientInv
  <2> QED BY <1>1, <1>3, <2>1, TypedStill
<1> QED BY <1>4, <1>5

LEMMA NoAnswerTyped ==
    ASSUME TypedInv, ClientInv', NEW d \in Devices, Decline(d) \/ Lose(d)
    PROVE  TypedInv'
<1>1. UNCHANGED <<log, made, wedge, waiting, asked, seen, job, tries>> /\ Locked(d)
  BY DEF Decline, Lose, server, own, Locked
<1>2. Tidy
  BY <1>1, TidyIf, OldParts
<1>3. PICK p \in {"refused", "failed"} : pc' = [pc EXCEPT ![d] = p]
  BY DEF Decline, Lose
<1>4. PICK n, s, j : /\ n \in 0 .. Attempts /\ tries' = [tries EXCEPT ![d] = n] /\ n = tries[d]
                     /\ seen' = [seen EXCEPT ![d] = s] /\ job' = [job EXCEPT ![d] = j] /\ j = job[d]
  BY <1>1, OldParts
<1>5. j.kind # "establish" => n < Attempts
  BY <1>1, <1>4, OldParts DEF Attempted
<1>6. p # "idle" /\ p \notin {"fetched", "stage"}
  BY <1>3
<1> QED BY <1>2, <1>3, <1>4, <1>5, <1>6, TypedMove

LEMMA OffersTyped ==
    ASSUME TypedInv, ClientInv', NEW d \in Devices, NEW c \in Commits,
           ExternalJoin(d, c) \/ Stage(d, c) \/ \E g \in Groups : Establish(d, g, c)
    PROVE  TypedInv'
<1>1. UNCHANGED <<log, wedge, waiting, asked, seen, tries>>
  BY DEF ExternalJoin, Stage, Establish, server, own
<1>2. PICK kind, rec, base : Offer(d, kind, c, rec, base) /\ (kind = "establish" \/ pc[d] \in {"fetched", "stage"})
  <2>1. CASE ExternalJoin(d, c)
    BY <2>1 DEF ExternalJoin
  <2>2. CASE Stage(d, c)
    BY <2>2 DEF Stage
  <2>3. CASE \E g \in Groups : Establish(d, g, c)
    BY <2>3 DEF Establish
  <2> QED BY <2>1, <2>2, <2>3
<1>3. made[c] = Unmade /\ made' = [made EXCEPT ![c] = rec]
  BY <1>2 DEF Offer
<1>4. \A x \in Commits : InLog(x) => made'[x] = made[x]
  BY <1>3, OldParts, LoggedStay
<1>5. Tidy
  BY <1>1, <1>4, TidyIf, OldParts
<1>6. PICK p, j : p = "sent" /\ pc' = [pc EXCEPT ![d] = p] /\ job' = [job EXCEPT ![d] = j] /\ j.kind = kind
  <2>1. PICK j : j = [kind |-> kind, group |-> rec.group, base |-> base, commit |-> c, who |-> {}, on |-> rec.on]
    OBVIOUS
  <2>2. j.kind = kind
    BY <2>1
  <2> QED BY <1>2, <2>1, <2>2 DEF Offer
<1>7. PICK n, s : /\ n \in 0 .. Attempts /\ tries' = [tries EXCEPT ![d] = n] /\ n = tries[d]
                  /\ seen' = [seen EXCEPT ![d] = s]
  BY <1>1, OldParts
<1>8. j.kind # "establish" => n < Attempts
  BY <1>2, <1>6, <1>7, OldParts DEF Attempted
<1>9. p # "idle" /\ p \notin {"fetched", "stage"}
  BY <1>6
<1> QED BY <1>5, <1>6, <1>7, <1>8, <1>9, TypedMove

LEMMA AcceptTyped ==
    ASSUME TypedInv, ClientInv', NEW d \in Devices, Accept(d)
    PROVE  TypedInv'
<1>1. UNCHANGED <<made, wedge, waiting, asked, seen, job, tries>> /\ Locked(d)
  BY DEF Accept, own, Locked
<1>2. PICK g \in Groups, c \in Commits :
         /\ g = job[d].group /\ c = job[d].commit /\ log[g] \in Seq(Commits) /\ made[c].by = d
  BY <1>1, OldParts, JobParts DEF ClientInv, OfDevice, JobOf
<1>3. PICK l : log'[g] = l /\ l = Append(log[g], c) /\ \A x \in Groups : x # g => log'[x] = log[x]
  BY <1>2, OldParts DEF Accept, ClientInv, Shapes, ServerShapes
<1>4. /\ Len(l) = Len(log[g]) + 1 /\ Len(log[g]) \in Nat
      /\ l[Len(log[g]) + 1] = c /\ \A i \in 1 .. Len(log[g]) : l[i] = log[g][i]
  BY <1>2, <1>3, Appended, LenProperties
<1>5. ASSUME NEW z \in Commits, NEW x \in Groups, NEW i \in 1 .. Len(log'[x]), log'[x][i] = z
      PROVE  z = c \/ InLog(z)
  <2>1. CASE x # g
    BY <1>3, <1>5, <2>1 DEF InLog
  <2>2. CASE x = g
    <3>1. i \in 1 .. Len(log[g]) \/ i = Len(log[g]) + 1
      BY <1>3, <1>4, <2>2
    <3> QED BY <1>3, <1>4, <1>5, <2>2, <3>1 DEF InLog
  <2> QED BY <2>1, <2>2
<1>6. Signed'
  <2>1. \A z \in Commits : InLog(z)' => z = c \/ InLog(z)
    BY <1>5 DEF InLog
  <2> QED BY <1>1, <1>2, <2>1, OldParts DEF Signed
<1>7. Tidy
  BY <1>1, <1>6, OldParts DEF Tidy
<1>8. PICK p : p = "accepted" /\ pc' = [pc EXCEPT ![d] = p]
  BY DEF Accept
<1>9. PICK n, s, j : /\ n \in 0 .. Attempts /\ tries' = [tries EXCEPT ![d] = n] /\ n = tries[d]
                     /\ seen' = [seen EXCEPT ![d] = s] /\ job' = [job EXCEPT ![d] = j] /\ j = job[d]
  BY <1>1, OldParts
<1>10. j.kind # "establish" => n < Attempts
  BY <1>1, <1>9, OldParts DEF Attempted
<1>11. p # "idle" /\ p \notin {"fetched", "stage"}
  BY <1>8
<1> QED BY <1>7, <1>8, <1>9, <1>10, <1>11, TypedMove

LEMMA AnswersTyped ==
    ASSUME TypedInv, ClientInv', NEW d \in Devices, Merge(d) \/ Refused(d) \/ Failed(d)
    PROVE  TypedInv'
<1>0. Locked(d) /\ ClientInv
  BY OldParts DEF Merge, Refused, Failed, Locked
<1>1. UNCHANGED <<log, asked, wedge>> /\ waiting' \subseteq Devices
  BY OldParts DEF Merge, Refused, Failed, server, own
<1>2. \A c \in Commits : InLog(c) => made'[c] = made[c]
  <2>1. job[d].commit \in Commits /\ (made' = made \/ made' = Forgotten(job[d].commit))
    BY <1>0, JobParts DEF Merge, Refused, Failed
  <2> QED BY <1>0, <2>1, LoggedStay
<1>3. Tidy
  BY <1>1, <1>2, TidyIf, OldParts
<1>4. CASE Over(d)
  BY <1>3, <1>4, TypedOver
<1>5. CASE ~Over(d)
  <2>1. job' = [job EXCEPT ![d] = NoJob] /\ seen' = seen
    BY <1>5 DEF Merge, Refused, Failed
  <2>2. PICK p \in {"settle", "join", "again", "reconcile"} : pc' = [pc EXCEPT ![d] = p]
    <3>1. CASE Refused(d)
      <4>1. PICK k \in {"establish", "join", "add", "prune"} : k = job[d].kind
        BY <1>0, JobParts
      <4>2. PICK next : /\ next = [establish |-> "settle", join |-> "join", add |-> "again", prune |-> "again"]
                        /\ pc' = [pc EXCEPT ![d] = next[k]]
        BY <3>1, <4>1 DEF Refused
      <4>3. next["establish"] = "settle" /\ next["join"] = "join" /\ next["add"] = "again" /\ next["prune"] = "again"
        BY <4>2
      <4>4. PICK p : p = next[k]
        OBVIOUS
      <4>5. p \in {"settle", "join", "again"}
        BY <4>3, <4>4
      <4> QED BY <4>2, <4>4, <4>5
    <3>2. CASE Merge(d) \/ Failed(d)
      BY <1>5, <3>2 DEF Merge, Failed
    <3> QED BY <3>1, <3>2
  <2>3. PICK n \in 0 .. Attempts : tries' = [tries EXCEPT ![d] = n]
    <3>1. job[d].kind # "establish" => tries[d] + 1 \in 0 .. Attempts
      BY <1>0, OldParts, ClientAssumption DEF Attempted
    <3>2. 0 \in 0 .. Attempts /\ Attempts \in 0 .. Attempts
      BY ClientAssumption
    <3>3. CASE Refused(d)
      BY <3>1, <3>2, <3>3 DEF Refused
    <3>4. CASE Merge(d)
      BY <1>5, <3>1, <3>4 DEF Merge
    <3>5. CASE Failed(d)
      BY <1>5, <3>2, <3>5 DEF Failed
    <3> QED BY <3>3, <3>4, <3>5
  <2> QED BY <1>3, <2>1, <2>2, <2>3, OldParts, TypedGoes
<1> QED BY <1>4, <1>5

LEMMA TypedKept ==
    ASSUME "founding" \notin Failures, TypedInv, [Next]_vars
    PROVE  TypedInv'
<1>0. ClientInv'
  BY ClientInvKept DEF TypedInv
<1>1. CASE UNCHANGED vars
  <2>1. /\ UNCHANGED <<pc, seen, job, tries>> /\ UNCHANGED <<log, made>> /\ UNCHANGED <<waiting, asked, wedge>>
    BY <1>1 DEF vars
  <2>2. Tidy
    BY <2>1 DEF TypedInv, Tidy, Signed, InLog
  <2> QED BY <1>0, <2>1, <2>2, TypedStill
<1>2. ASSUME NEW d \in Awake, Settle(d) PROVE TypedInv'
  <2>0. d \in Devices
    BY ClientAssumption
  <2>1. ASSUME NEW c \in Commits,
               ExternalJoin(d, c) \/ Stage(d, c) \/ \E g \in Groups : Establish(d, g, c)
        PROVE  TypedInv'
    BY <1>0, <2>0, <2>1, OffersTyped
  <2>2. CASE ReadState(d) \/ FetchInfo(d) \/ Announce(d) \/ GiveUp(d) \/ Admit(d) \/ Look(d)
    BY <1>0, <2>0, <2>2, ReadStateTyped, FetchInfoTyped, AnnounceTyped, GiveUpTyped, AdmitTyped, LookTyped
  <2>3. CASE NobodyThere(d) \/ AlreadyIn(d) \/ Reconciled(d) \/ CannotStage(d)
    BY <1>0, <2>0, <2>3, EndsTyped
  <2>4. CASE CatchUp(d) \/ CheckFollowing(d) \/ CatchUpAgain(d)
    BY <1>0, <2>0, <2>4, CatchUpTyped
  <2>5. CASE Accept(d) \/ Decline(d) \/ Merge(d) \/ Refused(d) \/ Failed(d)
    BY <1>0, <2>0, <2>5, AcceptTyped, NoAnswerTyped, AnswersTyped
  <2> QED BY <1>2, <2>1, <2>2, <2>3, <2>4, <2>5 DEF Settle
<1>3. ASSUME NEW d \in Awake, Beside(d) PROVE TypedInv'
  <2>0. d \in Devices
    BY ClientAssumption
  <2> QED BY <1>0, <1>3, <2>0, BesideTyped, RetireTyped DEF Beside
<1>4. ASSUME NEW d \in Devices, Happens(d) PROVE TypedInv'
  BY <1>0, <1>4, BesideTyped, NoAnswerTyped, ReloadTyped DEF Happens
<1> QED BY <1>1, <1>2, <1>3, <1>4 DEF Next

\* What the variables range over, that attempts are counted within their limits
\* (COMMIT_ATTEMPTS, EXTERNAL_JOIN_ATTEMPTS), and that an offered Commit is its device's.
THEOREM ClientTyped ==
    ASSUME "founding" \notin Failures
    PROVE  Spec => []TypeOK
<1>1. TypedInv /\ [Next]_vars => TypedInv'
  BY TypedKept
<1> QED BY <1>1, TypedAtFirst, TypedIsTypeOK, PTL DEF Spec

================================================================================
