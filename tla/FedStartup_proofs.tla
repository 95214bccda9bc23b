-------------------------- MODULE FedStartup_proofs --------------------------
(***************************************************************************)
(* What a start achieves, for any sites, any configuration of peers and    *)
(* any number of changes, with every failure the model knows.              *)
(***************************************************************************)
EXTENDS FedStartup, TLAPS

LEMMA TypeInit == Init => TypeOK
BY BoundAssumption DEF Init, TypeOK, Ver, Phase

LEMMA TypeStep == TypeOK /\ [Next]_vars => TypeOK'
<1> SUFFICES ASSUME TypeOK, [Next]_vars PROVE TypeOK'
  OBVIOUS
<1> USE PeersAssumption, BoundAssumption DEF TypeOK, Phase, PeersOf
<1>1. ASSUME NEW s \in Sites, Change(s) PROVE TypeOK'
  <2>1. db[s] + 1 \in Ver /\ db'[s] = db[s] + 1
    BY <1>1 DEF Change, Ver
  <2>2. \A t \in Sites : [has[t] EXCEPT ![s] = db'[s]] \in [Sites -> Ver]
    BY <2>1
  <2>3. has' \in [Sites -> [Sites -> Ver]]
    <3>1. [has EXCEPT ![s][s] = db'[s]] \in [Sites -> [Sites -> Ver]]
      BY <2>1
    <3>2. CASE Serves(s)
      <4>1. has' = [t \in Sites |->
                     IF t = s \/ (t \in PeersOf(s) /\ s \in PeersOf(t) /\ Serves(t))
                       THEN [has[t] EXCEPT ![s] = db'[s]]
                       ELSE has[t]]
        BY <1>1, <3>2 DEF Change
      <4> QED
        BY <2>2, <4>1
    <3>3. CASE ~Serves(s)
      BY <1>1, <3>1, <3>3 DEF Change
    <3> QED
      BY <3>2, <3>3
  <2> QED
    BY <1>1, <2>1, <2>3 DEF Change
<1>2. ASSUME NEW s \in Sites, Start(s) PROVE TypeOK'
  <2>1. [p \in Sites |-> IF p \in PeersOf(s) /\ Serves(p) THEN has[p][p] ELSE 0] \in [Sites -> Ver]
    BY DEF Ver
  <2> QED
    BY <1>2, <2>1 DEF Start
<1>3. ASSUME NEW s \in Sites, PullLocal(s) PROVE TypeOK'
  <2>1. has' \in [Sites -> [Sites -> Ver]]
    <3>1. [has EXCEPT ![s][s] = db[s]] \in [Sites -> [Sites -> Ver]]
      OBVIOUS
    <3> QED
      BY <1>3, <3>1 DEF PullLocal
  <2>2. todo' \in [Sites -> SUBSET Sites] /\ \A t \in Sites : t \notin todo'[t]
    BY <1>3 DEF PullLocal
  <2> QED
    BY <1>3, <2>1, <2>2 DEF PullLocal
<1>4. ASSUME NEW s \in Sites, NEW p \in Sites, PullPeer(s, p) PROVE TypeOK'
  BY <1>4 DEF PullPeer
<1>5. ASSUME NEW s \in Sites, PullsDone(s) PROVE TypeOK'
  BY <1>5 DEF PullsDone
<1>6. ASSUME NEW s \in Sites, NEW p \in Sites, Hello(s, p) PROVE TypeOK'
  <2>1. [base EXCEPT ![s][p] = 0] \in [Sites -> [Sites -> Ver]]
    BY DEF Ver
  <2>2. p # s
    BY <1>6 DEF Hello
  <2>3. known' \in [Sites -> SUBSET Sites] /\ \A q \in Sites : q \notin known'[q]
    <3>1. known' = known \/ known' = [known EXCEPT ![p] = known[p] \cup {s}]
      BY <1>6 DEF Hello
    <3>2. known[p] \cup {s} \in SUBSET Sites /\ p \notin known[p] \cup {s}
      BY <2>2
    <3>3. CASE known' = [known EXCEPT ![p] = known[p] \cup {s}]
      BY <3>2, <3>3
    <3> QED
      BY <3>1, <3>3
  <2>4. todo' \in [Sites -> SUBSET Sites] /\ \A q \in Sites : q \notin todo'[q]
    BY <1>6 DEF Hello
  <2>5. await' \in [Sites -> SUBSET Sites] /\ asked' \subseteq Sites \X Sites
    <3>1. await' = await \/ await' = [await EXCEPT ![s] = {p}]
      BY <1>6 DEF Hello
    <3>2. asked' = asked \/ asked' = asked \cup {<<p, s>>}
      BY <1>6 DEF Hello
    <3> QED
      BY <3>1, <3>2
  <2>6. base' \in [Sites -> [Sites -> Ver]]
    BY <1>6, <2>1 DEF Hello
  <2> QED
    BY <1>6, <2>3, <2>4, <2>5, <2>6 DEF Hello
<1>7. ASSUME NEW s \in Sites, Replied(s) \/ Up(s) PROVE TypeOK'
  BY <1>7 DEF Replied, Up
<1>8. ASSUME NEW s \in Sites, BootstrapRaises(s) PROVE TypeOK'
  <2>1. [p \in Sites |-> 0] \in [Sites -> Ver]
    BY DEF Ver
  <2> QED
    BY <1>8, <2>1 DEF BootstrapRaises
<1>9. ASSUME NEW s \in Sites, Stop(s) PROVE TypeOK'
  <2>1. [t \in Sites |-> [base[t] EXCEPT ![s] = 0]] \in [Sites -> [Sites -> Ver]]
    BY DEF Ver
  <2> QED
    BY <1>9, <2>1 DEF Stop
<1>10. ASSUME NEW p \in Sites, NEW s \in Sites, Answer(p, s) PROVE TypeOK'
  <2>1. [base EXCEPT ![p][s] = 0] \in [Sites -> [Sites -> Ver]]
    BY DEF Ver
  <2>2. [to |-> p, of |-> s, ver |-> has[s][s]] \in List
    BY DEF List
  <2> QED
    BY <1>10, <2>1, <2>2 DEF Answer
<1>11. ASSUME NEW l \in lists, IndexList(l) PROVE TypeOK'
  <2>1. l.to \in Sites /\ l.of \in Sites /\ l.ver \in Ver
    BY DEF List
  <2>2. Newer(has[l.to][l.of], l.ver) \in Ver
    BY <2>1 DEF Newer
  <2>3. [has EXCEPT ![l.to][l.of] = Newer(@, l.ver)] \in [Sites -> [Sites -> Ver]]
    BY <2>1, <2>2
  <2> QED
    BY <1>11, <2>3 DEF IndexList
<1>12. CASE UNCHANGED vars
  BY <1>12 DEF vars
<1> QED
  BY <1>1, <1>2, <1>3, <1>4, <1>5, <1>6, <1>7, <1>8, <1>9, <1>10, <1>11, <1>12
     DEF Next, Starting, Calls

-----------------------------------------------------------------------------
(* Copies only move forward. *)

\* Nobody knows more of a site than its own gateway, and no answer under way does.
Bounded ==
  /\ \A s, t \in Sites : has[s][t] <= db[t]
  /\ \A l \in lists : l.ver <= db[l.of]

LEMMA BoundedInit == Init => Bounded
BY DEF Init, Bounded

LEMMA BoundedStep ==
  TypeOK /\ Bounded /\ [Next]_vars => Bounded' /\ \A s, t \in Sites : has'[s][t] >= has[s][t]
<1> SUFFICES ASSUME TypeOK, Bounded, [Next]_vars
             PROVE  Bounded' /\ \A s, t \in Sites : has'[s][t] >= has[s][t]
  OBVIOUS
<1> USE BoundAssumption DEF TypeOK, Bounded, Ver
<1>1. ASSUME UNCHANGED <<db, has>>, lists' \subseteq lists
      PROVE  Bounded' /\ \A s, t \in Sites : has'[s][t] >= has[s][t]
  BY <1>1
<1>2. ASSUME NEW s \in Sites, Change(s)
      PROVE  Bounded' /\ \A q, t \in Sites : has'[q][t] >= has[q][t]
  <2>1. db'[s] = db[s] + 1 /\ lists' = lists /\ \A t \in Sites : t # s => db'[t] = db[t]
    BY <1>2 DEF Change
  <2>2. \A q, t \in Sites : has'[q][t] = has[q][t] \/ (t = s /\ has'[q][t] = db'[s])
    <3>1. CASE Serves(s)
      BY <1>2, <3>1 DEF Change
    <3>2. CASE ~Serves(s)
      BY <1>2, <3>2 DEF Change
    <3> QED
      BY <3>1, <3>2
  <2>3. \A l \in lists : l.of \in Sites /\ l.ver \in Nat
    BY DEF List
  <2>4. \A q, t \in Sites : has[q][t] \in Nat /\ db[t] \in Nat
    OBVIOUS
  <2>5. \A t \in Sites : db'[t] \in Nat /\ db[t] <= db'[t]
    BY <2>1, <2>4
  <2>6. \A l \in lists' : l.ver <= db'[l.of]
    BY <2>1, <2>3, <2>4, <2>5
  <2>7. \A q, t \in Sites : has[q][t] <= has'[q][t] /\ has'[q][t] <= db'[t]
    BY <2>2, <2>4, <2>5
  <2> QED
    BY <2>6, <2>7
<1>3. ASSUME NEW s \in Sites, PullLocal(s)
      PROVE  Bounded' /\ \A q, t \in Sites : has'[q][t] >= has[q][t]
  <2>1. \A q, t \in Sites : has'[q][t] = has[q][t] \/ (t = s /\ has'[q][t] = db[s])
    <3>1. has' = has \/ has' = [has EXCEPT ![s][s] = db[s]]
      BY <1>3 DEF PullLocal
    <3> QED
      BY <3>1
  <2>2. \A q, t \in Sites : has[q][t] \in Nat /\ db[t] \in Nat
    OBVIOUS
  <2>3. \A q, t \in Sites : has[q][t] <= has'[q][t] /\ has'[q][t] <= db[t]
    BY <2>1, <2>2
  <2>4. db' = db /\ lists' = lists
    BY <1>3 DEF PullLocal
  <2> QED
    BY <2>3, <2>4
<1>4. ASSUME NEW p \in Sites, NEW s \in Sites, Answer(p, s)
      PROVE  Bounded' /\ \A q, t \in Sites : has'[q][t] >= has[q][t]
  <2>1. \A l \in lists' : l \in lists \/ l = [to |-> p, of |-> s, ver |-> has[s][s]]
    BY <1>4 DEF Answer
  <2> QED
    BY <1>4, <2>1 DEF Answer
<1>5. ASSUME NEW l \in lists, IndexList(l)
      PROVE  Bounded' /\ \A q, t \in Sites : has'[q][t] >= has[q][t]
  <2>1. l.to \in Sites /\ l.of \in Sites /\ l.ver \in Ver /\ l.ver <= db[l.of]
    BY DEF List
  <2>2. \A q, t \in Sites : \/ has'[q][t] = has[q][t]
                            \/ t = l.of /\ has'[q][t] = l.ver /\ l.ver > has[q][t]
    BY <1>5, <2>1 DEF IndexList, Newer
  <2> QED
    BY <1>5, <2>1, <2>2 DEF IndexList
<1> QED
  BY <1>1, <1>2, <1>3, <1>4, <1>5
     DEF Next, Start, Stop, Starting, PullPeer, PullsDone, Hello, Replied, Up,
         BootstrapRaises, Calls, vars

\* Every variable keeps its type (the whole of FedStartup).
THEOREM TypeCorrect == Spec => []TypeOK
BY TypeInit, TypeStep, PTL DEF Spec

\* No list, event or restart takes a copy back (apply_asset_event against the order in
\* which bootstrap_peer_sync_list and the events write).
THEOREM CopiesMoveForward == Spec => NeverBackwards
<1>1. TypeOK /\ Bounded /\ [Next]_vars
        => [\A s, t \in Sites : has'[s][t] >= has[s][t]]_vars
  BY BoundedStep
<1> QED
  BY <1>1, TypeInit, TypeStep, BoundedInit, BoundedStep, PTL DEF Spec, NeverBackwards

-----------------------------------------------------------------------------
(* A start learns and registers. *)

\* What p had is here, or on its way here.
Got(s, p) ==
  \/ has[s][p] >= base[s][p]
  \/ <<s, p>> \in asked
  \/ \E l \in lists : l.to = s /\ l.of = p /\ l.ver >= base[s][p]

\* How far s has come with a peer that has served and answered since s started.
Pair(s, p) ==
  base[s][p] > 0 =>
    /\ p \in PeersOf(s) /\ Serves(p) /\ has[p][p] >= base[s][p]
    /\ (phase[s] = "pull" /\ p \notin todo[s]) => Got(s, p)
    /\ phase[s] \in {"hello", "up"} => has[s][p] >= base[s][p]
    /\ (phase[s] = "up" \/ (phase[s] = "hello" /\ p \notin todo[s])) => s \in known[p]

Pairs == \A s, p \in Sites : Pair(s, p)

LEMMA PairsInit == Init => Pairs
BY DEF Init, Pairs, Pair

LEMMA PairsStep == TypeOK /\ Bounded /\ Pairs /\ [Next]_vars => Pairs'
<1> SUFFICES ASSUME TypeOK, Bounded, Pairs, [Next]_vars, NEW s \in Sites, NEW p \in Sites
             PROVE  Pair(s, p)'
  BY DEF Pairs
<1> USE DEF TypeOK, PeersOf, Serves
<1>1. Pair(s, p)
  BY DEF Pairs
<1>2. /\ base[s][p] \in Nat /\ has[s][p] \in Nat /\ has[p][p] \in Nat
      /\ base'[s][p] \in Nat /\ has'[s][p] \in Nat /\ has'[p][p] \in Nat
  BY TypeStep DEF Ver
<1>3. has'[s][p] >= has[s][p] /\ has'[p][p] >= has[p][p]
  BY BoundedStep
<1>4. p \in PeersOf(s) => p # s
  BY PeersAssumption
<1>5. CASE base'[s][p] = 0
  BY <1>5, <1>2 DEF Pair
<1>6. ASSUME base'[s][p] = base[s][p], base[s][p] > 0,
             phase'[p] = phase[p], phase'[s] = phase[s], todo'[s] = todo[s],
             known[p] \subseteq known'[p], Got(s, p) => Got(s, p)'
      PROVE  Pair(s, p)'
  BY <1>1, <1>2, <1>3, <1>6 DEF Pair
<1>7. ASSUME base'[s][p] = base[s][p], base[s][p] > 0,
             asked \subseteq asked', lists \subseteq lists'
      PROVE  Got(s, p) => Got(s, p)'
  BY <1>2, <1>3, <1>7 DEF Got
<1>8. ASSUME NEW r \in Sites, Change(r) PROVE Pair(s, p)'
  BY <1>2, <1>5, <1>6, <1>7, <1>8 DEF Change
<1>9. ASSUME NEW r \in Sites, Start(r) PROVE Pair(s, p)'
  <2>1. CASE r = s
    <3>1. phase'[s] = "local" /\ has' = has
      BY <1>9, <2>1 DEF Start
    <3>2. base'[s][p] = IF p \in PeersOf(s) /\ Serves(p) THEN has[p][p] ELSE 0
      BY <1>9, <2>1 DEF Start
    <3>3. p # s => phase'[p] = phase[p]
      BY <1>9, <2>1 DEF Start
    <3> QED
      BY <1>2, <1>4, <3>1, <3>2, <3>3 DEF Pair
  <2>2. CASE r # s
    <3>1. base'[s][p] = base[s][p] /\ phase'[s] = phase[s] /\ UNCHANGED <<todo, known, asked, lists>>
      BY <1>9, <2>2 DEF Start
    <3>2. base[s][p] > 0 => phase'[p] = phase[p]
      BY <1>1, <1>9 DEF Start, Pair
    <3> QED
      BY <1>2, <1>5, <1>6, <1>7, <3>1, <3>2
  <2> QED
    BY <2>1, <2>2
<1>10. ASSUME NEW r \in Sites, PullLocal(r) PROVE Pair(s, p)'
  <2>1. CASE r = s
    <3>1. phase'[s] = "pull" /\ todo'[s] = PeersOf(s) /\ base' = base
      BY <1>10, <2>1 DEF PullLocal
    <3>2. p # s => phase'[p] = phase[p]
      BY <1>10, <2>1 DEF PullLocal
    <3> QED
      BY <1>1, <1>2, <1>3, <1>4, <3>1, <3>2 DEF Pair
  <2>2. CASE r # s
    <3>1. phase'[s] = phase[s] /\ todo'[s] = todo[s] /\ UNCHANGED <<base, known, asked, lists>>
      BY <1>10, <2>2 DEF PullLocal
    <3>2. base[s][p] > 0 => phase'[p] = phase[p]
      BY <1>1, <1>10 DEF PullLocal, Pair
    <3> QED
      BY <1>2, <1>5, <1>6, <1>7, <3>1, <3>2
  <2> QED
    BY <2>1, <2>2
<1>11. ASSUME NEW r \in Sites, NEW q \in Sites, PullPeer(r, q) PROVE Pair(s, p)'
  <2>1. UNCHANGED <<has, phase, known, lists, base>> /\ asked' = asked \cup {<<r, q>>}
    BY <1>11 DEF PullPeer
  <2>2. CASE r = s /\ q = p
    BY <1>1, <1>11, <2>1, <2>2 DEF PullPeer, Pair, Got
  <2>3. CASE r = s /\ q # p
    <3>1. p \in todo'[s] <=> p \in todo[s]
      BY <1>11, <2>3 DEF PullPeer
    <3>2. base[s][p] > 0 => (Got(s, p) => Got(s, p)')
      BY <1>7, <2>1
    <3> QED
      BY <1>1, <2>1, <3>1, <3>2 DEF Pair
  <2>4. CASE r # s
    <3>1. todo'[s] = todo[s]
      BY <1>11, <2>4 DEF PullPeer
    <3> QED
      BY <1>2, <1>5, <1>6, <1>7, <2>1, <3>1
  <2> QED
    BY <2>2, <2>3, <2>4
<1>12. ASSUME NEW r \in Sites, PullsDone(r) PROVE Pair(s, p)'
  <2>1. UNCHANGED <<has, known, asked, lists, base>>
    BY <1>12 DEF PullsDone
  <2>2. base[s][p] > 0 => phase'[p] = phase[p]
    BY <1>1, <1>12 DEF PullsDone, Pair
  <2>3. CASE r = s
    <3>1. phase[s] = "pull" /\ todo[s] = {} /\ ~Pulling(s)
      BY <1>12, <2>3 DEF PullsDone
    <3>2. phase'[s] = "hello" /\ todo'[s] = PeersOf(s)
      BY <1>12, <2>3 DEF PullsDone
    <3>3. base[s][p] > 0 => has[s][p] >= base[s][p]
      BY <1>1, <3>1 DEF Pair, Got, Pulling
    <3> QED
      BY <1>1, <2>1, <2>2, <3>2, <3>3 DEF Pair
  <2>4. CASE r # s
    <3>1. phase'[s] = phase[s] /\ todo'[s] = todo[s]
      BY <1>12, <2>4 DEF PullsDone
    <3> QED
      BY <1>2, <1>5, <1>6, <1>7, <2>1, <2>2, <3>1
  <2> QED
    BY <2>3, <2>4
<1>13. ASSUME NEW r \in Sites, NEW q \in Sites, Hello(r, q) PROVE Pair(s, p)'
  <2>1. UNCHANGED <<has, phase, lists>> /\ asked \subseteq asked'
    BY <1>13 DEF Hello
  <2>2. known[p] \subseteq known'[p]
    BY <1>13 DEF Hello
  <2>3. base'[s][p] = base[s][p] \/ base'[s][p] = 0
    <3>1. base' = base \/ base' = [base EXCEPT ![r][q] = 0]
      BY <1>13 DEF Hello
    <3> QED
      BY <3>1
  <2>4. CASE r = s /\ q = p
    <3>1. phase[s] = "hello"
      BY <1>13, <2>4 DEF Hello
    <3>2. base'[s][p] = 0 \/ (base'[s][p] = base[s][p] /\ s \in known'[p])
      BY <1>13, <2>4 DEF Hello
    <3> QED
      BY <1>1, <1>5, <2>1, <3>1, <3>2 DEF Pair
  <2>5. CASE r = s /\ q # p
    <3>1. phase[s] = "hello" /\ (p \in todo'[s] <=> p \in todo[s])
      BY <1>13, <2>5 DEF Hello
    <3> QED
      BY <1>1, <1>5, <2>1, <2>2, <2>3, <3>1 DEF Pair
  <2>6. CASE r # s
    <3>1. todo'[s] = todo[s]
      BY <1>13, <2>6 DEF Hello
    <3> QED
      BY <1>2, <1>5, <1>6, <1>7, <2>1, <2>2, <2>3, <3>1
  <2> QED
    BY <2>4, <2>5, <2>6
<1>14. ASSUME NEW r \in Sites, Replied(r) PROVE Pair(s, p)'
  BY <1>2, <1>5, <1>6, <1>7, <1>14 DEF Replied
<1>15. ASSUME NEW r \in Sites, Up(r) PROVE Pair(s, p)'
  <2>1. UNCHANGED <<has, todo, known, asked, lists, base>>
    BY <1>15 DEF Up
  <2>2. base[s][p] > 0 => phase'[p] = phase[p]
    BY <1>1, <1>15 DEF Up, Pair
  <2>3. CASE r = s
    <3>1. phase[s] = "hello" /\ todo[s] = {} /\ phase'[s] = "up"
      BY <1>15, <2>3 DEF Up
    <3> QED
      BY <1>1, <2>1, <2>2, <3>1 DEF Pair
  <2>4. CASE r # s
    <3>1. phase'[s] = phase[s]
      BY <1>15, <2>4 DEF Up
    <3> QED
      BY <1>2, <1>5, <1>6, <1>7, <2>1, <2>2, <3>1
  <2> QED
    BY <2>3, <2>4
<1>16. ASSUME NEW r \in Sites, BootstrapRaises(r) PROVE Pair(s, p)'
  <2>1. CASE r = s
    <3>1. base'[s][p] = 0
      BY <1>16, <2>1 DEF BootstrapRaises
    <3> QED
      BY <1>5, <3>1
  <2>2. CASE r # s
    <3>1. /\ base'[s][p] = base[s][p] /\ phase'[s] = phase[s] /\ todo'[s] = todo[s]
          /\ has' = has /\ known' = known
      BY <1>16, <2>2 DEF BootstrapRaises
    <3>2. base[s][p] > 0 => phase'[p] = phase[p]
      BY <1>1, <1>16 DEF BootstrapRaises, Pair
    <3>3. Got(s, p) => Got(s, p)'
      <4>1. <<s, p>> \in asked => <<s, p>> \in asked'
        BY <1>16, <2>2 DEF BootstrapRaises
      <4>2. \A l \in lists : l.to = s => l \in lists'
        BY <1>16, <2>2 DEF BootstrapRaises
      <4> QED
        BY <3>1, <4>1, <4>2 DEF Got
    <3> QED
      BY <1>2, <1>5, <1>6, <3>1, <3>2, <3>3
  <2> QED
    BY <2>1, <2>2
<1>17. ASSUME NEW r \in Sites, Stop(r) PROVE Pair(s, p)'
  <2>1. has' = has /\ (p # r => base'[s][p] = base[s][p]) /\ (p = r => base'[s][p] = 0)
    BY <1>17 DEF Stop
  <2>2. CASE r = p
    BY <1>5, <2>1, <2>2
  <2>3. CASE r # p /\ r = s
    <3>1. phase'[s] = "down" /\ phase'[p] = phase[p]
      BY <1>17, <2>3 DEF Stop
    <3> QED
      BY <1>1, <2>1, <2>3, <3>1 DEF Pair
  <2>4. CASE r # p /\ r # s
    <3>1. phase'[s] = phase[s] /\ phase'[p] = phase[p] /\ todo'[s] = todo[s] /\ known'[p] = known[p]
      BY <1>17, <2>4 DEF Stop
    <3>2. Got(s, p) => Got(s, p)'
      <4>1. <<s, p>> \in asked => <<s, p>> \in asked'
        BY <1>17, <2>4 DEF Stop
      <4>2. \A l \in lists : l.to = s => l \in lists'
        BY <1>17, <2>4 DEF Stop
      <4> QED
        BY <2>1, <2>4, <4>1, <4>2 DEF Got
    <3> QED
      BY <1>2, <1>5, <1>6, <2>1, <2>4, <3>1, <3>2
  <2> QED
    BY <2>2, <2>3, <2>4
<1>18. ASSUME NEW r \in Sites, NEW q \in Sites, Answer(r, q) PROVE Pair(s, p)'
  <2>1. UNCHANGED <<has, phase, todo, known>> /\ lists \subseteq lists'
    BY <1>18 DEF Answer
  <2>2. base'[s][p] = base[s][p] \/ base'[s][p] = 0
    BY <1>18 DEF Answer
  <2>3. asked' = asked \ {<<r, q>>}
    BY <1>18 DEF Answer
  <2>4. ASSUME base'[s][p] = base[s][p], base[s][p] > 0, <<s, p>> \in asked
        PROVE  Got(s, p)'
    <3>1. CASE r = s /\ q = p
      <4>1. lists' = lists \cup {[to |-> s, of |-> p, ver |-> has[p][p]]}
        BY <1>18, <2>4, <3>1 DEF Answer
      <4>2. has[p][p] >= base[s][p]
        BY <1>1, <2>4 DEF Pair
      <4> DEFINE m == [to |-> s, of |-> p, ver |-> has[p][p]]
      <4>3. m \in lists' /\ m.to = s /\ m.of = p /\ m.ver >= base'[s][p]
        BY <2>4, <4>1, <4>2
      <4> QED
        BY <4>3 DEF Got
    <3>2. CASE r # s \/ q # p
      BY <2>3, <2>4, <3>2 DEF Got
    <3> QED
      BY <3>1, <3>2
  <2>5. ASSUME base'[s][p] = base[s][p], base[s][p] > 0
        PROVE  Got(s, p) => Got(s, p)'
    BY <2>1, <2>4, <2>5 DEF Got
  <2> QED
    BY <1>2, <1>5, <1>6, <2>1, <2>2, <2>5
<1>19. ASSUME NEW l \in lists, IndexList(l) PROVE Pair(s, p)'
  <2>1. UNCHANGED <<phase, todo, known, asked, base>> /\ lists' = lists \ {l}
    BY <1>19 DEF IndexList
  <2>2. l.to \in Sites /\ l.of \in Sites /\ l.ver \in Nat
    BY DEF List, Ver
  <2>3. (l.to = s /\ l.of = p) => has'[s][p] >= l.ver
    BY <1>2, <1>19, <2>2 DEF IndexList, Newer
  <2>4. Got(s, p) => Got(s, p)'
    BY <1>2, <1>3, <2>1, <2>2, <2>3 DEF Got
  <2> QED
    BY <1>2, <1>5, <1>6, <2>1, <2>4
<1>20. CASE UNCHANGED vars
  BY <1>1, <1>20 DEF vars, Pair, Got
<1> QED
  BY <1>8, <1>9, <1>10, <1>11, <1>12, <1>13, <1>14, <1>15, <1>16, <1>17, <1>18, <1>19, <1>20
     DEF Next, Starting, Calls

\* A site that has started knows what each peer that served and answered all the while had
\* when the start began (run_bootstrap under the lifespan).
THEOREM StartsLearn == Spec => []StartLearns
<1>1. TypeOK /\ Pairs => StartLearns
  BY DEF TypeOK, Ver, Pairs, Pair, StartLearns, Serves
<1> QED
  BY <1>1, TypeInit, TypeStep, BoundedInit, BoundedStep, PairsInit, PairsStep, PTL DEF Spec

\* ... and is in each such peer's registry (register_with_peers and site_hello).
THEOREM StartsRegister == Spec => []StartRegisters
<1>1. Pairs => StartRegisters
  BY DEF Pairs, Pair, StartRegisters, Serves
<1> QED
  BY <1>1, TypeInit, TypeStep, BoundedInit, BoundedStep, PairsInit, PairsStep, PTL DEF Spec
=============================================================================
