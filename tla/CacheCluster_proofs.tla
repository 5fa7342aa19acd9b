------------------------- MODULE CacheCluster_proofs -------------------------
(***************************************************************************)
(* Proofs about CacheCluster, for all sets of nodes, keys, values and      *)
(* clients, all rings, all configurations and all bounds, and about the    *)
(* ring itself (HashRing), for all nodes, hashes and numbers of replicas.  *)
(***************************************************************************)
EXTENDS CacheCluster, HashRing, SequenceTheorems, FiniteSetTheorems, NaturalsInduction, WellFoundedInduction, TLAPS

USE DEF lifeVars

\* A set of numbers that is not empty has a least one.
LEMMA LeastExists ==
  ASSUME NEW D, D \subseteq Nat, D # {}
  PROVE  \E x \in D : \A y \in D : x <= y
<1> DEFINE R == OpToRel(<, Nat)
<1>1. \A x, y \in Nat : y < x => <<y, x>> \in R
  BY DEF OpToRel
<1>2. IsWellFoundedOn(R, Nat)
  BY NatLessThanWellFounded
<1> HIDE DEF R
<1>3. PICK x \in D : \A y \in D : ~(<<y, x>> \in R)
  BY <1>2, WFMin
<1>4. ASSUME NEW y \in D PROVE x <= y
  <2>1. x \in Nat /\ y \in Nat
    OBVIOUS
  <2>2. ~(y < x)
    BY <2>1, <1>1, <1>3
  <2> QED
    BY <2>1, <2>2
<1> QED
  BY <1>4

\* Min finds it.
LEMMA LeastIs ==
  ASSUME NEW D, D \subseteq Nat, D # {}
  PROVE  Min(D) \in D /\ \A y \in D : Min(D) <= y
<1>1. \E x \in D : \A y \in D : x <= y
  BY LeastExists
<1> QED
  BY <1>1 DEF Min

\* PickPeer (peers.go:198-208) returns a node of the ring, or nothing.
LEMMA PickPeerOnRing ==
  ASSUME TypeOK, NEW n \in Nodes, NEW k \in Keys
  PROVE  PickPeer(n, k) \in peers[n] \cup {None}
<1>1. CASE peers[n] = {}
  BY <1>1 DEF PickPeer
<1>2. CASE peers[n] # {}
  <2> DEFINE D == {Distance[k][m] : m \in peers[n]}
  <2>1. peers[n] \subseteq Nodes /\ \A m \in Nodes : Distance[k][m] \in Nat
    BY ClusterAssumption DEF TypeOK
  <2>2. D \subseteq Nat /\ D # {}
    BY <2>1, <1>2
  <2>3. PICK x \in D : \A y \in D : x <= y
    BY <2>2, LeastExists
  <2>4. PICK m \in peers[n] : x = Distance[k][m]
    OBVIOUS
  <2>5. \A q \in peers[n] : Distance[k][m] <= Distance[k][q]
    BY <2>3, <2>4
  <2> QED
    BY <2>5, <1>2 DEF PickPeer
<1> QED
  BY <1>1, <1>2


\* A cluster that starts satisfies the inductive invariant.
LEMMA InitIInv == Init => IInv
<1> SUFFICES ASSUME Init PROVE IInv
  OBVIOUS
<1> USE ClusterAssumption DEF Init
<1>1. TypeOK
  BY DEF TypeOK, TaskRec, Idle, PCs
<1>2. FlightOwned /\ WaitersFollow /\ Placed
  BY DEF FlightOwned, WaitersFollow, Placed, Idle
<1>3. OwnRing
  BY DEF OwnRing, IsPeer
<1>4. NoSelfCall /\ SetNotResent
  BY DEF NoSelfCall, SetNotResent, Idle
<1> QED
  BY <1>1, <1>2, <1>3, <1>4 DEF IInv, ClusterInv

\* The membership steps (peers.go, register.go) touch no task, no cache and no
\* propagation.
LEMMA MembershipIInv ==
  ASSUME IInv, NEW n \in Nodes,
         Start(n) \/ Watch(n) \/ Serve(n) \/ Register(n) \/ LeaseEnds(n) \/ HandleWatchEvent(n)
  PROVE  IInv'
<1> USE ClusterAssumption DEF IInv, ClusterInv
<1>1. UNCHANGED <<setup, cache, flight, task, sync, crashes>>
  BY DEF Start, Watch, Serve, Register, LeaseEnds, HandleWatchEvent
<1>2. FlightOwned' /\ WaitersFollow' /\ Placed' /\ NoSelfCall' /\ SetNotResent'
  BY <1>1 DEF FlightOwned, WaitersFollow, Placed, NoSelfCall, SetNotResent, Over
<1>3. TypeOK' /\ OwnRing'
  <2>1. CASE Start(n)
    BY <2>1 DEF Start, TypeOK, OwnRing, Dialled, IsPeer
  <2>2. CASE Watch(n)
    BY <2>2 DEF Watch, TypeOK, OwnRing
  <2>3. CASE Serve(n)
    BY <2>3 DEF Serve, TypeOK, OwnRing
  <2>4. CASE Register(n)
    <3>1. [type |-> "put", addr |-> n] \in Events
      BY DEF Events
    <3> QED
      BY <2>4, <3>1 DEF Register, Publish, TypeOK, OwnRing
  <2>5. CASE LeaseEnds(n)
    <3>1. [type |-> "delete", addr |-> None] \in Events
      BY DEF Events
    <3> QED
      BY <2>5, <3>1 DEF LeaseEnds, Publish, TypeOK, OwnRing
  <2>6. CASE HandleWatchEvent(n)
    <3> DEFINE ev == Head(inbox[n])
    <3>1. inbox[n] \in Seq(Events) /\ inbox[n] # <<>>
      BY <2>6 DEF HandleWatchEvent, TypeOK
    <3>2. ev \in Events /\ Tail(inbox[n]) \in Seq(Events)
      BY <3>1
    <3>3. ev.type = "delete" \/ ev.addr \in Nodes
      BY <3>2 DEF Events
    <3> HIDE DEF ev
    <3>4. peers' = [peers EXCEPT ![n] = IF ev.type = "delete" THEN @ \ {ev.addr}
                      ELSE IF Dialled(n, ev.addr) THEN @ \cup {ev.addr} ELSE @]
      BY <2>6 DEF HandleWatchEvent, ev
    <3>5. OwnRing' /\ peers' \in [Nodes -> SUBSET Nodes]
      BY <3>3, <3>4, <1>1 DEF TypeOK, OwnRing, Dialled, IsPeer
    <3> QED
      BY <2>6, <3>2, <3>5 DEF HandleWatchEvent, TypeOK
  <2> QED
    BY <2>1, <2>2, <2>3, <2>4, <2>5, <2>6
<1> QED
  BY <1>2, <1>3

\* A crash takes a node's entries together with the loads they belong to.
LEMMA CrashIInv ==
  ASSUME IInv, NEW n \in Nodes, Crash(n)
  PROVE  IInv'
<1> USE ClusterAssumption DEF IInv, ClusterInv, Crash
<1>0. ASSUME NEW t \in Tasks
      PROVE  /\ task'[t] \in TaskRec /\ task'[t].node = task[t].node /\ task'[t].key = task[t].key
             /\ task'[t] = task[t] \/ (task[t].node = n /\ task'[t].pc = "dead")
             /\ (task[t].node # n \/ task[t].pc = "done") => task'[t] = task[t]
  <2>1. task[t] \in TaskRec
    BY DEF TypeOK
  <2>2. [task[t] EXCEPT !.pc = "dead"] \in TaskRec
    BY <2>1 DEF TaskRec, PCs
  <2>3. task'[t] = IF task[t].node = n /\ task[t].pc # "done"
                   THEN [task[t] EXCEPT !.pc = "dead"] ELSE task[t]
    OBVIOUS
  <2> QED
    BY <2>1, <2>2, <2>3 DEF TaskRec
<1>1. TypeOK'
  <2>1. task' \in [Tasks -> TaskRec]
    BY <1>0
  <2> QED
    BY <2>1 DEF TypeOK
<1>2. FlightOwned'
  BY <1>0 DEF TypeOK, FlightOwned
<1>3. WaitersFollow'
  BY <1>0 DEF TypeOK, WaitersFollow, Placed, Over, Ended
<1>4. Placed' /\ OwnRing'
  BY <1>0 DEF TypeOK, Placed, OwnRing, Idle
<1>5. NoSelfCall' /\ SetNotResent'
  BY <1>0 DEF TypeOK, NoSelfCall, SetNotResent
<1> QED
  BY <1>1, <1>2, <1>3, <1>4, <1>5


\* What a step may do to one task: it keeps its place, a call stays alive until
\* it is over, and the fields fit the new stage.
Legal(t, r) ==
  /\ r \in TaskRec /\ r.pc # "idle" /\ r.node \in Nodes /\ r.key \in Keys
  /\ task[t].pc # "idle" => r.node = task[t].node /\ r.key = task[t].key
  /\ task[t].pc \in Leading \cup Ended => r.pc \in Leading \cup Ended
  /\ r.pc = "wait" =>
       /\ r.ref \in Tasks \ {t} /\ task[r.ref].pc \in Leading \cup Ended
       /\ task[r.ref].node = r.node /\ task[r.ref].key = r.key
  /\ r.pc = "rpc" => r.ref \in Nodes /\ (r.node \notin setup.alias => r.ref # r.node)
  /\ r.pc = "add" => r.val # Error

\* A legal change of one task preserves what is said about all of them.
LEMMA MoveTask ==
  ASSUME IInv, NEW t \in Tasks, NEW r, Legal(t, r), UNCHANGED setup,
         task' = [task EXCEPT ![t] = r]
  PROVE  /\ task' \in [Tasks -> TaskRec] /\ WaitersFollow' /\ Placed'
         /\ \A u \in Tasks : task'[u].pc = "rpc" /\ task'[u].node \notin setup.alias
                               => task'[u].ref # task'[u].node
<1> USE DEF IInv, ClusterInv
<1>1. /\ task \in [Tasks -> TaskRec] /\ task' \in [Tasks -> TaskRec]
      /\ task'[t] = r /\ \A u \in Tasks \ {t} : task'[u] = task[u]
  BY DEF TypeOK, Legal
<1>2. Placed'
  BY <1>1 DEF Placed, Legal
<1>3. WaitersFollow'
  <2> SUFFICES ASSUME NEW u \in Tasks, task'[u].pc = "wait"
               PROVE  /\ task'[u].ref \in Tasks
                      /\ task'[task'[u].ref].node = task'[u].node
                      /\ task'[task'[u].ref].key = task'[u].key
                      /\ task'[task'[u].ref].pc \in Leading \cup Ended
    BY DEF WaitersFollow, Over
  <2>1. CASE u = t
    BY <1>1, <2>1 DEF Legal
  <2>2. CASE u # t
    <3>1. task'[u] = task[u] /\ task[u].ref \in Tasks
          /\ task[task[u].ref].node = task[u].node /\ task[task[u].ref].key = task[u].key
          /\ task[task[u].ref].pc \in Leading \cup Ended
      BY <1>1, <2>2 DEF WaitersFollow, Over
    <3>2. CASE task[u].ref = t
      BY <1>1, <3>1, <3>2 DEF Legal, Leading, Ended
    <3>3. CASE task[u].ref # t
      BY <1>1, <3>1, <3>3
    <3> QED
      BY <3>2, <3>3
  <2> QED
    BY <2>1, <2>2
<1>4. \A u \in Tasks : task'[u].pc = "rpc" /\ task'[u].node \notin setup.alias
                         => task'[u].ref # task'[u].node
  BY <1>1 DEF NoSelfCall, Legal
<1> QED
  BY <1>1, <1>2, <1>3, <1>4

\* The steps of a Get and of the handlers of forwarded Gets (group.go,
\* single_flight.go, client.go).
LEMMA StepIInv ==
  ASSUME IInv, NEW t \in Tasks, Step(t)
  PROVE  IInv'
<1> USE ClusterAssumption DEF IInv, ClusterInv
<1> DEFINE n == task[t].node
           k == task[t].key
           Still == UNCHANGED <<lifeVars, sync>>
<1>1. task[t] \in TaskRec /\ task[t].pc # "idle" /\ n \in Nodes /\ k \in Keys
  BY DEF TypeOK, Placed, Idle, Step, Lookup, Load, Store, Wake, ServeGet, RpcReturn, RpcFails,
         Getter, Unmap, AddLoaded
<1>2. t[2] < setup.hops => Child(t) \in Tasks
  BY DEF Tasks, Child, TypeOK
<1>3. ASSUME NEW u \in Tasks, NEW r, Legal(u, r), task' = [task EXCEPT ![u] = r], Still,
             cache' \in [Nodes -> [Keys -> Values \cup {Source, None}]],
             flight' \in [Nodes -> [Keys -> Tasks \cup {None}]], FlightOwned'
      PROVE  IInv'
  <2>1. task' \in [Tasks -> TaskRec] /\ WaitersFollow' /\ Placed'
        /\ \A v \in Tasks : task'[v].pc = "rpc" /\ task'[v].node \notin setup.alias
                              => task'[v].ref # task'[v].node
    BY <1>3, MoveTask
  <2>2. TypeOK' /\ OwnRing' /\ SetNotResent'
    BY <1>3, <2>1 DEF TypeOK, OwnRing, SetNotResent
  <2>3. NoSelfCall'
    BY <1>3, <2>1 DEF NoSelfCall
  <2> QED
    BY <1>3, <2>1, <2>2, <2>3
<1>4. ASSUME NEW u \in Tasks, NEW r, Legal(u, r), task' = [task EXCEPT ![u] = r], Still,
             UNCHANGED <<cache, flight>>, task[u].pc \in Leading => r.pc \in Leading
      PROVE  IInv'
  <2>1. FlightOwned'
    BY <1>4 DEF TypeOK, FlightOwned, Legal, Leading
  <2> QED
    BY <1>3, <1>4, <2>1 DEF TypeOK

<1>5. CASE Lookup(t)
  <2> DEFINE v == cache[n][k]
             r == IF v = None THEN [task[t] EXCEPT !.pc = "load"]
                  ELSE [task[t] EXCEPT !.pc = "done", !.ref = None, !.val = v]
  <2>1. task' = [task EXCEPT ![t] = r] /\ Still /\ UNCHANGED <<cache, flight>> /\ task[t].pc = "get"
    BY <1>5 DEF Lookup, Goto, Return
  <2>2. v \in Values \cup {Source, None}
    BY <1>1 DEF TypeOK
  <2>3. Legal(t, r)
    BY <1>1, <2>1, <2>2 DEF Legal, TaskRec, PCs, Leading, Ended
  <2> QED
    BY <1>4, <2>1, <2>3 DEF Leading
<1>6. CASE Load(t)
  <2> DEFINE call == flight[n][k]
             r == IF call = None THEN [task[t] EXCEPT !.pc = "store"]
                  ELSE [task[t] EXCEPT !.pc = "wait", !.ref = call]
  <2>1. task' = [task EXCEPT ![t] = r] /\ Still /\ UNCHANGED <<cache, flight>> /\ task[t].pc = "load"
    BY <1>6 DEF Load, Goto, GotoWith
  <2>2. call # None => call \in Tasks /\ task[call].node = n /\ task[call].key = k /\ task[call].pc \in Leading
    BY <1>1, SMTT(40) DEF TypeOK, FlightOwned
  <2>3. Legal(t, r)
    BY <1>1, <2>1, <2>2 DEF Legal, TaskRec, PCs, Leading, Ended
  <2> QED
    BY <1>4, <2>1, <2>3 DEF Leading
<1>7. CASE Store(t)
  <2> DEFINE p == PickPeer(n, k)
             r == IF p = None THEN [task[t] EXCEPT !.pc = "getter"]
                  ELSE [task[t] EXCEPT !.pc = "rpc", !.ref = p]
  <2>1. task' = [task EXCEPT ![t] = r] /\ Still /\ UNCHANGED cache /\ task[t].pc = "store"
        /\ flight' = [flight EXCEPT ![n][k] = t]
    BY <1>7 DEF Store, Goto, GotoWith
  <2>2. p = None \/ (p \in Nodes /\ (n \notin setup.alias => p # n))
    BY <1>1, PickPeerOnRing DEF TypeOK, OwnRing
  <2>3. Legal(t, r) /\ r.pc \in Leading /\ r.node = n /\ r.key = k
    BY <1>1, <2>1, <2>2 DEF Legal, TaskRec, PCs, Leading, Ended
  <2>4. flight' \in [Nodes -> [Keys -> Tasks \cup {None}]]
    BY <1>1, <2>1 DEF TypeOK
  <2>5. FlightOwned'
    <3> HIDE DEF r
    <3> SUFFICES ASSUME NEW m \in Nodes, NEW q \in Keys, flight'[m][q] # None
                 PROVE  LET u == flight'[m][q] IN
                        task'[u].node = m /\ task'[u].key = q /\ task'[u].pc \in Leading
      BY DEF FlightOwned
    <3>1. CASE m = n /\ q = k
      BY <1>1, <2>1, <2>3, <3>1 DEF TypeOK
    <3>2. CASE ~(m = n /\ q = k)
      <4>1. flight'[m][q] = flight[m][q]
        BY <1>1, <2>1, <3>2 DEF TypeOK
      <4>2. flight[m][q] \in Tasks /\ task[flight[m][q]].pc \in Leading
        BY <4>1 DEF TypeOK, FlightOwned
      <4> QED
        BY <2>1, <4>1, <4>2 DEF TypeOK, FlightOwned, Leading
    <3> QED
      BY <3>1, <3>2
  <2> QED
    BY <1>3, <2>1, <2>3, <2>4, <2>5 DEF TypeOK
<1>8. CASE Wake(t)
  <2> DEFINE v == task[task[t].ref].val
             r == [task[t] EXCEPT !.pc = Loaded(v), !.ref = None, !.val = v]
  <2>1. task' = [task EXCEPT ![t] = r] /\ Still /\ UNCHANGED <<cache, flight>> /\ task[t].pc = "wait"
    BY <1>8 DEF Wake, Return
  <2>2. v \in Values \cup {Source, Error, None}
    BY <2>1 DEF TypeOK, WaitersFollow, TaskRec
  <2>3. Legal(t, r)
    BY <1>1, <2>1, <2>2 DEF Legal, Loaded, TaskRec, PCs, Leading, Ended
  <2> QED
    BY <1>4, <2>1, <2>3 DEF Leading
<1>9. CASE ServeGet(t)
  <2> DEFINE r == Begun("get", task[t].ref, k)
  <2>1. /\ task' = [task EXCEPT ![Child(t)] = r] /\ Still /\ UNCHANGED <<cache, flight>>
        /\ Child(t) \in Tasks /\ task[Child(t)] = Idle /\ task[t].pc = "rpc"
    BY <1>2, <1>9 DEF ServeGet, Begin
  <2>2. task[t].ref \in Nodes
    BY <2>1 DEF Placed
  <2>3. r \in TaskRec /\ r.pc = "get" /\ r.node = task[t].ref /\ r.key = k
    BY <1>1, <2>2 DEF Begun, TaskRec, PCs
  <2>5. Legal(Child(t), r)
    <3> HIDE DEF r
    <3>1. task[Child(t)].pc = "idle"
      BY <2>1 DEF Idle
    <3> QED
      BY <1>1, <2>2, <2>3, <3>1 DEF Legal, Leading, Ended
  <2>4. task[Child(t)].pc \notin Leading
    BY <2>1 DEF Idle, Leading
  <2> QED
    BY <1>4, <2>1, <2>5, <2>4
<1>10. CASE RpcReturn(t)
  <2> DEFINE v == task[Child(t)].val
             r == IF v = Error THEN [task[t] EXCEPT !.pc = "getter", !.ref = None]
                  ELSE [task[t] EXCEPT !.pc = "unmap", !.ref = None, !.val = v]
  <2>1. /\ task' = [task EXCEPT ![t] = r] /\ Still /\ UNCHANGED <<cache, flight>>
        /\ Child(t) \in Tasks /\ task[t].pc = "rpc"
    BY <1>2, <1>10 DEF RpcReturn, GotoWith, Return
  <2>2. v \in Values \cup {Source, Error, None}
    BY <2>1 DEF TypeOK, TaskRec
  <2>3. Legal(t, r) /\ r.pc \in Leading
    BY <1>1, <2>1, <2>2 DEF Legal, TaskRec, PCs, Leading, Ended
  <2> QED
    BY <1>4, <2>1, <2>3
<1>11. CASE RpcFails(t)
  <2> DEFINE r == [task[t] EXCEPT !.pc = "getter", !.ref = None]
  <2>1. task' = [task EXCEPT ![t] = r] /\ Still /\ UNCHANGED <<cache, flight>>
    BY <1>11 DEF RpcFails, GotoWith
  <2>2. Legal(t, r) /\ r.pc \in Leading
    BY <1>1 DEF Legal, TaskRec, PCs, Leading, Ended
  <2> QED
    BY <1>4, <2>1, <2>2
<1>12. CASE Getter(t)
  <2>1. PICK v \in {Source, Error} :
          task' = [task EXCEPT ![t] = [task[t] EXCEPT !.pc = "unmap", !.ref = None, !.val = v]]
    BY <1>12 DEF Getter, Return
  <2> DEFINE r == [task[t] EXCEPT !.pc = "unmap", !.ref = None, !.val = v]
  <2>2. Still /\ UNCHANGED <<cache, flight>>
    BY <1>12 DEF Getter
  <2>3. Legal(t, r) /\ r.pc \in Leading
    BY <1>1 DEF Legal, TaskRec, PCs, Leading, Ended
  <2> QED
    BY <1>4, <2>1, <2>2, <2>3
<1>13. CASE Unmap(t)
  <2> DEFINE r == [task[t] EXCEPT !.pc = Loaded(task[t].val)]
  <2>1. task' = [task EXCEPT ![t] = r] /\ Still /\ UNCHANGED cache /\ task[t].pc = "unmap"
        /\ flight' = [flight EXCEPT ![n][k] = None]
    BY <1>13 DEF Unmap, Goto
  <2>2. Legal(t, r)
    BY <1>1, <2>1 DEF Legal, Loaded, TaskRec, PCs, Leading, Ended
  <2>3. flight' \in [Nodes -> [Keys -> Tasks \cup {None}]]
    BY <1>1, <2>1 DEF TypeOK
  <2>4. FlightOwned'
    <3> HIDE DEF r
    <3> SUFFICES ASSUME NEW m \in Nodes, NEW q \in Keys, flight'[m][q] # None
                 PROVE  LET u == flight'[m][q] IN
                        task'[u].node = m /\ task'[u].key = q /\ task'[u].pc \in Leading
      BY DEF FlightOwned
    <3>1. flight'[m][q] = flight[m][q] /\ ~(m = n /\ q = k)
      BY <1>1, <2>1 DEF TypeOK
    <3>2. flight[m][q] \in Tasks \ {t}
      BY <3>1 DEF TypeOK, FlightOwned
    <3> QED
      BY <2>1, <3>1, <3>2 DEF TypeOK, FlightOwned
  <2> QED
    BY <1>3, <2>1, <2>2, <2>3, <2>4 DEF TypeOK
<1>14. CASE AddLoaded(t)
  <2> DEFINE r == [task[t] EXCEPT !.pc = "done"]
  <2>1. task' = [task EXCEPT ![t] = r] /\ Still /\ UNCHANGED flight /\ task[t].pc = "add"
        /\ cache' = [cache EXCEPT ![n][k] = task[t].val]
    BY <1>14 DEF AddLoaded, Goto
  <2>2. task[t].val \in Values \cup {Source, None}
    BY <1>1, <2>1 DEF Placed, TaskRec
  <2>3. Legal(t, r)
    BY <1>1, <2>1 DEF Legal, TaskRec, PCs, Leading, Ended
  <2>4. cache' \in [Nodes -> [Keys -> Values \cup {Source, None}]]
    BY <1>1, <2>1, <2>2 DEF TypeOK
  <2>5. FlightOwned'
    <3>1. t # None /\ task[t].pc \notin Leading
      BY <2>1 DEF Leading
    <3>2. \A m \in Nodes, q \in Keys : flight[m][q] # t
      BY <3>1 DEF FlightOwned
    <3> QED
      BY <2>1, <3>2 DEF TypeOK, FlightOwned
  <2> QED
    BY <1>3, <2>1, <2>3, <2>4, <2>5 DEF TypeOK
<1> QED
  BY <1>5, <1>6, <1>7, <1>8, <1>9, <1>10, <1>11, <1>12, <1>13, <1>14 DEF Step


\* The operations of clients (Group.Get, Set, Delete), and the local cache
\* losing entries.
LEMMA ClientIInv ==
  ASSUME IInv, NEW c \in Clients, NEW n \in Nodes, NEW k \in Keys,
         \/ ClientGet(c, n, k) \/ ClientDelete(c, n, k)
         \/ \E v \in Values : ClientSet(c, n, k, v)
  PROVE  IInv'
<1> USE ClusterAssumption DEF IInv, ClusterInv
<1> DEFINE t == <<c, 0>>
<1>1. t \in Tasks /\ task[t] = Idle /\ UNCHANGED <<lifeVars, flight>>
  BY DEF Tasks, ClientGet, ClientDelete, ClientSet, Finished
<1>2. PICK p \in {"get", "done"} :
        task' = [task EXCEPT ![t] = Begun(p, n, k)]
  BY DEF ClientGet, ClientDelete, ClientSet, Finished, Begin
<1> DEFINE r == Begun(p, n, k)
<1>3. Legal(t, r)
  <2>2. r \in TaskRec /\ r.pc = p /\ r.node = n /\ r.key = k
    BY DEF Begun, TaskRec, PCs
  <2>3. task[t].pc = "idle"
    BY <1>1 DEF Idle
  <2> HIDE DEF r
  <2> QED
    BY <2>2, <2>3 DEF Legal, Leading, Ended
<1>4. task' \in [Tasks -> TaskRec] /\ WaitersFollow' /\ Placed'
      /\ \A u \in Tasks : task'[u].pc = "rpc" /\ task'[u].node \notin setup.alias
                            => task'[u].ref # task'[u].node
  BY <1>1, <1>2, <1>3, MoveTask
<1>5. ASSUME NEW v \in Values \cup {None} PROVE
        [cache EXCEPT ![n][k] = v] \in [Nodes -> [Keys -> Values \cup {Source, None}]]
  BY DEF TypeOK
<1>6. ASSUME NEW v \in Values \cup {None}, NEW op \in {"set", "delete"} PROVE
        /\ Sync(t, op, n, k, v) \in Syncs /\ Sync(t, op, n, k, v).to = None
        /\ Sync(t, op, n, k, v).id = t
  BY <1>1 DEF Sync, Syncs
<1>10. /\ cache' \in [Nodes -> [Keys -> Values \cup {Source, None}]]
       /\ \A s \in sync' : s \in sync \/ (s \in Syncs /\ s.to = None /\ s.id = t)
  <2>1. CASE ClientGet(c, n, k)
    BY <2>1 DEF ClientGet, TypeOK
  <2>2. CASE ClientDelete(c, n, k)
    <3>1. /\ cache' = [cache EXCEPT ![n][k] = None]
          /\ sync' = sync \cup {Sync(t, "delete", n, k, None)}
      BY <2>2 DEF ClientDelete
    <3> QED
      BY <3>1, <1>5, <1>6, ZenonT(60)
  <2>3. CASE \E v \in Values : ClientSet(c, n, k, v)
    <3>1. PICK v \in Values : ClientSet(c, n, k, v)
      BY <2>3
    <3>2. /\ cache' = [cache EXCEPT ![n][k] = v]
          /\ sync' = sync \cup {Sync(t, "set", n, k, v)}
      BY <3>1 DEF ClientSet
    <3> QED
      BY <3>2, <1>5, <1>6, ZenonT(60)
  <2> QED
    BY <2>1, <2>2, <2>3
<1>7. FlightOwned'
  <2>1. t # None /\ task[t].pc \notin Leading
    BY <1>1 DEF Idle, Leading
  <2>2. \A m \in Nodes, q \in Keys : flight[m][q] # t
    BY <2>1 DEF FlightOwned
  <2> QED
    BY <1>1, <1>2, <2>2 DEF TypeOK, FlightOwned
<1>8. TypeOK' /\ OwnRing'
  BY <1>1, <1>4, <1>10 DEF TypeOK, OwnRing
<1>9. NoSelfCall' /\ SetNotResent'
  BY <1>1, <1>4, <1>10 DEF NoSelfCall, SetNotResent, Syncs
<1> QED
  BY <1>4, <1>7, <1>8, <1>9

\* The propagation of Set and Delete (group.go:218-243, server.go:171-200).
LEMMA SyncIInv ==
  ASSUME IInv, NEW s \in sync, SyncPick(s) \/ ServeSet(s) \/ ServeDelete(s) \/ SyncFails(s)
  PROVE  IInv'
<1> USE ClusterAssumption DEF IInv, ClusterInv
<1>1. UNCHANGED <<lifeVars, flight, task>>
  BY DEF SyncPick, ServeSet, ServeDelete, SyncFails
<1>2. FlightOwned' /\ WaitersFollow' /\ Placed' /\ OwnRing'
  BY <1>1 DEF FlightOwned, WaitersFollow, Placed, OwnRing, Over
<1>3. s \in Syncs /\ (s.id[2] < setup.hops => Child(s.id) \in Tasks)
  BY DEF TypeOK, Syncs, Tasks, Child
<1>4. cache' \in [Nodes -> [Keys -> Values \cup {Source, None}]]
  <2>1. CASE SyncPick(s) \/ SyncFails(s)
    BY <2>1 DEF SyncPick, SyncFails, TypeOK
  <2>2. CASE ServeSet(s)
    <3>1. s.to \in Nodes /\ s.key \in Keys /\ s.val \in Values \cup {None}
      BY <2>2, <1>3 DEF ServeSet, Syncs
    <3> QED
      BY <2>2, <3>1 DEF ServeSet, TypeOK
  <2>3. CASE ServeDelete(s)
    <3>1. s.to \in Nodes /\ s.key \in Keys
      BY <2>3, <1>3 DEF ServeDelete, Syncs
    <3> QED
      BY <2>3, <3>1 DEF ServeDelete, TypeOK
  <2> QED
    BY <2>1, <2>2, <2>3
<1>5. \A x \in sync' \ sync : x \in Syncs /\ (x.op = "set" => x.id = s.id /\ s.op = "set")
                             /\ (x.node \notin setup.alias => x.to # x.node)
  <2>1. CASE SyncPick(s)
    <3> DEFINE p == PickPeer(s.node, s.key)
    <3>1. s.node \in Nodes /\ s.key \in Keys
      BY <1>3 DEF Syncs
    <3>2. p = None \/ (p \in Nodes /\ (s.node \notin setup.alias => p # s.node))
      BY <3>1, PickPeerOnRing DEF TypeOK, OwnRing
    <3>3. sync' = (sync \ {s}) \cup (IF p = None THEN {} ELSE {[s EXCEPT !.to = p]})
      BY <2>1 DEF SyncPick
    <3> HIDE DEF p
    <3>4. p \in Nodes => [s EXCEPT !.to = p] \in Syncs
      BY <1>3 DEF Syncs
    <3> QED
      BY <1>3, <3>2, <3>3, <3>4 DEF Syncs
  <2>2. CASE ServeDelete(s)
    BY <2>2, <1>3 DEF ServeDelete, Relay, Sync, Syncs
  <2> QED
    BY <2>1, <2>2 DEF ServeSet, SyncFails
<1>6. TypeOK'
  BY <1>1, <1>4, <1>5 DEF TypeOK
<1>7. NoSelfCall' /\ SetNotResent'
  BY <1>1, <1>5 DEF NoSelfCall, SetNotResent
<1> QED
  BY <1>2, <1>6, <1>7

\* Every step preserves the inductive invariant.
LEMMA NextIInv == IInv /\ [Next]_vars => IInv'
<1> SUFFICES ASSUME IInv, [Next]_vars PROVE IInv'
  OBVIOUS
<1>1. ASSUME NEW n \in Nodes, Clear(n) \/ \E k \in Keys : Evict(n, k) PROVE IInv'
  <2>1. cache' \in [Nodes -> [Keys -> Values \cup {Source, None}]]
        /\ UNCHANGED <<lifeVars, flight, task, sync>>
    <3>1. CASE Clear(n)
      BY <3>1 DEF IInv, ClusterInv, TypeOK, Clear
    <3>2. CASE \E k \in Keys : Evict(n, k)
      BY <3>2 DEF IInv, ClusterInv, TypeOK, Evict
    <3> QED
      BY <1>1, <3>1, <3>2
  <2>2. TypeOK' /\ FlightOwned' /\ WaitersFollow' /\ Placed'
    BY <2>1 DEF IInv, ClusterInv, TypeOK, FlightOwned, WaitersFollow, Placed, Over
  <2>3. OwnRing' /\ NoSelfCall' /\ SetNotResent'
    BY <2>1 DEF IInv, ClusterInv, OwnRing, NoSelfCall, SetNotResent
  <2> QED
    BY <2>2, <2>3 DEF IInv, ClusterInv
<1>2. CASE UNCHANGED vars
  BY <1>2 DEF vars, IInv, ClusterInv, TypeOK, FlightOwned, WaitersFollow, Placed,
              OwnRing, NoSelfCall, SetNotResent, Over
<1> QED
  BY <1>1, <1>2, MembershipIInv, CrashIInv, StepIInv, ClientIInv, SyncIInv DEF Next

\* In every cluster: the loader of each node stays consistent, a node that
\* knows its address never calls itself, and a propagated Set stops at the
\* first peer.
THEOREM ClusterSafe == Spec => [](ClusterInv /\ NoSelfCall /\ SetNotResent)
<1>1. IInv => ClusterInv /\ NoSelfCall /\ SetNotResent
  BY DEF IInv
<1> QED
  BY InitIInv, NextIInv, <1>1, PTL DEF Spec

\* In every cluster, however its members change: what a Set of a client passes on to
\* a peer the peer does not pass on again (group.go:189-233).
THEOREM SetNotResentAlways == Spec => []SetNotResent
BY ClusterSafe, PTL
-----------------------------------------------------------------------------
\* What RemoveAt leaves, position by position.
LEMMA RemoveAtIs ==
  ASSUME NEW S, NEW l \in Seq(S), NEW i \in 1 .. Len(l)
  PROVE  /\ Seqs!RemoveAt(l, i) \in Seq(S)
         /\ Len(Seqs!RemoveAt(l, i)) = Len(l) - 1
         /\ \A j \in 1 .. Len(l) - 1 : Seqs!RemoveAt(l, i)[j] = IF j < i THEN l[j] ELSE l[j + 1]
<1>0. Len(l) \in Nat /\ \A j \in 1 .. Len(l) : l[j] \in S
  BY LenProperties, ElementOfSeq
<1>1. PICK a : a = SubSeq(l, 1, i - 1)
  OBVIOUS
<1>2. PICK b : b = SubSeq(l, i + 1, Len(l))
  OBVIOUS
<1>3. a \in Seq(S) /\ Len(a) = i - 1 /\ \A j \in 1 .. i - 1 : a[j] = l[j]
  <2>1. \A j \in 1 .. i - 1 : l[j] \in S
    BY <1>0
  <2>2. /\ a \in Seq(S) /\ Len(a) = (IF 1 <= i - 1 THEN ((i - 1) - 1) + 1 ELSE 0)
        /\ \A j \in 1 .. ((i - 1) - 1) + 1 : a[j] = l[(1 + j) - 1]
    BY <1>0, <1>1, <2>1, SubSeqProperties
  <2> QED
    BY <1>0, <2>2
<1>4. b \in Seq(S) /\ Len(b) = Len(l) - i /\ \A j \in 1 .. Len(l) - i : b[j] = l[i + j]
  <2>1. \A j \in i + 1 .. Len(l) : l[j] \in S
    BY <1>0
  <2>2. /\ b \in Seq(S) /\ Len(b) = (IF i + 1 <= Len(l) THEN (Len(l) - (i + 1)) + 1 ELSE 0)
        /\ \A j \in 1 .. (Len(l) - (i + 1)) + 1 : b[j] = l[((i + 1) + j) - 1]
    <3>1. PICK c \in Int, n \in Int : c = i + 1 /\ n = Len(l)
      BY <1>0
    <3>2. \A j \in c .. n : l[j] \in S
      BY <2>1, <3>1
    <3>3. /\ SubSeq(l, c, n) \in Seq(S) /\ Len(SubSeq(l, c, n)) = (IF c <= n THEN (n - c) + 1 ELSE 0)
          /\ \A j \in 1 .. (n - c) + 1 : SubSeq(l, c, n)[j] = l[(c + j) - 1]
      BY <3>2, SubSeqProperties
    <3> QED
      BY <1>2, <3>1, <3>3
  <2>3. Len(b) = Len(l) - i
    BY <1>0, <2>2
  <2>4. ASSUME NEW j \in 1 .. Len(l) - i PROVE b[j] = l[i + j]
    <3>1. j \in 1 .. (Len(l) - (i + 1)) + 1 /\ ((i + 1) + j) - 1 = i + j
      BY <1>0
    <3> QED
      BY <2>2, <3>1
  <2> QED
    BY <2>2, <2>3, <2>4
<1>5. /\ a \o b \in Seq(S) /\ Len(a \o b) = Len(a) + Len(b)
      /\ \A j \in 1 .. Len(a) + Len(b) : (a \o b)[j] = IF j <= Len(a) THEN a[j] ELSE b[j - Len(a)]
  BY <1>3, <1>4, ConcatProperties
<1>6. Seqs!RemoveAt(l, i) = a \o b
  BY <1>1, <1>2 DEF Seqs!RemoveAt
<1>7. ASSUME NEW j \in 1 .. Len(l) - 1 PROVE (a \o b)[j] = IF j < i THEN l[j] ELSE l[j + 1]
  <2>1. j \in 1 .. Len(a) + Len(b)
    BY <1>0, <1>3, <1>4
  <2>2. CASE j < i
    BY <1>0, <1>3, <1>5, <2>1, <2>2
  <2>3. CASE ~(j < i)
    <3>1. j - (i - 1) \in 1 .. Len(l) - i /\ i + (j - (i - 1)) = j + 1 /\ ~(j <= i - 1)
      BY <1>0, <2>3
    <3>2. (a \o b)[j] = b[j - (i - 1)]
      BY <1>3, <1>5, <2>1, <3>1
    <3>3. b[j - (i - 1)] = l[j + 1]
      BY <1>4, <3>1
    <3> QED
      BY <2>3, <3>2, <3>3
  <2> QED
    BY <2>2, <2>3
<1>8. Len(a \o b) = Len(l) - 1
  BY <1>0, <1>3, <1>4, <1>5
<1> QED
  BY <1>5, <1>6, <1>7, <1>8

\* The first of the places where a sequence has a number.
LEMMA RemoveFirstIs ==
  ASSUME NEW s \in Seq(Nat), NEW e, NEW a \in 1 .. Len(s), s[a] = e
  PROVE  \E i \in 1 .. Len(s) : s[i] = e /\ Seqs!RemoveFirst(s, e) = Seqs!RemoveAt(s, i)
<1> DEFINE I == {i \in 1 .. Len(s) : s[i] = e}
<1>1. I # {} /\ I \subseteq Nat
  OBVIOUS
<1>2. Min(I) \in I
  BY <1>1, LeastIs
<1>3. Seqs!RemoveFirst(s, e) = Seqs!RemoveAt(s, Seqs!SelectInSeq(s, LAMBDA v : v = e))
  BY DEF Seqs!RemoveFirst
<1>4. Seqs!SelectInSeq(s, LAMBDA v : v = e) = Min(I)
  BY <1>1 DEF Seqs!SelectInSeq, Seqs!Min, Min
<1> QED
  BY <1>2, <1>3, <1>4
-----------------------------------------------------------------------------
\* The places of the list and the virtual nodes V, each at a place of its own.
Virtual(n) == {n} \X (1 .. DefaultReplicas)
HashOf(v) == Hash[v[1]][v[2]]
Places(s, V, f) ==
  /\ f \in [1 .. Len(s) -> V]
  /\ \A i, j \in 1 .. Len(s) : f[i] = f[j] => i = j
  /\ \A v \in V : \E j \in 1 .. Len(s) : f[j] = v
  /\ \A j \in 1 .. Len(s) : s[j] = HashOf(f[j])
Ascending(s) == \A i, j \in 1 .. Len(s) : i < j => s[i] <= s[j]
Holds(s, V) == s \in Seq(Nat) /\ \E f : Places(s, V, f)

\* Equal hashes may change places.
LEMMA Swapped ==
  ASSUME NEW s \in Seq(Nat), NEW V, NEW f, Places(s, V, f), NEW v \in V,
         NEW i \in 1 .. Len(s), s[i] = HashOf(v)
  PROVE  \E g : Places(s, V, g) /\ g[i] = v
<1> USE DEF Places
<1>1. PICK a \in 1 .. Len(s) : f[a] = v
  OBVIOUS
<1> DEFINE g == [j \in 1 .. Len(s) |-> IF j = i THEN v ELSE IF j = a THEN f[i] ELSE f[j]]
<1>2. g \in [1 .. Len(s) -> V] /\ g[i] = v
  OBVIOUS
<1>3. \A j, k \in 1 .. Len(s) : g[j] = g[k] => j = k
  BY <1>1
<1>4. ASSUME NEW w \in V PROVE \E j \in 1 .. Len(s) : g[j] = w
  <2>1. PICK j \in 1 .. Len(s) : f[j] = w
    OBVIOUS
  <2>2. CASE j = i
    <3>1. g[a] = w
      BY <1>1, <2>1, <2>2
    <3> QED
      BY <3>1
  <2>3. CASE j = a
    <3>1. g[i] = w
      BY <1>1, <2>1, <2>3
    <3> QED
      BY <3>1
  <2>4. CASE j # a /\ j # i
    <3>1. g[j] = w
      BY <1>1, <2>1, <2>4
    <3> QED
      BY <3>1
  <2> QED
    BY <2>2, <2>3, <2>4
<1>5. \A j \in 1 .. Len(s) : s[j] = HashOf(g[j])
  BY <1>1
<1> HIDE DEF g
<1> QED
  BY <1>2, <1>3, <1>4, <1>5

\* One place less, one virtual node less.
LEMMA PlaceDropped ==
  ASSUME NEW s \in Seq(Nat), NEW V, NEW g, Places(s, V, g), NEW i \in 1 .. Len(s),
         NEW t \in Seq(Nat), Len(t) = Len(s) - 1,
         \A j \in 1 .. Len(s) - 1 : t[j] = IF j < i THEN s[j] ELSE s[j + 1]
  PROVE  \E h : Places(t, V \ {g[i]}, h)
<1>0. PICK n \in Nat : n = Len(s)
  BY LenProperties
<1>a. Len(t) = n - 1 /\ i \in 1 .. n
  BY <1>0
<1>b. /\ g \in [1 .. n -> V]
      /\ \A j, k \in 1 .. n : g[j] = g[k] => j = k
      /\ \A v \in V : \E j \in 1 .. n : g[j] = v
      /\ \A j \in 1 .. n : s[j] = HashOf(g[j])
  BY <1>0 DEF Places
<1>c. \A j \in 1 .. n - 1 : t[j] = IF j < i THEN s[j] ELSE s[j + 1]
  BY <1>0
<1> DEFINE o(j) == IF j < i THEN j ELSE j + 1
           h == [j \in 1 .. n - 1 |-> g[o(j)]]
<1>1. \A j \in 1 .. n - 1 : o(j) \in 1 .. n /\ o(j) # i
  BY <1>a
<1>2. ASSUME NEW j \in 1 .. n - 1, NEW k \in 1 .. n - 1, o(j) = o(k) PROVE j = k
  <2>1. j \in Int /\ k \in Int /\ i \in Int
    BY <1>a
  <2> QED
    BY <1>2, <2>1
<1>3. ASSUME NEW j \in 1 .. n, j # i PROVE \E k \in 1 .. n - 1 : o(k) = j
  <2>1. CASE j < i
    <3>1. j \in 1 .. n - 1 /\ o(j) = j
      BY <1>a, <2>1
    <3> QED
      BY <3>1
  <2>2. CASE ~(j < i)
    <3>1. j - 1 \in 1 .. n - 1 /\ o(j - 1) = j
      BY <1>a, <1>3, <2>2
    <3> QED
      BY <3>1
  <2> QED
    BY <2>1, <2>2
<1>4. \A j \in 1 .. n - 1 : t[j] = s[o(j)]
  BY <1>c
<1> HIDE DEF o
<1>5. h \in [1 .. n - 1 -> V \ {g[i]}]
  BY <1>a, <1>b, <1>1
<1>6. \A j, k \in 1 .. n - 1 : h[j] = h[k] => j = k
  BY <1>b, <1>1, <1>2
<1>7. ASSUME NEW v \in V \ {g[i]} PROVE \E k \in 1 .. n - 1 : h[k] = v
  <2>1. PICK j \in 1 .. n : g[j] = v
    BY <1>b
  <2>2. PICK k \in 1 .. n - 1 : o(k) = j
    BY <1>3, <2>1
  <2> QED
    BY <2>1, <2>2
<1>8. \A j \in 1 .. n - 1 : t[j] = HashOf(h[j])
  BY <1>b, <1>1, <1>4
<1> HIDE DEF h
<1>9. Places(t, V \ {g[i]}, h)
  BY <1>a, <1>5, <1>6, <1>7, <1>8 DEF Places
<1> QED
  BY <1>9

\* The inner loop of Remove (consistent_hash.go:99-104) takes one virtual node off the
\* list, which stays ascending: of equal hashes any one is as good.
LEMMA OneLess ==
  ASSUME NEW s, NEW V, Holds(s, V), Ascending(s), NEW v \in V
  PROVE  Holds(Seqs!RemoveFirst(s, HashOf(v)), V \ {v}) /\ Ascending(Seqs!RemoveFirst(s, HashOf(v)))
<1>1. s \in Seq(Nat) /\ Len(s) \in Nat
  BY LenProperties DEF Holds
<1>2. PICK f : Places(s, V, f)
  BY DEF Holds
<1>3. PICK a \in 1 .. Len(s) : s[a] = HashOf(v)
  BY <1>2 DEF Places
<1>4. PICK i \in 1 .. Len(s) : s[i] = HashOf(v) /\ Seqs!RemoveFirst(s, HashOf(v)) = Seqs!RemoveAt(s, i)
  BY <1>1, <1>3, RemoveFirstIs
<1>5. PICK t : t = Seqs!RemoveAt(s, i)
  OBVIOUS
<1>6. t \in Seq(Nat) /\ Len(t) = Len(s) - 1 /\ \A j \in 1 .. Len(s) - 1 : t[j] = IF j < i THEN s[j] ELSE s[j + 1]
  BY <1>1, <1>5, RemoveAtIs
<1>7. PICK g : Places(s, V, g) /\ g[i] = v
  BY <1>1, <1>2, <1>4, Swapped
<1>8. \E h : Places(t, V \ {g[i]}, h)
  BY <1>1, <1>6, <1>7, PlaceDropped
<1>9. Holds(t, V \ {v})
  BY <1>6, <1>7, <1>8 DEF Holds
<1>10. Ascending(t)
  <2>1. PICK n \in Nat : n = Len(s)
    BY <1>1
  <2>2. \A j, k \in 1 .. n : j < k => s[j] <= s[k]
    BY <2>1 DEF Ascending
  <2>3. i \in 1 .. n /\ \A j \in 1 .. n - 1 : t[j] = IF j < i THEN s[j] ELSE s[j + 1]
    BY <1>6, <2>1
  <2>4. ASSUME NEW j \in 1 .. n - 1, NEW k \in 1 .. n - 1, j < k PROVE t[j] <= t[k]
    BY <2>2, <2>3, <2>4
  <2> QED
    BY <1>6, <2>1, <2>4 DEF Ascending
<1> QED
  BY <1>4, <1>5, <1>9, <1>10
-----------------------------------------------------------------------------
\* The lists the outer loop of Remove (consistent_hash.go:94-105) goes through.
LeftTable(n, k, f) == f = [i \in 0 .. k |-> IF i = 0 THEN keys ELSE Seqs!RemoveFirst(f[i - 1], Hash[n][i])]

\* There is such a table, of any length.
LEMMA LeftTableExists ==
  ASSUME NEW n, NEW k \in Nat
  PROVE  \E f : LeftTable(n, k, f)
<1> DEFINE Bad == {i \in Nat : ~\E f : LeftTable(n, i, f)}
           R == OpToRel(<, Nat)
<1>1. \A x, y \in Nat : y < x => <<y, x>> \in R
  BY DEF OpToRel
<1>2. IsWellFoundedOn(R, Nat)
  BY NatLessThanWellFounded
<1> HIDE DEF R
<1>3. ASSUME Bad # {} PROVE FALSE
  <2>1. PICK w \in Bad : \A y \in Bad : ~(<<y, w>> \in R)
    BY <1>2, <1>3, WFMin
  <2>2. w \in Nat /\ ~\E f : LeftTable(n, w, f)
    OBVIOUS
  <2>3. CASE w = 0
    <3> DEFINE f == [i \in 0 .. 0 |-> keys]
    <3>1. \A i \in 0 .. 0 : i = 0
      OBVIOUS
    <3>2. [i \in 0 .. 0 |-> IF i = 0 THEN keys ELSE Seqs!RemoveFirst(f[i - 1], Hash[n][i])] = f
      BY <3>1
    <3>3. LeftTable(n, 0, f)
      BY <3>2, Zenon DEF LeftTable
    <3> QED
      BY <2>2, <2>3, <3>3
  <2>4. CASE w # 0
    <3>1. w - 1 \in Nat /\ w - 1 < w
      BY <2>2, <2>4
    <3>2. PICK g : LeftTable(n, w - 1, g)
      <4>1. w - 1 \notin Bad
        BY <2>1, <2>2, <3>1, <1>1
      <4> QED
        BY <3>1, <4>1
    <3> DEFINE f == [i \in 0 .. w |-> IF i = w THEN Seqs!RemoveFirst(g[w - 1], Hash[n][w]) ELSE g[i]]
               h == [i \in 0 .. w |-> IF i = 0 THEN keys ELSE Seqs!RemoveFirst(f[i - 1], Hash[n][i])]
    <3>3. \A i \in 0 .. w - 1 : g[i] = IF i = 0 THEN keys ELSE Seqs!RemoveFirst(g[i - 1], Hash[n][i])
      BY <3>2 DEF LeftTable
    <3>4. ASSUME NEW i \in 0 .. w PROVE f[i] = IF i = 0 THEN keys ELSE Seqs!RemoveFirst(f[i - 1], Hash[n][i])
      <4>1. CASE i = w
        <5>1. w \in 0 .. w /\ w - 1 \in 0 .. w /\ w - 1 # w
          BY <3>1
        <5>2. f[w - 1] = g[w - 1] /\ f[w] = Seqs!RemoveFirst(g[w - 1], Hash[n][w])
          BY <5>1
        <5> HIDE DEF f
        <5> QED
          BY <4>1, <5>2, <2>4
      <4>2. CASE i = 0
        <5>1. 0 \in 0 .. w /\ 0 # w /\ 0 \in 0 .. w - 1
          BY <3>1, <2>4
        <5>2. f[0] = g[0] /\ g[0] = keys
          BY <5>1, <3>3
        <5> HIDE DEF f
        <5> QED
          BY <4>2, <5>2
      <4>3. CASE i # w /\ i # 0
        <5>1. i \in 0 .. w /\ i \in 0 .. w - 1 /\ i - 1 \in 0 .. w /\ i - 1 # w
          BY <4>3, <2>2
        <5>2. f[i] = g[i] /\ f[i - 1] = g[i - 1]
          BY <4>3, <5>1
        <5>3. g[i] = IF i = 0 THEN keys ELSE Seqs!RemoveFirst(g[i - 1], Hash[n][i])
          BY <3>3, <5>1
        <5> HIDE DEF f
        <5> QED
          BY <5>2, <5>3
      <4> QED
        BY <4>1, <4>2, <4>3
    <3>5. f = h
      <4>1. DOMAIN f = 0 .. w /\ DOMAIN h = 0 .. w /\ \A i \in 0 .. w : f[i] = h[i]
        BY <3>4
      <4>2. f = [i \in 0 .. w |-> f[i]] /\ h = [i \in 0 .. w |-> h[i]]
        OBVIOUS
      <4> HIDE DEF f, h
      <4> QED
        BY <4>1, <4>2
    <3>6. LeftTable(n, w, f)
      BY <3>5, Zenon DEF LeftTable
    <3> QED
      BY <2>2, <3>6
  <2> QED
    BY <2>3, <2>4
<1> QED
  BY <1>3

\* Remove takes all the virtual nodes of a node off the list, and no others.
LEMMA WithoutIs ==
  ASSUME NEW V, Holds(keys, V), Ascending(keys), NEW n, NEW k \in Nat, {n} \X (1 .. k) \subseteq V
  PROVE  Holds(Without(n, k), V \ ({n} \X (1 .. k))) /\ Ascending(Without(n, k))
<1> DEFINE D == CHOOSE f : LeftTable(n, k, f)
           Rest(i) == V \ ({n} \X (1 .. i))
           Good(i) == Holds(D[i], Rest(i)) /\ Ascending(D[i])
           Bad == {i \in Nat : i \in 0 .. k /\ ~Good(i)}
           R == OpToRel(<, Nat)
<1>1. LeftTable(n, k, D)
  BY LeftTableExists
<1>2. Without(n, k) = D[k]
  BY DEF Without, LeftTable
<1> HIDE DEF D
<1>3. D[0] = keys /\ \A i \in 1 .. k : D[i] = Seqs!RemoveFirst(D[i - 1], Hash[n][i])
  BY <1>1 DEF LeftTable
<1>4. \A x, y \in Nat : y < x => <<y, x>> \in R
  BY DEF OpToRel
<1>5. IsWellFoundedOn(R, Nat)
  BY NatLessThanWellFounded
<1> HIDE DEF R
<1>6. Good(0)
  <2>1. Rest(0) = V
    OBVIOUS
  <2> HIDE DEF Rest
  <2> QED
    BY <1>3, <2>1
<1>7. ASSUME NEW i \in 1 .. k, Good(i - 1) PROVE Good(i)
  <2>1. <<n, i>> \in V /\ HashOf(<<n, i>>) = Hash[n][i]
    BY DEF HashOf
  <2>2. <<n, i>> \in Rest(i - 1)
    BY <2>1
  <2>3. Rest(i) = Rest(i - 1) \ {<<n, i>>}
    <3>1. 1 .. i = (1 .. i - 1) \cup {i}
      OBVIOUS
    <3>2. {n} \X (1 .. i) = ({n} \X (1 .. i - 1)) \cup {<<n, i>>}
      BY <3>1
    <3>3. PICK A, B, z : A = {n} \X (1 .. i) /\ B = {n} \X (1 .. i - 1) /\ z = <<n, i>>
      OBVIOUS
    <3>4. V \ A = (V \ B) \ {z}
      BY <3>2, <3>3
    <3> QED
      BY <3>3, <3>4
  <2>4. D[i] = Seqs!RemoveFirst(D[i - 1], Hash[n][i])
    BY <1>3
  <2> HIDE DEF Rest
  <2>5. PICK s, W, v : v \in W /\ s = D[i - 1] /\ W = Rest(i - 1) /\ v = <<n, i>>
    BY <2>2
  <2>6. Holds(s, W) /\ Ascending(s)
    BY <1>7, <2>5
  <2>7. Holds(Seqs!RemoveFirst(s, HashOf(v)), W \ {v}) /\ Ascending(Seqs!RemoveFirst(s, HashOf(v)))
    BY <2>5, <2>6, OneLess
  <2> QED
    BY <2>1, <2>3, <2>4, <2>5, <2>7
<1> HIDE DEF Good
<1>8. ASSUME Bad # {} PROVE FALSE
  <2>1. PICK i \in Bad : \A y \in Bad : ~(<<y, i>> \in R)
    BY <1>5, <1>8, WFMin
  <2>2. i \in Nat /\ i \in 0 .. k /\ ~Good(i)
    OBVIOUS
  <2>3. i # 0
    BY <1>6, <2>2
  <2>4. i \in 1 .. k /\ i - 1 \in Nat /\ i - 1 \in 0 .. k /\ i - 1 < i
    BY <2>2, <2>3
  <2>5. Good(i - 1)
    BY <1>4, <2>1, <2>2, <2>4
  <2> QED
    BY <1>7, <2>2, <2>4, <2>5
<1>9. Good(k)
  <2>1. k \in 0 .. k /\ k \in Nat
    OBVIOUS
  <2> QED
    BY <1>8, <2>1
<1> QED
  BY <1>2, <1>9 DEF Good
-----------------------------------------------------------------------------
\* Places 1 .. n of s, in ascending order.
Sorts(p, s, n) ==
  /\ p \in [1 .. n -> 1 .. n]
  /\ \A i, j \in 1 .. n : p[i] = p[j] => i = j
  /\ \A i, j \in 1 .. n : i < j => s[p[i]] <= s[p[j]]

\* One more place finds its place in the order.
LEMMA Inserted ==
  ASSUME NEW s, NEW n \in Nat, n # 0, \A j \in 1 .. n : s[j] \in Nat, NEW p, Sorts(p, s, n - 1)
  PROVE  \E q : Sorts(q, s, n)
<1> DEFINE Later == {j \in 1 .. n : j = n \/ s[p[j]] > s[n]}
<1>1. n \in Later /\ Later \subseteq Nat
  OBVIOUS
<1>2. PICK a \in Later : \A j \in Later : a <= j
  BY <1>1, LeastExists
<1>3. a \in 1 .. n /\ (a = n \/ s[p[a]] > s[n])
  OBVIOUS
<1>4. /\ p \in [1 .. n - 1 -> 1 .. n - 1]
      /\ \A i, j \in 1 .. n - 1 : p[i] = p[j] => i = j
      /\ \A i, j \in 1 .. n - 1 : i < j => s[p[i]] <= s[p[j]]
  BY DEF Sorts
<1>5. ASSUME NEW j \in 1 .. n - 1, j < a PROVE s[p[j]] <= s[n]
  <2>1. j \in 1 .. n /\ j # n /\ a \in Int
    BY <1>3
  <2>2. j \notin Later
    BY <1>2, <1>5, <2>1
  <2>3. p[j] \in 1 .. n
    BY <1>4
  <2>4. s[p[j]] \in Nat /\ s[n] \in Nat
    BY <2>3
  <2> QED
    BY <2>1, <2>2, <2>4
<1>6. ASSUME NEW j \in 1 .. n - 1, a <= j PROVE s[n] <= s[p[j]]
  <2>1. a \in 1 .. n - 1 /\ a # n
    BY <1>3, <1>6
  <2>2. s[p[a]] > s[n]
    BY <1>3, <2>1
  <2>3. s[p[a]] <= s[p[j]]
    <3>0. p[a] \in 1 .. n
      BY <1>4, <2>1
    <3>1. CASE a = j
      BY <3>0, <3>1
    <3>2. CASE a # j
      <4>1. a < j
        BY <1>6, <2>1, <3>2
      <4> QED
        BY <1>4, <2>1, <4>1
    <3> QED
      BY <3>1, <3>2
  <2>4. p[a] \in 1 .. n /\ p[j] \in 1 .. n /\ n \in 1 .. n
    <3>1. p[a] \in 1 .. n - 1 /\ p[j] \in 1 .. n - 1
      BY <1>4, <2>1
    <3> QED
      BY <3>1
  <2>5. s[p[a]] \in Nat /\ s[p[j]] \in Nat /\ s[n] \in Nat
    BY <2>4
  <2>6. \A x, y, z \in Nat : x > z /\ x <= y => z <= y
    OBVIOUS
  <2> QED
    BY <2>2, <2>3, <2>5, <2>6, Zenon
<1> HIDE DEF Later
<1> DEFINE q == [j \in 1 .. n |-> IF j < a THEN p[j] ELSE IF j = a THEN n ELSE p[j - 1]]
<1>7. ASSUME NEW j \in 1 .. n
      PROVE  /\ j < a => j \in 1 .. n - 1 /\ q[j] = p[j]
             /\ j = a => q[j] = n
             /\ j > a => j - 1 \in 1 .. n - 1 /\ a <= j - 1 /\ q[j] = p[j - 1]
             /\ j < a \/ j = a \/ j > a
  BY <1>3
<1> HIDE DEF q
<1>8. ASSUME NEW j \in 1 .. n PROVE q[j] \in 1 .. n /\ (j # a => q[j] \in 1 .. n - 1)
  <2>1. CASE j < a
    <3>1. p[j] \in 1 .. n - 1
      BY <1>4, <1>7, <2>1
    <3> QED
      BY <1>7, <2>1, <3>1
  <2>2. CASE j = a
    BY <1>7, <2>2
  <2>3. CASE j > a
    <3>1. p[j - 1] \in 1 .. n - 1
      BY <1>4, <1>7, <2>3
    <3> QED
      BY <1>7, <2>3, <3>1
  <2> QED
    BY <1>7, <2>1, <2>2, <2>3
<1>9. q \in [1 .. n -> 1 .. n]
  BY <1>8 DEF q
<1>10. ASSUME NEW i \in 1 .. n, NEW j \in 1 .. n, i < j PROVE q[i] # q[j] /\ s[q[i]] <= s[q[j]]
  <2>0. i \in Int /\ j \in Int /\ a \in Int
    BY <1>3
  <2>1. CASE j < a
    <3>1. i < a
      BY <1>10, <2>0, <2>1
    <3>2. i \in 1 .. n - 1 /\ j \in 1 .. n - 1 /\ q[i] = p[i] /\ q[j] = p[j]
      BY <1>7, <2>1, <3>1
    <3> QED
      BY <1>4, <1>10, <2>0, <3>2
  <2>2. CASE j = a
    <3>1. i < a /\ i # a
      BY <1>10, <2>0, <2>2
    <3>2. i \in 1 .. n - 1 /\ q[i] = p[i] /\ q[j] = n
      BY <1>7, <2>2, <3>1
    <3>3. q[i] \in 1 .. n - 1
      BY <1>8, <3>1
    <3>4. q[i] # n
      BY <3>3
    <3> QED
      BY <1>5, <3>1, <3>2, <3>4
  <2>3. CASE j > a /\ i = a
    <3>1. j - 1 \in 1 .. n - 1 /\ a <= j - 1 /\ q[j] = p[j - 1] /\ q[i] = n
      BY <1>7, <2>3
    <3>2. j # a
      BY <2>0, <2>3
    <3>3. q[j] \in 1 .. n - 1
      BY <1>8, <3>2
    <3>4. q[j] # n
      BY <3>3
    <3> QED
      BY <1>6, <3>1, <3>4
  <2>4. CASE j > a /\ i > a
    <3>1. /\ j - 1 \in 1 .. n - 1 /\ q[j] = p[j - 1]
          /\ i - 1 \in 1 .. n - 1 /\ q[i] = p[i - 1] /\ i - 1 < j - 1 /\ i - 1 # j - 1
      BY <1>7, <1>10, <2>0, <2>4
    <3> QED
      BY <1>4, <3>1
  <2>5. CASE j > a /\ i < a
    <3>1. /\ j - 1 \in 1 .. n - 1 /\ q[j] = p[j - 1] /\ i \in 1 .. n - 1 /\ q[i] = p[i]
          /\ i < j - 1 /\ i # j - 1
      BY <1>7, <2>0, <2>5
    <3> QED
      BY <1>4, <3>1
  <2> QED
    BY <2>0, <2>1, <2>2, <2>3, <2>4, <2>5
<1>11. ASSUME NEW i \in 1 .. n, NEW j \in 1 .. n, q[i] = q[j] PROVE i = j
  <2>1. i < j \/ j < i \/ i = j
    OBVIOUS
  <2> QED
    BY <1>10, <1>11, <2>1
<1>12. Sorts(q, s, n)
  BY <1>9, <1>10, <1>11 DEF Sorts
<1> QED
  BY <1>12

\* Every list of hashes can be put in order.
LEMMA OrderingExists ==
  ASSUME NEW s \in Seq(Nat)
  PROVE  \E p : IsOrdering(p, s)
<1> DEFINE k == Len(s)
           Bad == {n \in Nat : n \in 0 .. k /\ ~\E p : Sorts(p, s, n)}
           R == OpToRel(<, Nat)
<1>1. k \in Nat /\ \A j \in 1 .. k : s[j] \in Nat
  BY LenProperties, ElementOfSeq
<1>2. \A x, y \in Nat : y < x => <<y, x>> \in R
  BY DEF OpToRel
<1>3. IsWellFoundedOn(R, Nat)
  BY NatLessThanWellFounded
<1> HIDE DEF R
<1>4. \E p : Sorts(p, s, 0)
  <2>1. Sorts([i \in 1 .. 0 |-> i], s, 0)
    BY DEF Sorts
  <2> QED
    BY <2>1
<1>5. ASSUME Bad # {} PROVE FALSE
  <2>1. PICK n \in Bad : \A y \in Bad : ~(<<y, n>> \in R)
    BY <1>3, <1>5, WFMin
  <2>2. n \in Nat /\ n \in 0 .. k /\ ~\E p : Sorts(p, s, n)
    OBVIOUS
  <2>3. n # 0
    BY <1>4, <2>2
  <2>4. n - 1 \in Nat /\ n - 1 \in 0 .. k /\ n - 1 < n /\ \A j \in 1 .. n : j \in 1 .. k
    BY <1>1, <2>2, <2>3
  <2>5. PICK p : Sorts(p, s, n - 1)
    BY <1>2, <2>1, <2>2, <2>4
  <2>6. \A j \in 1 .. n : s[j] \in Nat
    BY <1>1, <2>4
  <2>7. \E q : Sorts(q, s, n)
    BY <2>2, <2>3, <2>5, <2>6, Inserted
  <2> QED
    BY <2>2, <2>7
<1>6. k \in 0 .. k
  BY <1>1
<1>7. PICK p : Sorts(p, s, k)
  BY <1>1, <1>5, <1>6
<1>8. IsOrdering(p, s)
  BY <1>7 DEF Sorts, IsOrdering
<1> QED
  BY <1>8

\* An order of n places leaves none out.
LEMMA OrderingOnto ==
  ASSUME NEW n \in Nat, NEW p \in [1 .. n -> 1 .. n], \A i, j \in 1 .. n : p[i] = p[j] => i = j
  PROVE  \A j \in 1 .. n : \E i \in 1 .. n : p[i] = j
<1>1. PICK S : S = 1 .. n
  OBVIOUS
<1>2. IsFiniteSet(S)
  BY <1>1, FS_Interval
<1>3. p \in Injection(S, S)
  BY <1>1 DEF Injection, IsInjective
<1>4. p \in Surjection(S, S)
  BY <1>2, <1>3, FS_Injection
<1> QED
  BY <1>1, <1>4 DEF Surjection

\* sort.Ints leaves every virtual node its place, and the list ascending.
LEMMA SortedIs ==
  ASSUME NEW s, NEW V, Holds(s, V)
  PROVE  Holds(SortInts(s), V) /\ Ascending(SortInts(s))
<1>1. s \in Seq(Nat)
  BY DEF Holds
<1>2. PICK f : Places(s, V, f)
  BY DEF Holds
<1>3. PICK n \in Nat : n = Len(s)
  BY <1>1, LenProperties
<1>0. \A j \in 1 .. n : s[j] \in Nat
  BY <1>1, <1>3, ElementOfSeq
<1> DEFINE p == CHOOSE p \in [1 .. Len(s) -> 1 .. Len(s)] : IsOrdering(p, s)
<1>4. IsOrdering(p, s)
  <2>1. \E q \in [1 .. Len(s) -> 1 .. Len(s)] : IsOrdering(q, s)
    BY <1>1, OrderingExists DEF IsOrdering
  <2> QED
    BY <2>1
<1>5. SortInts(s) = [i \in 1 .. n |-> s[p[i]]]
  BY <1>3 DEF SortInts
<1> HIDE DEF p
<1>6. /\ p \in [1 .. n -> 1 .. n]
      /\ \A i, j \in 1 .. n : p[i] = p[j] => i = j
      /\ \A i, j \in 1 .. n : i < j => s[p[i]] <= s[p[j]]
  BY <1>3, <1>4 DEF IsOrdering
<1>7. \A j \in 1 .. n : \E i \in 1 .. n : p[i] = j
  BY <1>6, OrderingOnto
<1>8. PICK t : t = SortInts(s)
  OBVIOUS
<1>9. t = [i \in 1 .. n |-> s[p[i]]] /\ t \in [1 .. n -> Nat]
  BY <1>0, <1>5, <1>6, <1>8
<1>10. t \in Seq(Nat) /\ Len(t) = n
  BY <1>9
<1>11. \A i \in 1 .. n : t[i] = s[p[i]] /\ p[i] \in 1 .. n
  BY <1>6, <1>9
<1>12. Ascending(t)
  <2>1. ASSUME NEW i \in 1 .. n, NEW j \in 1 .. n, i < j PROVE t[i] <= t[j]
    <3>1. s[p[i]] <= s[p[j]]
      BY <1>6, <2>1
    <3>2. t[i] = s[p[i]] /\ t[j] = s[p[j]]
      BY <1>11
    <3> QED
      BY <3>1, <3>2
  <2> QED
    BY <1>10, <2>1 DEF Ascending
<1> DEFINE g == [i \in 1 .. n |-> f[p[i]]]
<1>13. /\ f \in [1 .. n -> V]
       /\ \A i, j \in 1 .. n : f[i] = f[j] => i = j
       /\ \A v \in V : \E j \in 1 .. n : f[j] = v
       /\ \A j \in 1 .. n : s[j] = HashOf(f[j])
  BY <1>2, <1>3 DEF Places
<1>a. g \in [1 .. n -> V] /\ \A i, j \in 1 .. n : g[i] = g[j] => i = j
  <2>1. \A i \in 1 .. n : g[i] = f[p[i]] /\ p[i] \in 1 .. n
    BY <1>6
  <2>2. g \in [1 .. n -> V]
    BY <1>13, <2>1
  <2> HIDE DEF g
  <2> QED
    BY <1>6, <1>13, <2>1, <2>2
<1>15. ASSUME NEW v \in V PROVE \E j \in 1 .. n : g[j] = v
  <2>1. PICK j \in 1 .. n : f[j] = v
    BY <1>13
  <2>2. PICK i \in 1 .. n : p[i] = j
    BY <1>7
  <2> QED
    BY <2>1, <2>2
<1>16. \A j \in 1 .. n : t[j] = HashOf(g[j])
  BY <1>11, <1>13
<1> HIDE DEF g
<1>17. Places(t, V, g)
  BY <1>10, <1>a, <1>15, <1>16 DEF Places
<1> QED
  BY <1>8, <1>10, <1>12, <1>17 DEF Holds

\* Add (consistent_hash.go:66-73) gives each virtual node of the node a place at the end.
LEMMA AppendedHolds ==
  ASSUME NEW V, Holds(keys, V), NEW n \in Members, \A v \in V : v \notin Virtual(n)
  PROVE  Holds(keys \o Hash[n], V \cup Virtual(n))
<1>1. PICK f : Places(keys, V, f)
  BY DEF Holds
<1>2. PICK m \in Nat : m = Len(keys)
  BY LenProperties DEF Holds
<1>3. PICK r \in Nat : r = DefaultReplicas
  BY RingAssumption
<1>4. PICK h : h = Hash[n]
  OBVIOUS
<1>5. h \in [1 .. r -> Nat]
  BY <1>3, <1>4, RingAssumption
<1>6. h \in Seq(Nat) /\ Len(h) = r
  BY <1>5
<1>7. PICK s : s = keys \o h
  OBVIOUS
<1>8. /\ s \in Seq(Nat) /\ Len(s) = m + r
      /\ \A j \in 1 .. m + r : s[j] = IF j <= m THEN keys[j] ELSE h[j - m]
  BY <1>2, <1>6, <1>7, ConcatProperties DEF Holds
<1>9. /\ f \in [1 .. m -> V]
      /\ \A i, j \in 1 .. m : f[i] = f[j] => i = j
      /\ \A v \in V : \E j \in 1 .. m : f[j] = v
      /\ \A j \in 1 .. m : keys[j] = HashOf(f[j])
  BY <1>1, <1>2 DEF Places
<1> DEFINE W == V \cup Virtual(n)
           g == [j \in 1 .. m + r |-> IF j <= m THEN f[j] ELSE <<n, j - m>>]
<1>10. ASSUME NEW j \in 1 .. m + r
       PROVE  \/ j <= m /\ j \in 1 .. m /\ g[j] = f[j]
              \/ ~(j <= m) /\ j - m \in 1 .. r /\ g[j] = <<n, j - m>>
  OBVIOUS
<1> HIDE DEF g
<1>11. \A i \in 1 .. r : <<n, i>> \in Virtual(n)
  BY <1>3 DEF Virtual
<1>12. g \in [1 .. m + r -> W]
  <2>1. ASSUME NEW j \in 1 .. m + r PROVE g[j] \in W
    <3>1. j \in 1 .. m => f[j] \in V
      BY <1>9
    <3> QED
      BY <1>10, <1>11, <3>1
  <2> QED
    BY <2>1 DEF g
<1>13. ASSUME NEW i \in 1 .. m + r, NEW j \in 1 .. m + r, g[i] = g[j] PROVE i = j
  <2>1. CASE i <= m /\ j <= m
    BY <1>9, <1>10, <1>13, <2>1
  <2>2. CASE i <= m /\ ~(j <= m)
    <3>1. g[i] \in V /\ g[j] \in Virtual(n)
      BY <1>9, <1>10, <1>11, <2>2
    <3> QED
      BY <1>13, <3>1
  <2>3. CASE ~(i <= m) /\ j <= m
    <3>1. g[j] \in V /\ g[i] \in Virtual(n)
      BY <1>9, <1>10, <1>11, <2>3
    <3> QED
      BY <1>13, <3>1
  <2>4. CASE ~(i <= m) /\ ~(j <= m)
    <3>1. <<n, i - m>> = <<n, j - m>>
      BY <1>10, <1>13, <2>4
    <3>2. i - m = j - m
      BY <3>1
    <3> QED
      BY <3>2
  <2> QED
    BY <2>1, <2>2, <2>3, <2>4
<1>a. ASSUME NEW v \in W PROVE \E j \in 1 .. m + r : g[j] = v
  <2>1. CASE v \in V
    <3>1. PICK j \in 1 .. m : f[j] = v
      BY <1>9, <2>1
    <3>2. j \in 1 .. m + r /\ j <= m
      OBVIOUS
    <3> QED
      BY <1>10, <3>1, <3>2
  <2>2. CASE v \in Virtual(n)
    <3>1. PICK i \in 1 .. r : v = <<n, i>>
      BY <1>3, <2>2 DEF Virtual
    <3>2. i + m \in 1 .. m + r /\ ~(i + m <= m) /\ (i + m) - m = i
      OBVIOUS
    <3>3. g[i + m] = v
      BY <1>10, <3>1, <3>2
    <3> QED
      BY <3>2, <3>3
  <2> QED
    BY <2>1, <2>2
<1>15. ASSUME NEW j \in 1 .. m + r PROVE s[j] = HashOf(g[j])
  <2>1. CASE j <= m
    BY <1>8, <1>9, <1>10, <2>1
  <2>2. CASE ~(j <= m)
    <3>1. HashOf(<<n, j - m>>) = h[j - m]
      BY <1>4 DEF HashOf
    <3> QED
      BY <1>8, <1>10, <2>2, <3>1
  <2> QED
    BY <2>1, <2>2
<1> HIDE DEF W
<1>16. Places(s, W, g)
  BY <1>8, <1>12, <1>13, <1>a, <1>15 DEF Places
<1> QED
  BY <1>4, <1>7, <1>8, <1>16 DEF Holds, W
-----------------------------------------------------------------------------
\* The list is ascending and has a place for each virtual node of the nodes present; a hash
\* leads to a node that owns it or to nobody, and to its owner where there is only one.
MapFits ==
  /\ hashMap \in [Hashes -> Members \cup {Nobody}]
  /\ \A x \in Hashes : hashMap[x] # Nobody => x \in Own(hashMap[x])
  /\ \A n \in Listed : \A x \in Own(n) : Owners(x) = {n} => hashMap[x] = n
Present == Listed \X (1 .. DefaultReplicas)
RingInv ==
  /\ nodeReplicas \in [Members -> {0, DefaultReplicas}]
  /\ Holds(keys, Present) /\ Ascending(keys)
  /\ MapFits

\* A new ring is empty (consistent_hash.go:31-45).
LEMMA RingInvInit == RingInit => RingInv
<1> SUFFICES ASSUME RingInit PROVE RingInv
  OBVIOUS
<1>1. nodeReplicas \in [Members -> {0, DefaultReplicas}] /\ Listed = {}
  BY RingAssumption DEF RingInit, Listed
<1>2. MapFits
  BY <1>1 DEF RingInit, MapFits
<1>3. keys = <<>> /\ Len(keys) = 0 /\ keys \in Seq(Nat)
  BY DEF RingInit
<1>4. Present = {}
  BY <1>1 DEF Present
<1>5. Places(keys, {}, [j \in 1 .. 0 |-> j])
  BY <1>3 DEF Places
<1>6. Holds(keys, Present)
  BY <1>3, <1>4, <1>5 DEF Holds
<1>7. Ascending(keys)
  BY <1>3 DEF Ascending
<1> QED
  BY <1>1, <1>2, <1>6, <1>7 DEF RingInv

\* Add keeps the invariant of the ring.
LEMMA AddKeepsRing == ASSUME RingInv, NEW n \in Members, SetPeer(n) PROVE RingInv'
<1>1. /\ nodeReplicas[n] = 0
      /\ keys' = SortInts(keys \o Hash[n])
      /\ hashMap' = [h \in Hashes |-> IF h \in Own(n) THEN n ELSE hashMap[h]]
      /\ nodeReplicas' = [nodeReplicas EXCEPT ![n] = DefaultReplicas]
  BY DEF SetPeer, Add
<1>2. nodeReplicas \in [Members -> {0, DefaultReplicas}] /\ DefaultReplicas \in Nat /\ DefaultReplicas > 0
  BY RingAssumption DEF RingInv
<1>3. nodeReplicas' \in [Members -> {0, DefaultReplicas}]
  BY <1>1, <1>2
<1>4. Listed' = Listed \cup {n} /\ n \notin Listed
  BY <1>1, <1>2 DEF Listed
<1>5. Present' = Present \cup Virtual(n) /\ \A v \in Present : v \notin Virtual(n)
  <2>1. \A v \in Present : v \notin Virtual(n)
    BY <1>4 DEF Present, Virtual
  <2>2. Present' = (Listed \cup {n}) \X (1 .. DefaultReplicas)
    BY <1>4 DEF Present
  <2>3. Present' = Present \cup Virtual(n)
    BY <2>2 DEF Present, Virtual
  <2> QED
    BY <2>1, <2>3
<1>6. Holds(keys \o Hash[n], Present \cup Virtual(n))
  BY <1>5, AppendedHolds DEF RingInv
<1>7. Holds(keys, Present)' /\ Ascending(keys)'
  <2>1. Holds(SortInts(keys \o Hash[n]), Present \cup Virtual(n)) /\ Ascending(SortInts(keys \o Hash[n]))
    BY <1>6, SortedIs
  <2>2. Holds(keys', Present') /\ Ascending(keys')
    BY <1>1, <1>5, <2>1
  <2> QED
    BY <2>2 DEF Holds, Ascending, Places, HashOf
<1>8. MapFits'
  <2> USE <1>1 DEF MapFits
  <2>0. MapFits
    BY DEF RingInv
  <2>1. hashMap' \in [Hashes -> Members \cup {Nobody}]
    BY <2>0
  <2>2. \A x \in Hashes : hashMap'[x] # Nobody => x \in Own(hashMap'[x])
    BY <2>0
  <2>3. ASSUME NEW m \in Listed', NEW x \in Own(m), Owners(x) = {m} PROVE hashMap'[x] = m
    <3>1. m \in Members
      BY <1>4 DEF Listed
    <3>2. x \in Hashes
      BY <3>1 DEF Own, Hashes
    <3>3. CASE x \in Own(n)
      <4>1. n = m
        BY <2>3, <3>3 DEF Owners
      <4> QED
        BY <3>2, <3>3, <4>1
    <3>4. CASE x \notin Own(n)
      <4>1. m \in Listed
        BY <1>4, <3>4
      <4> QED
        BY <2>0, <2>3, <3>2, <3>4, <4>1
    <3> QED
      BY <3>3, <3>4
  <2> QED
    BY <2>1, <2>2, <2>3
<1> QED
  BY <1>3, <1>7, <1>8 DEF RingInv

\* Remove keeps it: no other node loses a virtual node.
LEMMA RemoveKeepsRing == ASSUME RingInv, NEW n \in Members, Remove(n) PROVE RingInv'
<1>1. /\ nodeReplicas[n] > 0
      /\ keys' = Without(n, DefaultReplicas)
      /\ hashMap' = [h \in Hashes |-> IF h \in Own(n) THEN Nobody ELSE hashMap[h]]
      /\ nodeReplicas' = [nodeReplicas EXCEPT ![n] = 0]
  BY DEF Remove
<1>2. nodeReplicas \in [Members -> {0, DefaultReplicas}] /\ DefaultReplicas \in Nat
  BY RingAssumption DEF RingInv
<1>3. nodeReplicas' \in [Members -> {0, DefaultReplicas}]
  BY <1>1, <1>2
<1>4. Listed' = Listed \ {n} /\ n \in Listed
  BY <1>1, <1>2 DEF Listed
<1>5. Present' = Present \ Virtual(n) /\ Virtual(n) \subseteq Present
  <2>1. Virtual(n) \subseteq Present
    BY <1>4 DEF Present, Virtual
  <2>2. Present' = (Listed \ {n}) \X (1 .. DefaultReplicas)
    BY <1>4 DEF Present
  <2>3. Present' = Present \ Virtual(n)
    BY <2>2 DEF Present, Virtual
  <2> QED
    BY <2>1, <2>3
<1>7. Holds(keys, Present)' /\ Ascending(keys)'
  <2>0. PICK V : V = Present
    OBVIOUS
  <2>a. Holds(keys, V) /\ Ascending(keys) /\ {n} \X (1 .. DefaultReplicas) \subseteq V
    BY <1>5, <2>0 DEF RingInv, Virtual
  <2>1. /\ Holds(Without(n, DefaultReplicas), V \ ({n} \X (1 .. DefaultReplicas)))
        /\ Ascending(Without(n, DefaultReplicas))
    BY <1>2, <2>a, WithoutIs
  <2>2. Holds(keys', Present') /\ Ascending(keys')
    BY <1>1, <1>5, <2>0, <2>1 DEF Virtual
  <2> QED
    BY <2>2 DEF Holds, Ascending, Places, HashOf
<1>8. MapFits'
  <2> USE <1>1 DEF MapFits
  <2>0. MapFits
    BY DEF RingInv
  <2>1. hashMap' \in [Hashes -> Members \cup {Nobody}]
    BY <2>0
  <2>2. \A x \in Hashes : hashMap'[x] # Nobody => x \in Own(hashMap'[x])
    BY <2>0
  <2>3. ASSUME NEW m \in Listed', NEW x \in Own(m), Owners(x) = {m} PROVE hashMap'[x] = m
    <3>1. m \in Members /\ m \in Listed /\ m # n
      BY <1>4 DEF Listed
    <3>2. x \in Hashes
      BY <3>1 DEF Own, Hashes
    <3>3. x \notin Own(n)
      BY <2>3, <3>1 DEF Owners
    <3> QED
      BY <2>0, <2>3, <3>1, <3>2, <3>3
  <2> QED
    BY <2>1, <2>2, <2>3
<1> QED
  BY <1>3, <1>7, <1>8 DEF RingInv

\* Nothing else changes the ring.
LEMMA RingInvStep == RingInv /\ [RingNext]_allRingVars => RingInv'
<1> SUFFICES ASSUME RingInv, [RingNext]_allRingVars PROVE RingInv'
  OBVIOUS
<1>1. ASSUME UNCHANGED ringVars PROVE RingInv'
  <2>1. keys' = keys /\ hashMap' = hashMap /\ nodeReplicas' = nodeReplicas
    BY <1>1 DEF ringVars
  <2>2. Listed' = Listed
    BY <2>1 DEF Listed
  <2>3. Present' = Present
    BY <2>2 DEF Present
  <2>4. MapFits'
    BY <2>1, <2>2 DEF RingInv, MapFits
  <2>5. Holds(keys, Present)'
    BY <2>1, <2>3 DEF RingInv, Holds, Places
  <2>6. Ascending(keys)'
    BY <2>1 DEF RingInv, Ascending
  <2> QED
    BY <2>1, <2>4, <2>5, <2>6 DEF RingInv
<1>2. ASSUME NEW n \in Members, SetPeer(n) PROVE RingInv'
  BY <1>2, AddKeepsRing
<1>3. ASSUME NEW n \in Members, Remove(n) PROVE RingInv'
  BY <1>3, RemoveKeepsRing
<1>4. ASSUME NEW q \in Askers, Ask(q) \/ Get(q) \/ Count(q) PROVE RingInv'
  BY <1>1, <1>4 DEF Ask, Get, Count
<1>5. CASE CheckAndRebalance \/ RebalanceNodes
  BY <1>1, <1>5 DEF CheckAndRebalance, RebalanceNodes
<1>6. CASE UNCHANGED allRingVars
  BY <1>1, <1>6 DEF allRingVars
<1> QED
  BY <1>2, <1>3, <1>4, <1>5, <1>6 DEF RingNext

\* The hashes on the list are those of the nodes present.
LEMMA KeysAre ==
  ASSUME RingInv
  PROVE  /\ Len(keys) \in Nat /\ DOMAIN keys = 1 .. Len(keys)
         /\ \A j \in 1 .. Len(keys) : keys[j] \in UNION {Own(n) : n \in Listed}
         /\ \A y \in UNION {Own(n) : n \in Listed} : \E j \in 1 .. Len(keys) : keys[j] = y
<1>1. Holds(keys, Present)
  BY DEF RingInv
<1>2. PICK f : Places(keys, Present, f)
  BY <1>1 DEF Holds
<1>3. Len(keys) \in Nat /\ DOMAIN keys = 1 .. Len(keys)
  BY <1>1, LenProperties DEF Holds
<1>4. ASSUME NEW j \in 1 .. Len(keys) PROVE keys[j] \in UNION {Own(n) : n \in Listed}
  <2>1. f[j] \in Present /\ keys[j] = HashOf(f[j])
    BY <1>2 DEF Places
  <2>2. PICK n \in Listed, i \in 1 .. DefaultReplicas : f[j] = <<n, i>>
    BY <2>1 DEF Present
  <2>3. keys[j] = Hash[n][i]
    BY <2>1, <2>2 DEF HashOf
  <2>4. keys[j] \in Own(n)
    BY <2>3 DEF Own
  <2> QED
    BY <2>4
<1>5. ASSUME NEW y \in UNION {Own(n) : n \in Listed} PROVE \E j \in 1 .. Len(keys) : keys[j] = y
  <2>1. PICK n \in Listed : y \in Own(n)
    OBVIOUS
  <2>2. PICK i \in 1 .. DefaultReplicas : y = Hash[n][i]
    BY <2>1 DEF Own
  <2>3. <<n, i>> \in Present
    BY DEF Present
  <2>4. PICK j \in 1 .. Len(keys) : f[j] = <<n, i>>
    BY <1>2, <2>3 DEF Places
  <2>5. keys[j] = HashOf(<<n, i>>)
    BY <1>2, <2>4 DEF Places
  <2> QED
    BY <2>2, <2>5 DEF HashOf
<1> QED
  BY <1>3, <1>4, <1>5

\* The search ends at the nearest virtual node.
LEMMA SearchFinds ==
  ASSUME RingInv, Listed # {}, NEW h \in Points
  PROVE  /\ keys # <<>> /\ Search(h) = hashMap[Nearest(h)]
         /\ Nearest(h) \in UNION {Own(n) : n \in Listed}
<1> DEFINE all == UNION {Own(n) : n \in Listed}
           after == {x \in all : x >= h}
           idx == {i \in DOMAIN keys : keys[i] >= h}
           i0 == IF idx = {} THEN 1 ELSE Min(idx)
<1>1. h \in Nat
  BY RingAssumption
<1>2. all \subseteq Nat /\ all # {}
  <2>1. Listed \subseteq Members
    BY DEF Listed
  <2>2. \A n \in Members : \A i \in 1 .. DefaultReplicas : Hash[n][i] \in Nat
    BY RingAssumption
  <2>3. \A n \in Members : Own(n) \subseteq Nat
    BY <2>2 DEF Own
  <2>4. 1 \in 1 .. DefaultReplicas
    BY RingAssumption
  <2>5. \A n : Hash[n][1] \in Own(n)
    BY <2>4 DEF Own
  <2> QED
    BY <2>1, <2>3, <2>5
<1>3. Nearest(h) = Min(IF after = {} THEN all ELSE after)
  BY DEF Nearest
<1>4. Search(h) = hashMap[keys[i0]]
  BY DEF Search
<1>5. PICK m \in Nat : m = Len(keys) /\ DOMAIN keys = 1 .. m
  BY KeysAre
<1>6. \A j \in 1 .. m : keys[j] \in all
  BY <1>5, KeysAre
<1>7. \A y \in all : \E j \in 1 .. m : keys[j] = y
  BY <1>5, KeysAre
<1>8. \A j, k \in 1 .. m : j < k => keys[j] <= keys[k]
  BY <1>5 DEF RingInv, Ascending
<1>9. \A j, k \in 1 .. m : j <= k => keys[j] <= keys[k]
  <2> SUFFICES ASSUME NEW j \in 1 .. m, NEW k \in 1 .. m, j <= k PROVE keys[j] <= keys[k]
    OBVIOUS
  <2>1. keys[j] \in Nat
    BY <1>2, <1>6
  <2>2. j < k \/ j = k
    OBVIOUS
  <2> QED
    BY <1>8, <2>1, <2>2
<1>10. m # 0
  BY <1>2, <1>7
<1>a. keys # <<>>
  BY <1>5, <1>10
<1>11. idx = {i \in 1 .. m : keys[i] >= h}
  BY <1>5
<1> HIDE DEF all
<1>12. CASE idx = {}
  <2>1. after = {}
    BY <1>7, <1>11, <1>12
  <2>2. 1 \in 1 .. m /\ i0 = 1
    BY <1>10, <1>12
  <2>3. ASSUME NEW y \in all PROVE keys[1] <= y
    <3>1. PICK j \in 1 .. m : keys[j] = y
      BY <1>7
    <3>2. 1 <= j
      OBVIOUS
    <3> QED
      BY <1>9, <2>2, <3>1, <3>2
  <2>4. keys[1] \in all
    BY <1>6, <2>2
  <2>5. Min(all) \in all /\ \A y \in all : Min(all) <= y
    BY <1>2, LeastIs
  <2>6. Min(all) = keys[1]
    <3>1. PICK a \in Nat : a = Min(all)
      BY <1>2, <2>5
    <3>2. keys[1] <= a /\ a <= keys[1] /\ keys[1] \in Nat
      BY <1>2, <2>3, <2>4, <2>5, <3>1
    <3> QED
      BY <3>1, <3>2
  <2>7. Nearest(h) = keys[1]
    BY <1>3, <2>1, <2>6
  <2>8. Search(h) = hashMap[keys[1]]
    BY <1>4, <2>2
  <2> QED
    BY <1>a, <2>4, <2>7, <2>8 DEF all
<1>13. CASE idx # {}
  <2>0. idx \subseteq Nat
    BY <1>11
  <2>1. Min(idx) \in idx /\ \A j \in idx : Min(idx) <= j
    BY <1>13, <2>0, LeastIs
  <2>2. PICK i \in 1 .. m : i = i0 /\ keys[i] >= h /\ \A j \in idx : i <= j
    BY <1>11, <1>13, <2>1
  <2>3. keys[i] \in after
    BY <1>6, <2>2
  <2>4. ASSUME NEW y \in after PROVE keys[i] <= y
    <3>1. PICK j \in 1 .. m : keys[j] = y
      BY <1>7
    <3>2. i <= j
      BY <1>11, <2>2, <3>1
    <3> QED
      BY <1>9, <3>1, <3>2
  <2>a. after \subseteq Nat /\ after # {}
    BY <1>2, <2>3
  <2>5. Min(after) \in after /\ \A y \in after : Min(after) <= y
    BY <2>a, LeastIs
  <2>6. Min(after) = keys[i]
    <3>1. PICK a \in Nat : a = Min(after)
      BY <2>a, <2>5
    <3>2. keys[i] <= a /\ a <= keys[i] /\ keys[i] \in Nat
      BY <2>a, <2>3, <2>4, <2>5, <3>1
    <3> QED
      BY <3>1, <3>2
  <2>7. keys[i] \in all
    BY <2>3
  <2>8. Nearest(h) = keys[i]
    BY <1>3, <2>a, <2>6
  <2>9. Search(h) = hashMap[keys[i]]
    BY <1>4, <2>2
  <2> QED
    BY <1>a, <2>7, <2>8, <2>9 DEF all
<1> QED
  BY <1>12, <1>13

\* A ring that satisfies the invariant routes.
LEMMA RingInvRoutes == RingInv => RingRoutes
<1> SUFFICES ASSUME RingInv, Listed # {}, NEW h \in Points
             PROVE  /\ keys # <<>>
                    /\ Search(h) \in Owners(Nearest(h)) \cup {Nobody}
                    /\ Cardinality(Owners(Nearest(h))) = 1 => Search(h) \in Owners(Nearest(h))
  BY DEF RingRoutes
<1>1. PICK x : x = Nearest(h)
  OBVIOUS
<1>2. keys # <<>> /\ Search(h) = hashMap[x] /\ x \in UNION {Own(n) : n \in Listed}
  BY <1>1, SearchFinds
<1>3. PICK n \in Listed : x \in Own(n)
  BY <1>2
<1>4. n \in Members /\ n \in Owners(x) /\ x \in Hashes
  BY <1>3 DEF Listed, Owners, Own, Hashes
<1>5. MapFits
  BY DEF RingInv
<1>6. hashMap[x] \in Owners(x) \cup {Nobody}
  BY <1>4, <1>5 DEF MapFits, Owners
<1>7. ASSUME Cardinality(Owners(x)) = 1 PROVE hashMap[x] \in Owners(x)
  <2>1. PICK O : O = Owners(x)
    OBVIOUS
  <2>2. O \in SUBSET Members
    BY <2>1 DEF Owners
  <2>3. IsFiniteSet(O)
    BY <2>2, RingAssumption, FS_Subset
  <2>4. PICK o : O = {o}
    BY <1>7, <2>1, <2>3, FS_Singleton
  <2>5. Owners(x) = {n}
    BY <1>4, <2>1, <2>4
  <2> QED
    BY <1>3, <1>4, <1>5, <2>5 DEF MapFits
<1> QED
  BY <1>1, <1>2, <1>6, <1>7

\* Whatever nodes were added and removed in whatever order, and although removing one of two
\* nodes with an equal hash takes the hash from the other, a key is routed to the owner of the
\* nearest virtual node of the nodes present, for all rings (consistent_hash.go:58-141).
THEOREM RingRoutesAlways == RingSpec => []RingRoutes
  BY RingInvInit, RingInvStep, RingInvRoutes, PTL DEF RingSpec
=============================================================================
