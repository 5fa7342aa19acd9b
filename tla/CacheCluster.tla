---------------------------- MODULE CacheCluster ----------------------------
(***************************************************************************)
(* A cluster of sonnet-cache-v2 nodes.  Every node runs one cache group    *)
(* (group.go) over a local cache, a single-flight loader, a peer picker fed *)
(* by etcd (peers.go, registry/register.go) and a gRPC server and clients  *)
(* (server.go, client.go).                                                 *)
(*                                                                         *)
(* A Get that misses becomes a chain of tasks: task <<c, 0>> is the Get of *)
(* client c, <<c, 1>> the handler of the request it sent to a peer,        *)
(* <<c, 2>> the handler of the request that one sent, and so on.  A picker *)
(* never puts its own address on its ring, so nobody is the owner of a key *)
(* and every node that misses asks another one.                            *)
(*                                                                         *)
(* The store below the group (Lru2Store models one) is reduced to a value  *)
(* or None for each key.  The ring has made fewer than 1000 lookups, below *)
(* which checkAndRebalance returns at once.                                *)
(***************************************************************************)
EXTENDS Naturals, Sequences

CONSTANTS
  Nodes, Keys,
  Values,       \* what clients Set
  Source,       \* what the getter returns
  Error,        \* a Get that failed
  None,
  Clients,      \* each performs one operation
  Setups,       \* the configurations: see setup
  Distance,     \* from the hash of a key to the next virtual node of a node
  MaxHops,      \* bound: length of a chain of requests
  MaxCrashes    \* bound: crashes of nodes

Tasks == Clients \X (0 .. MaxHops)

ASSUME ClusterAssumption ==
  /\ MaxHops \in Nat /\ MaxCrashes \in Nat
  /\ Distance \in [Keys -> [Nodes -> Nat]]
  /\ Setups \subseteq [alias : SUBSET Nodes, stable : SUBSET Nodes,
                       readers : SUBSET Clients, hops : 0 .. MaxHops]
  /\ None \notin Values \cup Nodes \cup Tasks \cup {Source, Error}
  /\ Error \notin Values \cup {Source}

VARIABLES
  setup,     \* .alias: nodes given as ":port", which register as "ip:port"
             \* .stable: nodes that are up from the beginning and stay up
             \* .readers: clients that Get, the others Set or Delete
             \* .hops: bound on the chains of this configuration
  stage,     \* how far each node has started
  watching,  \* nodes whose watch on etcd is established
  etcd,      \* nodes whose key is in etcd
  inbox,     \* watch events on their way to each node
  peers,     \* addresses on the ring and in the map of clients
  cache,     \* cache[n][k]: mainCache
  flight,    \* flight[n][k]: the call in the single-flight map
  task,      \* the Gets and the handlers of forwarded Gets
  sync,      \* the goroutines that run syncToPeers
  crashes

vars == <<setup, stage, watching, etcd, inbox, peers, cache, flight, task, sync, crashes>>
lifeVars == <<setup, stage, watching, etcd, inbox, peers, crashes>>

PCs == {"idle", "get", "load", "store", "wait", "rpc", "getter", "unmap", "add",
        "done", "dead"}
TaskRec == [pc : PCs, node : Nodes \cup {None}, key : Keys \cup {None},
            ref : Tasks \cup Nodes \cup {None}, val : Values \cup {Source, Error, None}]
Idle == [pc |-> "idle", node |-> None, key |-> None, ref |-> None, val |-> None]

\* Faulty variant: the own address is a peer as well.
AnyAddr(n, m) == TRUE

\* addr # p.selfAddr: an alias does not recognise itself.
IsPeer(n, m) == m # n \/ n \in setup.alias

Init ==
  /\ setup \in Setups
  /\ stage = [n \in Nodes |-> IF n \in setup.stable THEN "registered" ELSE "down"]
  /\ watching = setup.stable /\ etcd = setup.stable /\ crashes = 0
  /\ inbox = [n \in Nodes |-> <<>>]
  /\ peers = [n \in Nodes |->
                IF n \in setup.stable THEN {m \in setup.stable : IsPeer(n, m)} ELSE {}]
  /\ cache = [n \in Nodes |-> [k \in Keys |-> None]]
  /\ flight = [n \in Nodes |-> [k \in Keys |-> None]]
  /\ task = [t \in Tasks |-> Idle]
  /\ sync = {}

Up(n) == stage[n] # "down"
Serving(n) == stage[n] \in {"serving", "registered"}
Child(t) == <<t[1], t[2] + 1>>

-----------------------------------------------------------------------------
\* Membership.

\* set: NewClient blocks until the connection is up, or fails.
Dialled(n, m) == IsPeer(n, m) /\ Serving(m)

\* NewClientPicker with fetchAllServices, one step with the dials it makes
\* under the picker's mutex; the watch follows in a goroutine.
Start(n) ==
  /\ stage[n] = "down"
  /\ stage' = [stage EXCEPT ![n] = "fetched"]
  /\ peers' = [peers EXCEPT ![n] = {m \in etcd : Dialled(n, m)}]
  /\ UNCHANGED <<setup, watching, etcd, inbox, cache, flight, task, sync, crashes>>

\* watchServiceChanges: only what is put from now on is seen.
Watch(n) ==
  /\ Up(n) /\ n \notin watching
  /\ watching' = watching \cup {n}
  /\ UNCHANGED <<setup, stage, etcd, inbox, peers, cache, flight, task, sync, crashes>>

\* Server.Start: the listener is open before the registration.
Serve(n) ==
  /\ stage[n] = "fetched"
  /\ stage' = [stage EXCEPT ![n] = "serving"]
  /\ UNCHANGED <<setup, watching, etcd, inbox, peers, cache, flight, task, sync, crashes>>

Events == [type : {"put"}, addr : Nodes] \cup [type : {"delete"}, addr : {None}]

\* etcd sends an event to every watcher.
Publish(ev) == inbox' = [n \in Nodes |-> IF n \in watching THEN Append(inbox[n], ev) ELSE inbox[n]]

\* registry.Register: the key is put under a lease.
Register(n) ==
  /\ stage[n] = "serving"
  /\ stage' = [stage EXCEPT ![n] = "registered"]
  /\ etcd' = etcd \cup {n}
  /\ Publish([type |-> "put", addr |-> n])
  /\ UNCHANGED <<setup, watching, peers, cache, flight, task, sync, crashes>>

\* The lease of a node that is down ends.  The event of a deletion has the
\* key and no value.
LeaseEnds(n) ==
  /\ ~Up(n) /\ n \in etcd
  /\ etcd' = etcd \ {n}
  /\ Publish([type |-> "delete", addr |-> None])
  /\ UNCHANGED <<setup, stage, watching, peers, cache, flight, task, sync, crashes>>

\* handleWatchEvents, which takes the address from the value.
HandleWatchEvent(n) ==
  /\ inbox[n] # <<>>
  /\ LET ev == Head(inbox[n]) IN
     peers' = [peers EXCEPT ![n] =
       IF ev.type = "delete" THEN @ \ {ev.addr}
       ELSE IF Dialled(n, ev.addr) THEN @ \cup {ev.addr} ELSE @]
  /\ inbox' = [inbox EXCEPT ![n] = Tail(@)]
  /\ UNCHANGED <<setup, stage, watching, etcd, cache, flight, task, sync, crashes>>

\* The process ends: its goroutines, its cache and its picker are gone.
Crash(n) ==
  /\ Up(n) /\ n \notin setup.stable /\ crashes < MaxCrashes
  /\ crashes' = crashes + 1
  /\ stage' = [stage EXCEPT ![n] = "down"]
  /\ watching' = watching \ {n}
  /\ inbox' = [inbox EXCEPT ![n] = <<>>]
  /\ peers' = [peers EXCEPT ![n] = {}]
  /\ cache' = [cache EXCEPT ![n] = [k \in Keys |-> None]]
  /\ flight' = [flight EXCEPT ![n] = [k \in Keys |-> None]]
  /\ task' = [t \in Tasks |-> IF task[t].node = n /\ task[t].pc # "done"
                               THEN [task[t] EXCEPT !.pc = "dead"] ELSE task[t]]
  /\ sync' = {s \in sync : s.node # n}
  /\ UNCHANGED <<setup, etcd>>

\* PickPeer: the first node on the ring after the key's hash, None when the
\* ring is empty.  selfAddr is not among the clients, so it is never "self".
PickPeer(n, k) ==
  IF peers[n] = {} THEN None
  ELSE CHOOSE m \in peers[n] : \A q \in peers[n] : Distance[k][m] <= Distance[k][q]

-----------------------------------------------------------------------------
\* Get and load.

Goto(t, pc) == task' = [task EXCEPT ![t] = [@ EXCEPT !.pc = pc]]
GotoWith(t, pc, ref) == task' = [task EXCEPT ![t] = [@ EXCEPT !.pc = pc, !.ref = ref]]
Return(t, v, pc) == task' = [task EXCEPT ![t] = [@ EXCEPT !.pc = pc, !.ref = None, !.val = v]]
Begun(pc, n, k) == [pc |-> pc, node |-> n, key |-> k, ref |-> None, val |-> None]
Begin(t, pc, n, k) == task' = [task EXCEPT ![t] = Begun(pc, n, k)]

\* Group.Get called by a client.
ClientGet(c, n, k) ==
  /\ task[<<c, 0>>] = Idle /\ Up(n) /\ c \in setup.readers
  /\ Begin(<<c, 0>>, "get", n, k)
  /\ UNCHANGED <<lifeVars, cache, flight, sync>>

\* mainCache.Get
Lookup(t) ==
  LET n == task[t].node  v == cache[n][task[t].key] IN
  /\ task[t].pc = "get"
  /\ IF v = None THEN Goto(t, "load") ELSE Return(t, v, "done")
  /\ UNCHANGED <<lifeVars, cache, flight, sync>>

\* loader.Do: m.Load, then wait for the call found.
Load(t) ==
  LET call == flight[task[t].node][task[t].key] IN
  /\ task[t].pc = "load"
  /\ IF call = None THEN Goto(t, "store") ELSE GotoWith(t, "wait", call)
  /\ UNCHANGED <<lifeVars, cache, flight, sync>>

\* loader.Do stores a new call and runs loadData, which picks a peer.
Store(t) ==
  LET p == PickPeer(task[t].node, task[t].key) IN
  /\ task[t].pc = "store"
  /\ flight' = [flight EXCEPT ![task[t].node][task[t].key] = t]
  /\ IF p = None THEN Goto(t, "getter") ELSE GotoWith(t, "rpc", p)
  /\ UNCHANGED <<lifeVars, cache, sync>>

Ended == {"unmap", "add", "done"}

\* The call is over: wg.Done has been called.
Over(t) == task[t].pc \in Ended

\* After loader.Do: an error is returned, a value is added to the cache.
Loaded(v) == IF v = Error THEN "done" ELSE "add"

\* c.wg.Wait() returns.
Wake(t) ==
  /\ task[t].pc = "wait" /\ Over(task[t].ref)
  /\ LET v == task[task[t].ref].val IN Return(t, v, Loaded(v))
  /\ UNCHANGED <<lifeVars, cache, flight, sync>>

\* Client.Get reaches the server of the peer, which calls Group.Get.
ServeGet(t) ==
  /\ task[t].pc = "rpc" /\ t[2] < setup.hops
  /\ task[Child(t)] = Idle /\ Serving(task[t].ref)
  /\ Begin(Child(t), "get", task[t].ref, task[t].key)
  /\ UNCHANGED <<lifeVars, cache, flight, sync>>

\* The answer of the peer; on an error the source is asked.
RpcReturn(t) ==
  /\ task[t].pc = "rpc" /\ t[2] < setup.hops /\ task[Child(t)].pc = "done"
  /\ LET v == task[Child(t)].val IN
     IF v = Error THEN GotoWith(t, "getter", None) ELSE Return(t, v, "unmap")
  /\ UNCHANGED <<lifeVars, cache, flight, sync>>

\* Faulty variant: Client.Get has no deadline and fails only with the connection.
NoDeadline(t) ==
  /\ task[t].pc = "rpc"
  /\ ~Serving(task[t].ref) \/ t[2] = setup.hops \/ task[Child(t)].pc = "dead"
  /\ GotoWith(t, "getter", None)
  /\ UNCHANGED <<lifeVars, cache, flight, sync>>

\* Client.Get fails: after 3 s at the latest, whatever became of the handler.
RpcFails(t) ==
  /\ task[t].pc = "rpc"
  /\ GotoWith(t, "getter", None)
  /\ UNCHANGED <<lifeVars, cache, flight, sync>>

\* getter.Get, then wg.Done.
Getter(t) ==
  /\ task[t].pc = "getter"
  /\ \E v \in {Source, Error} : Return(t, v, "unmap")
  /\ UNCHANGED <<lifeVars, cache, flight, sync>>

\* loader.Do: m.Delete of whatever call is under the key.
Unmap(t) ==
  /\ task[t].pc = "unmap"
  /\ flight' = [flight EXCEPT ![task[t].node][task[t].key] = None]
  /\ Goto(t, Loaded(task[t].val))
  /\ UNCHANGED <<lifeVars, cache, sync>>

\* load: mainCache.Add, by the loader and by everyone who waited.
AddLoaded(t) ==
  /\ task[t].pc = "add"
  /\ cache' = [cache EXCEPT ![task[t].node][task[t].key] = task[t].val]
  /\ Goto(t, "done")
  /\ UNCHANGED <<lifeVars, flight, sync>>

Step(t) ==
  \/ Lookup(t) \/ Load(t) \/ Store(t) \/ Wake(t) \/ ServeGet(t)
  \/ RpcReturn(t) \/ RpcFails(t) \/ Getter(t) \/ Unmap(t) \/ AddLoaded(t)

-----------------------------------------------------------------------------
\* Set, Delete and their propagation.

Syncs == [id : Tasks, op : {"set", "delete"}, node : Nodes, key : Keys,
          val : Values \cup {None}, to : Nodes \cup {None}]

\* go syncToPeers(...)
Sync(t, op, n, k, v) == [id |-> t, op |-> op, node |-> n, key |-> k, val |-> v, to |-> None]

Finished(c, n, k) ==
  /\ task[<<c, 0>>] = Idle /\ Up(n) /\ c \notin setup.readers
  /\ Begin(<<c, 0>>, "done", n, k)

\* Group.Set called by a client.
ClientSet(c, n, k, v) ==
  /\ Finished(c, n, k)
  /\ cache' = [cache EXCEPT ![n][k] = v]
  /\ sync' = sync \cup {Sync(<<c, 0>>, "set", n, k, v)}
  /\ UNCHANGED <<lifeVars, flight>>

\* Group.Delete called by a client.
ClientDelete(c, n, k) ==
  /\ Finished(c, n, k)
  /\ cache' = [cache EXCEPT ![n][k] = None]
  /\ sync' = sync \cup {Sync(<<c, 0>>, "delete", n, k, None)}
  /\ UNCHANGED <<lifeVars, flight>>

\* syncToPeers: choose the peer; without one there is nothing to do.
SyncPick(s) ==
  /\ s.to = None
  /\ LET p == PickPeer(s.node, s.key) IN
     sync' = (sync \ {s}) \cup (IF p = None THEN {} ELSE {[s EXCEPT !.to = p]})
  /\ UNCHANGED <<lifeVars, cache, flight, task>>

\* A request without the mark is propagated again by the node that serves it.
Relay(s) ==
  IF s.id[2] < setup.hops THEN {Sync(Child(s.id), s.op, s.to, s.key, s.val)} ELSE {}

\* Faulty variant: the server does not mark the request as coming from a peer.
ServeSetUnmarked(s) ==
  /\ s.op = "set" /\ s.to # None /\ Serving(s.to)
  /\ cache' = [cache EXCEPT ![s.to][s.key] = s.val]
  /\ sync' = (sync \ {s}) \cup Relay(s)
  /\ UNCHANGED <<lifeVars, flight, task>>

\* Server.Set marks the context with from_peer before it calls Group.Set.
ServeSet(s) ==
  /\ s.op = "set" /\ s.to # None /\ Serving(s.to)
  /\ cache' = [cache EXCEPT ![s.to][s.key] = s.val]
  /\ sync' = sync \ {s}
  /\ UNCHANGED <<lifeVars, flight, task>>

\* Server.Delete calls Group.Delete with an unmarked context.
ServeDelete(s) ==
  /\ s.op = "delete" /\ s.to # None /\ Serving(s.to)
  /\ cache' = [cache EXCEPT ![s.to][s.key] = None]
  /\ sync' = (sync \ {s}) \cup Relay(s)
  /\ UNCHANGED <<lifeVars, flight, task>>

\* Client.Delete has a deadline, Client.Set in a sync has none: it fails only
\* with the connection.
SyncFails(s) ==
  /\ s.to # None
  /\ s.op = "delete" \/ ~Serving(s.to)
  /\ sync' = sync \ {s}
  /\ UNCHANGED <<lifeVars, cache, flight, task>>

\* The store evicts an entry, or it expires.
Evict(n, k) ==
  /\ cache[n][k] # None
  /\ cache' = [cache EXCEPT ![n][k] = None]
  /\ UNCHANGED <<lifeVars, flight, task, sync>>

\* Group.Clear
Clear(n) ==
  /\ Up(n)
  /\ cache' = [cache EXCEPT ![n] = [k \in Keys |-> None]]
  /\ UNCHANGED <<lifeVars, flight, task, sync>>

Next ==
  \/ \E n \in Nodes : Start(n) \/ Watch(n) \/ Serve(n) \/ Register(n) \/ LeaseEnds(n)
                      \/ HandleWatchEvent(n) \/ Crash(n) \/ Clear(n)
  \/ \E n \in Nodes, k \in Keys : Evict(n, k)
  \/ \E c \in Clients, n \in Nodes, k \in Keys :
       ClientGet(c, n, k) \/ ClientDelete(c, n, k) \/ \E v \in Values : ClientSet(c, n, k, v)
  \/ \E t \in Tasks : Step(t)
  \/ \E s \in sync : SyncPick(s) \/ ServeSet(s) \/ ServeDelete(s) \/ SyncFails(s)

Spec == Init /\ [][Next]_vars

\* Goroutines that can run do, and the timer of a request fires.
FairSpec == Spec /\ \A t \in Tasks : WF_vars(Step(t))
-----------------------------------------------------------------------------
\* Properties.

TypeOK ==
  /\ setup \in Setups /\ watching \subseteq Nodes /\ etcd \subseteq Nodes
  /\ stage \in [Nodes -> {"down", "fetched", "serving", "registered"}]
  /\ inbox \in [Nodes -> Seq(Events)]
  /\ peers \in [Nodes -> SUBSET Nodes]
  /\ cache \in [Nodes -> [Keys -> Values \cup {Source, None}]]
  /\ flight \in [Nodes -> [Keys -> Tasks \cup {None}]]
  /\ task \in [Tasks -> TaskRec]
  /\ sync \subseteq Syncs
  /\ crashes \in 0 .. MaxCrashes

Leading == {"rpc", "getter", "unmap"}

\* A call in the single-flight map belongs to a load of that node and key that
\* is still going to remove it.
FlightOwned ==
  \A n \in Nodes, k \in Keys :
    LET t == flight[n][k] IN
    t # None => task[t].node = n /\ task[t].key = k /\ task[t].pc \in Leading

\* Whoever waits for a call waits for one of its own node and key that is
\* running or over, never for one that died.
WaitersFollow ==
  \A t \in Tasks : task[t].pc = "wait" =>
    /\ task[t].ref \in Tasks
    /\ LET u == task[t].ref IN
       /\ task[u].node = task[t].node /\ task[u].key = task[t].key
       /\ task[u].pc \in Leading \/ Over(u)

\* What the fields of a task are at its stage.
Placed ==
  \A t \in Tasks :
    /\ task[t].pc = "idle" => task[t] = Idle
    /\ task[t].pc # "idle" => task[t].node \in Nodes /\ task[t].key \in Keys
    /\ task[t].pc = "rpc" => task[t].ref \in Nodes
    /\ task[t].pc = "add" => task[t].val # Error

\* Only an alias is on its own ring.
OwnRing == \A n \in Nodes : n \notin setup.alias => n \notin peers[n]

\* The loader of a node stays consistent (single_flight.go:20-41 under
\* group.go:278-305) while its Gets run together with the handlers that peers
\* sent it, with timeouts and with crashes: no entry outlives its load, and
\* nobody waits for a load that is gone.
ClusterInv == TypeOK /\ FlightOwned /\ WaitersFollow /\ Placed /\ OwnRing

\* A node that knows its own address never sends a request to itself
\* (peers.go:137 and 172), in whatever order it starts, watches, registers,
\* crashes and comes back.  Such a request would wait for its sender.
NoSelfCall ==
  /\ \A t \in Tasks : task[t].pc = "rpc" /\ task[t].node \notin setup.alias
                          => task[t].ref # task[t].node
  /\ \A s \in sync : s.node \notin setup.alias => s.to # s.node

\* A Set that a peer propagated is not propagated again (server.go:179-183
\* with group.go:185-187): since no node owns a key it would circulate.
SetNotResent == \A s \in sync : s.op = "set" => s.id[2] = 0

IInv == ClusterInv /\ NoSelfCall /\ SetNotResent

\* Every Get and every handler of a forwarded Get ends (client.go:61,
\* group.go:278-332), so that again and again none is under way.  Nodes that
\* miss together wait for each other in a circle: A's load for B's handler,
\* which waits for B's load, which waits for A's handler, which waits for A's
\* load.
GetsReturn == []<>(\A t \in Tasks : task[t].pc \in {"idle", "done", "dead"})

\* group.go:209 "Sync to peers if not from peer and distributed mode enabled":
\* a Delete that a peer propagated is not propagated again.
DeleteNotResent == \A s \in sync : s.op = "delete" => s.id[2] = 0
=============================================================================
