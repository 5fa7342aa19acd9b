# Verification of sonnet-pro

sonnet-pro is a collection of Go services and libraries written from scratch: two RPC
frameworks, two distributed caches, an ORM, a web framework, an AI chat backend and its
frontend. This directory holds TLA+ models of their core logic, TLC configurations that
model-check them on small instances, and TLAPS proofs for every instance.

## 1. Inventory

| part | state it keeps | operations | what is hard | correct when |
|---|---|---|---|---|
| `sonnet-rpc/client.go` (v1 client) | `seq`, `pending`, `closing`, `shutdown`, mutexes `sending`, `mu` | `Go`, `Call`, `send`, `receive`, `terminateCalls`, `Close`, dialling | a call can be finished by its sender, by the reader, by the terminator or by its context; `terminateCalls` pushes into channels with both mutexes held; a dial outlives its timeout | every call completes exactly once, with its own reply; a failed dial leaves no connection |
| `sonnet-rpc/server.go`, `service.go` | service table, two goroutines per request | `ServeConn`, `readRequest`, `handleRequest`, `sendResponse` | timeouts race with the method's end; errors are answered by the read loop | one whole response per request, in the end |
| `sonnet-rpc/registry`, `client/` | server list with start times; discovery cache; client cache | heartbeat, `aliveServers`, `Refresh`, `Call`, `Broadcast` | expiry against heartbeat, a cached list, shared reply of a broadcast | dead servers leave, live ones stay; a broadcast reports the cause |
| `sonnet-rpc-v2/internal/transport` | `pending` (sync.Map), `closed`, futures; packet buffer; a pool of connections | `SendAsync`, `readLoop`, `fail`, `Close`, `Future.Done`; `Read`, `Write`; `Acquire` | only atomics order the goroutines; `Range` is no snapshot; a list shortened while it is iterated | no future is left behind or completed twice; each message arrives whole; no connection is lost |
| `sonnet-rpc-v2/internal/breaker`, `client` | breaker state and counters per address | `Allow`, `RecordSuccess`, `RecordFailure`; `InvokeAsync` | results arrive long after the state they were admitted in | cuts off a failing service, comes back afterwards |
| `sonnet-rpc-v2/internal/registry`, `server`, `limiter` | instance lists, watch; connections; tokens | `Register`, `Discover`, `watch`; `Handle`, `Process`, `Shutdown`; `Allow` | lock nesting, missed events, an unlocked map | the cache follows etcd; Shutdown closes what it can know |
| `sonnet-cache/single_flight` | map of calls under a mutex | `Do` | duplicates arrive at any moment; `fn` may panic | one execution per key in flight, all get its result |
| `sonnet-cache-v2/single_flight` | the same in a sync.Map | `Do` | check and store are two steps | all get a result of their key |
| `sonnet-cache-v2/store/lru2.go` | per bucket two levels, each an array with an index list and a map; a coarse clock | `Get`, `Set`, `Delete`, `Clear`, sweep, `Close` | copies of a key in both levels, slots reused, sweeps and clears that hold one lock at a time | no deleted or expired value comes back |
| `sonnet-cache-v2/store/lru.go`, `cache.go` | list, map, expiry times, byte account; lazily made store, `closed` | `Get`, `Set`, `Delete`, `Clear`, `evict`, sweep, `Close` | lock upgrades, asynchronous deletes, closing under operations | list, map and account agree; a closed cache stays closed |
| `sonnet-cache-v2/group.go` | loader, table of groups | `Get`, `load`, `Set`, `Delete`, `syncToPeers`, `Close`, `DestroyGroup` | Gets of several nodes wait for each other, propagation without an owner | every Get returns; a propagated write stops |
| `sonnet-cache-v2/consistent_hash`, `peers.go`, `registry`, `server.go`, `client.go` | hash ring with counts, table of clients; the node's key in etcd under a lease | discovery, watch events, `PickPeer`, `Register`, rebalancing; `Get`, `Set`, `Delete` over gRPC | start, registration, crash and restart against fetch and watch; colliding hashes; rebalancing takes its own lock | a node never calls itself; keys go to the nearest virtual node |
| `sonnet-cache` (core, lru, ring, http) | LRU cache, groups, ring | `Get`, `load`, `PickPeer` | look-up and load are not atomic | – |
| `sonnet-ai` | agents per user and session, message history, queue to the database; one document per user with its index | chat, history, restart; upload, retrieval | unlocked history, asynchronous persistence, uploads in many steps | messages are not doubled, agents remember, questions use the latest document |
| `sonnet-ai-fe` | chat state of the page | switch session, send, stream, history | a stream outlives the session it was started in | each session shows its own messages; the input comes back |
| `sonnet-orm`, `sonnet-web` | session with clause, transaction; trie of routes, handler chain | statements, transactions, migration; routing | state left over between calls | – |

How they interact: `InvokeAsync` is called by users and calls registry, breaker, pool and transport; a
future's completion calls back into the breaker. The cache group calls single flight, which
calls the loader and then the store; `Lru2Store` runs its two `cache` objects under one
bucket lock. A group of cache-v2 that misses asks its picker for a peer and sends it a request;
the peer's server calls the same `Group.Get`. A picker leaves its own address out of its ring, so
`PickPeer` never answers "self": every node that misses asks another one, and only an answer
from a cache, an error or the 3 s deadline of a request ends such a chain. Addresses reach the pickers through etcd.
The v1 client's goroutines share a `Client` with one receiver; its server answers a connection's
requests from one goroutine each. The chat page talks to the handlers over HTTP; a handler
appends to its agent and publishes each message to Kafka, whose consumer (in the same process) stores
it; after a restart the agents are rebuilt from the database.

## 2. Modules

| module | models | state and actions |
|---|---|---|
| `RpcClient` | `sonnet-rpc/client.go`, the error behaviour of `codec/gob.go` | one variable per field of `Client`; one action per critical section, channel send or codec call. `sending` is recorded with its holder because it is held across steps |
| `RpcServer` | dialling in `client.go`, `server.go` | one connection from the dial on: the dialler and its goroutine, the server's read loop, and per request the goroutine of `handleRequest` and that of the method, which meet in unbuffered channels. A response is a header and a body; one that gob cannot encode is a header and the end of the connection |
| `RpcRegistry` | `registry.go`, `discovery*.go`, `client/client.go` | start times in minutes, tickers, the discovery's copy, the client's connections, and a Broadcast with one goroutine per server |
| `CircuitBreaker` | `breaker.go` | one action per method (each runs under the mutex) |
| `RpcInvoke` | `InvokeAsync`, `Future.OnComplete`, `Future.Done` | extends `CircuitBreaker`; where each invocation is, and which were admitted in the current half-open period |
| `RpcPool` | `tcp_connection_pool.go`, pools of `client.go` | the list of each pool; `Scan` is the loop of `Acquire`, iteration by iteration |
| `RpcDirectory` | rpc-v2 `registry.go` | etcd, the feed of its watch, the cache, and the RWMutex with its waiting writer, since that is what the nested read lock meets |
| `RpcTransport` | `tcp_client.go`, `future.go` | one action per atomic operation: the check of `closed`, `Store`, write, `Delete`, the CAS, the close, each load, `Done` and delete of `Range`, `LoadAndDelete` |
| `RpcServerV2` | rpc-v2 `server.go`, `handler.go`, `tcp_connection.go`, `token_bucket.go` | per connection the units on the way, the packet buffer, the message in hand and the replies; `s.conns`, and Shutdown closing one connection at a time |
| `SingleFlight` | `sonnet-cache/single_flight` | one action per critical section |
| `SingleFlightV2` | `sonnet-cache-v2/single_flight` | extends it; `Load` and `Store` apart |
| `Lru2Ops`, `Lru2List` | what the internal `cache` of `lru2.go` promises | a list, most recent first, deleted nodes at the tail |
| `Lru2Cache` | that `cache` as it is built | arrays and indexes; `adjust` assignment by assignment; refines `Lru2List` |
| `Lru2Store` | the store of `lru2.go` | two lists per bucket (`Lru2Ops`); one action per hold of a bucket lock |
| `LruStore` | the store of `lru.go` over `container/list` | operators: the store after an operation under its lock, with next and prev pointers |
| `CacheNode` | `cache.go` over `LruStore` | goroutines in Add, Get, Delete or Clear, late deletes, the sweep, Close; one action per hold of the store's lock |
| `HashRing` | `consistent_hash.go` | sorted hashes, the map, the counts; `Add` adds whatever it is given, `SetPeer` is the picker, which looks first whether it has the address; Get in two steps, because it writes a map under a read lock; the balancer |
| `GroupTable` | the table of `group.go` | the mutex with its holder, Close, DestroyGroup, DestroyAllGroups |
| `CacheCluster` | cache-v2 `group.go`, `cache.go`, `peers.go`, `server.go`, `client.go`, `registry/register.go`, the look-up of the hash ring, and `single_flight` inside the group | nodes with their rings, caches and loader maps, etcd and the watch events under way; each Get and each handler of a forwarded Get is a task with a program counter, one action per step of `Get`, `Do`, `loadData`; propagations are records in `sync` |
| `ChatBackend` | `controller/session`, `service/session`, `ai_agent`, `kafka`, `main.go` | handlers with a program counter, the history of each agent, queue, consumer, database; crash and restart |
| `ChatPage` | `use-chat.ts` | extends `ChatBackend`; what the page shows and caches, and what each request captured; another page of the same user, which only asks |
| `RagUpload` | `service/file`, `rag.go`, the indexes of `redis.go` | the directory and the indexes; uploads and questions step by step |
| `MC*` | – | constants for TLC; `MCRpcServices`, `MCRpcV2`, `MCLoadStore`, `MCCacheNode` and `MCChat` put several modules into one run, each explored on its own: `Init` chooses which one moves |
| `*_proofs` | – | theorems; section 4 says which module is about what |

What is abstracted: payloads, formatting and logging; a call stands for its request id in
`RpcTransport` (ids come from an atomic counter); errors are one value; time is a small
counter. In `CacheCluster` the ring is, per key, the order in which its nodes follow the key's hash,
the local store maps keys to values and may forget any, and fetching and dialling the peers is
one step. In `RpcServerV2` a message is a run of units of which the first tells the length; the
model answers a question in one chunk. Unsynchronised Go maps are modelled by what the runtime does with them:
the access may end the process. An unlocked `append` is a read and a write, and several that start from one
slice share its array (`Outcomes` in `ChatBackend`); the header of a slice is written in one step, so a torn one is left out. Definitions introduced
as *faulty variant* are deliberate mistakes next to the definition they alter. No specification uses
them: they show that the property meant to catch the mistake does catch it.

## 3. Runs

| run | shows |
|---|---|
| `rpc_client` | three calls (two on a shared Done channel of capacity 1, one with `Call` and a timeout), write errors, silent loss after a dropped `Flush` error, `Close`, broken connection: `AtMostOnce`, `NoCallLost`, `RepliesMatch`, `BrokenCompletes` |
| `rpc_services` | `RpcServer` with two requests of any kind (fine, unknown, garbled, hanging, with a reply that gob cannot encode), plain or over HTTP with both timeouts: `AnsweredOnce`, `NoConnLeft`, `RequestsEnd`; `RpcRegistry` with two servers: `DiscoveryAccurate`, `BroadcastHonest` |
| `transport` | three requests on one connection: `NoFutureHangs`, `DoubleDoneOnlyBySender`, `BrokenCompletes` |
| `transport_close` | violated: after `Close` pending futures never complete |
| `rpc_v2` | three invocations against one breaker, with probes that may be lost: `OpensInTime`, `KeepsAdmitting`; two pools: `PoolKeepsTrack`; two callers of Discover and the watcher: `CacheTracksEtcd`, `DiscoverEnds`; a server with two connections: `OneAnswerEach`, `ShutdownLeavesLate` |
| `breaker_probe` | violated: two requests probe a half-open service at once |
| `load_store` | four callers, two keys, both versions of `Do`: `OneInFlight`, `EntryOwned`, `SameResult`, `CallersServed`; two keys in the two-level store, levels of one slot: `StoreSound` (`NoResurrection`, `OneHome`, `Level1Newest`, `NoExpiredHit`, `ClearEmpties` and the type), `ExpiredLeave` |
| `cache_cluster` | three set-ups of a cluster: `NoSelfCall`, `SetNotResent`, `GetsReturn` |
| `cache_delete_relay` | violated: a Delete propagated by a peer is propagated again |
| `cache_node` | the local cache with two goroutines: `ListAgrees`, `CloseIsFinal`; the internal cache of `lru2.go` with four keys in three slots: `WellFormed` and refinement of `Lru2List` (`ImplementsList`); the ring with two nodes that share a hash: `RingRoutes`; ring and table of groups: `CallsEnd` |
| `group_destroy` | violated: DestroyGroup on an open group never returns |
| `chat` | page and backend with two requests in two sessions, in six configurations (moving about; errors; crash and restart; all of it with one request; a request of the page beside one of another page; two of another page, with errors): `NoMoreThanPublished`, `SavedIsRemembered`, `ShownBelongs`, `LoadingEnds`; two uploads and a question: `NoOrphanIndex`, `AnsweredFromLatest` |

Notes on results that are easy to misread, and behaviour of the code that the properties have to except:

* rpc v1. The body of a request for an unknown method is not read (`server.go:139`), so it is taken for the
  next header and the connection ends. The JSON decoder of the options reads ahead and may swallow the
  first requests (`server.go:55`). `RequestsEnd` excepts both. When a reply cannot be encoded, `GobCodec.Write` has sent its
  header already and closes the connection (`gob.go:37-57`): neither this request nor the others being handled get an answer. `AnsweredOnce`
  and `RequestsEnd` except this under the name `CutShort`, and say that nothing is sent after that header. Options with a wrong magic number or an unknown codec, with
  which the server hangs up at once, are never sent by the client of the repository. A request that times out leaves the goroutine
  of its method blocked for good (`server.go:172`); that is also what keeps it from answering twice. One failed
  heartbeat ends the loop of a server for good (`registry.go:108`); `DiscoveryAccurate` speaks of servers
  that never missed one. A Broadcast to an empty list returns nil and no reply.
* rpc v2. The comment in `Allow` promises one probe (`breaker.go:64`). The request that turns Open into HalfOpen is not counted by
  `halfOpenProbe`, so there may be two (`OneProbe` is violated); a theorem shows that there are never more (`AtMostTwoProbes`). `InvokeAsync` returns
  without a report when `Acquire` or `Marshal` fails (`client.go:65-73`), and `Done` may run before `OnComplete`:
  `halfOpenProbe` then stays set and the breaker rejects for good, which `KeepsAdmitting` excepts.
  `OpensInTime` bounds failures by two windows, not one: `RecordSuccess` never evaluates the
  window, so a failure may meet a window overfull of successes and reset it.
* A future can be completed twice (and `close` of a closed channel then panics) when a
  sender's `fail` has loaded a future that `readLoop` has just removed. The model stops at
  such a panic; `DoubleDoneOnlyBySender` says that no other path leads there.
* `Discover` takes the read lock a second time in `copyInstances` (`registry.go:82, 159`); with a writer waiting
  in between both wait for ever. `DiscoverEnds` says that this is the only way it can hang, and so nothing about this way. Changes in etcd
  between the first `Get` and the watch, or while the watch reconnects, are missed; `CacheTracksEtcd` excepts them.
* The rpc-v2 server: a request for an unknown service makes reflection panic, which ends the process
  (`handler.go:84`); so may the unlocked map, and a second Shutdown.
* `Acquire` passes over the connection behind a dead one (`tcp_connection_pool.go:61`); it may dial although a
  live connection was there, but `PoolKeepsTrack` shows that the pool neither outgrows its limit nor loses one.
* single flight v2: two callers that both Load before either Stores execute `fn` at the same time, against the
  comment at `single_flight.go:19`. `CallersServed` says what remains.
* In `Lru2Store` the sweep deletes both copies of a key when either has expired, and a
  first-level eviction drops the item instead of moving it to level 2, where `lru2_test.go:433-439` expects it. A Set leaves an older copy of the key in
  level 2; when level 1 evicts the new one, Get returns the old one (`lru2.go:110`). `StoreSound` therefore
  promises that level 1 is the newest, not that Get is.
* `LruStore`: `list.Init` in `Clear` leaves elements claiming to be in the list, and a Get that holds one would link
  it into the new list. Only `Cache.mu`, held by `Cache.Get` and `Cache.Clear`, prevents it: `ListAgrees`
  fails when `Clear` shares it (`ClearShared`). A late delete of an expired item (`lru.go:68`) may remove a fresh
  value. Updating a key does not evict, so the byte limit can be exceeded until the next new key.
* An Add that passed the check of `closed` before `Close` panics on the dropped store or makes a new one that
  nobody closes; `CloseIsFinal` excepts operations that were under way, so it is silent about that race.
* `HashRing`: after 1000 requests on an uneven ring `rebalanceNodes` calls `Remove` with the mutex held and waits
  for itself; `CallsEnd` excepts this. `Add` appends the virtual nodes of a node it has
  already; the picker does so only when two services whose names begin alike live at one address, and `SetPeer` leaves that out. Where two nodes share a hash, removing one leaves nobody there.
* `DestroyGroup` and `DestroyAllGroups` wait for themselves when the group is still open (`group.go:408`, `268`); `DestroyReturns` is violated, and `CallsEnd` excepts the calls that then wait;
  closing an older group of a name takes the newer one out of the table.
* `SetNotResent` rests on the mark that `Server.Set` puts into the context (`server.go:180-183`): in the model that is the difference
  between `ServeSet`, which has no propagation, and `ClientSet`; the mark itself is not a field.
* `GetsReturn` holds only because `Client.Get` has a deadline. Without it (`NoDeadline`) two nodes
  that miss a key together wait for each other for ever: the load of A for a handler of B, which
  waits for the load of B, and so on round.
* etcd's event of a deletion carries no value, so `handleWatchEvents` looks for the address `""`
  and removes nobody: nodes that went down stay on the rings. `GetsReturn` covers requests to them.
* A node whose address is given as `":port"` registers as `"ip:port"` and does not recognise
  itself; `NoSelfCall` speaks of the others, `GetsReturn` of both.
* A load that began before a `Set` or `Delete` may store its old value afterwards; the model has
  this behaviour and no property forbids it, since nothing in the repository promises otherwise.
* Chat. The offset of a message is committed before it is stored, so a crash loses it, and never doubles it
  (`NoMoreThanPublished`). `AddMessage` appends without a lock. One page waits for its answer, but two pages may ask in one session, and then
  a message can be lost from the agent although it was saved: the run reaches such states. `SavedIsRemembered` excepts exactly the messages whose `AddMessage` met another
  one of the session (`raced`), and none that was there before or comes after. Hertz does not evaluate `binding:"required"`, so a question asked
  outside a session (`Nowhere`) is answered, by an agent of the empty session. The list of sessions carries `sessionId` where the page requires `session_id`, so refreshing it clears
  the list. What arrives late is shown under whatever session is current; `ShownBelongs` speaks of a user who waits, and
  then compares what is shown with the agent's memory; actions while something is in flight, questions asked nowhere and other pages are excepted (`overlap`). A rejected request that is not streamed leaves the input
  disabled, and a chunk that meets an empty list throws: the two exceptions of `LoadingEnds`.
* Uploads. "One file per user" holds for uploads one after the other. When `NewRAGIndexer` fails after it made the
  index, nobody drops it: `left` in `NoOrphanIndex`. `FT.DROPINDEX` is called without `DD`, so the documents of a
  dropped index stay in Redis; `NoOrphanIndex` speaks of indexes.

### Bounds

Three calls are the least number for which one fills the shared Done channel, one waits for
it and a third is withdrawn by its context. Two requests on a server connection let a refused one stand before or
behind a slow one. `RpcRegistry` counts to `MaxTime` = 4 with a `Timeout` of 2, so that an entry expires and is renewed;
calls are explored without the clock. A window of 3 and three requests let stale
results arrive in every breaker state; `MaxSuccesses` caps `successCount`, which nothing in the
code limits, past the window, where only its being large matters. Pools of two connections with four to make: all
may be dead, or the second behind a dead first. Three changes in etcd (`MaxEvents`) let one fall before, one into and one
after the gap of a watch. Two messages of two units on one connection are cut in every way; the other connection is there for
Shutdown and the map. `MaxFills` bounds the refills of the token bucket. Three requests on a
connection give a failing sender, a stored and an answered request. Three slots exercise
`adjust` at the head, at the tail and in the middle, the fourth key reuses a slot; the second value is put for one key only (`OneKeyVaries`), since values are never compared. Of the four
callers of single flight the first has the first key: the keys can be exchanged. In
`Lru2Store` three Sets let an update be lost; with levels of one slot every Set of the
other key evicts; the clock's two instants are before and at an item's expiration. In `CacheNode` one goroutine gets and the other
does everything else, with room for two bytes and values of one or two; four elements are one for each key and each goroutine (`CacheAssumption`), more than are ever
in use; `MaxDeletes` bounds the late deletes under way. `HashRing` takes 2
requests for the 1000 of the code, and stops asking at `MaxRequests`. `CacheCluster` chooses in `Init` between
three configurations of two nodes, because their product is too large: two readers while both nodes are
up (the circle of waits); a reader and a writer with chains of two requests, the shortest that return
to the node they started at, with and without an alias; a reader and a writer while one of the nodes
starts, registers, crashes and comes back. `hops` bounds chains of
requests, `MaxCrashes` the crashes. Its ring is taken before its 1000th look-up, up to which
`checkAndRebalance` returns at once. In `ChatPage` a `setup` bounds requests of the page and of another page (`others`), clicks (`moves`), crashes and copies of a published
message, and says whether anything may fail; `MaxEnds` bounds the ends of the process in `RagUpload`. The theorems
below hold without bounds.

### Fairness

Only what Go's scheduler gives: a goroutine that can take its next step eventually does, and
a mutex is eventually handed to a waiter (the runtime's starvation mode; strong fairness where others may
take the mutex in between). In `RpcClient` the
owner of a shared Done channel keeps receiving, whatever locks are held: an owner who would first call `Close` or `Go` is assumed away. Nothing is
assumed of peers, `Close`, contexts or connections. In `RpcServer` the timer of a request fires; nothing is assumed of its
method beyond what its kind says. `fn` of single flight is assumed to
return or panic. The sweep's ticker fires until `Close`. In `CacheCluster` each task takes
its steps, which includes that the timer of a request fires and that the getter returns; nothing is
assumed of etcd, of starts and crashes, or of the delivery of requests. In `ChatPage` the model answers or fails, and the page reads
what has arrived. `RpcDirectory` assumes nothing of etcd and the watch, only that the watcher finishes an event it has begun.

Deadlock checking is off where every goroutine may come to its end (all calls returned, the
connection dead, the bounds of a configuration used up) or, in `RpcInvoke`, where the stuck half-open breaker stops everything.

## 4. Proofs

All for every value of the constants: any number of calls, callers, keys, sessions, messages,
requests and servers, any window, threshold, timeout and capacity. What there is one of in a module stays one: one connection in `RpcServer` and
`RpcTransport`, one registry, discovery and client in `RpcRegistry`, one breaker.

* `RpcClient_proofs`: `Accounting` (`IInv`), and from it `CompletedAtMostOnce`,
  `CallsNeverLost`, `RepliesNeverCrossed`. None of the three is inductive alone. `IInv` adds who
  holds which mutex (`Locks`: a sender between Write and `removeCall` excludes
  `terminateCalls` because both hold `sending`), that a number belongs to one call and travels
  with its request (`Numbers`), and that each issued call is owned by its sender, the pending
  map, the receiver or the terminator, by one of them only (`Ownership`).
* `RpcServices_proofs`: for the connections and server of rpc v1 `ConnInvAlways`, `AnsweredOnceAlways`,
  `NoConnLeftAlways`; for registry, discovery and broadcast `RegistryInvAlways`, `DiscoveryAccurateAlways`,
  `BroadcastHonestAlways`. `ConnInv` has who may still answer a request (`PhasesKept`: the goroutine of a request that
  timed out stays blocked), that headers and bodies alternate in what was written, and that a reply gob cannot encode ends it (`FramesKept`, `BodiesKept`), and which end of
  the connection is open when (`EndsKept`). `RegistryInv` has how old a beat on the list can be (`BeatKept`) and what a
  client's copy was when it was taken (`CopyWasAlive`).
* `RpcV2_proofs`: rpc v2 but for its transport.
  Breaker: `BreakerSafe` (`BreakerInv`), `OpensInTimeAlways`, `TwoProbesAlways`. The strengthening `Window` says how a run
  of failures relates to the counters: after a reset within the run the window holds failures only, and
  cannot be reset again.
  Pools: `PoolInvAlways`, `PoolKeepsTrackAlways`; the loop of `Acquire` is followed connection by connection (`ScanKept`).
  Registry cache: `DirInvAlways`, `CacheTracksEtcdAlways`; `Tracks` says of each address what becomes of it once the events under way
  are applied, in their order.
  Server: `ServerInvAlways`, `OneAnswerEachAlways`, `ShutdownLeavesLateAlways`; `SenderKept` and `PlacesKept` say where the units of
  each message are between the sender, the pipe, the buffer of the decoder and the handler.
* `RpcTransport_proofs`: `FuturesTracked` (`IInv`), `NoFutureHangsAlways`,
  `PendingDrainsAlways`, `DoubleDoneBySenderAlways`. `Phases` ties the steps of `fail` to who runs
  it, `Tracking` says where an incomplete future can be (stored ones of a returned SendAsync were
  there when Range began, because the connection was closed first), `SoleOwner` that two parties
  hold a future only if a sender runs `fail`.
* `LoadStore_proofs`: how the caches load and store. Single flight: `MapConsistent` (`IInv`), `OneInFlightAlways`, `EntryOwnedAlways`,
  `SameResultAlways`; `V2ResultsSound` for the version without a mutex, where only the part of
  the invariant that does not speak of the map's owner remains.
  Two-level store: `StoreSoundAlways`. What `put`, `get`, `del` and the sweep do to a list is first said position by position, then as a relation
  between sets of nodes (`Entered`, `Shrunk`), so that the actions are reasoned about without positions. `StoreInv` adds to `StoreSound` that a list has no key
  twice and only keys of its bucket (`Levels`), that a value belongs to one key wherever its copies are (`KeyedValues`, without which an eviction in one bucket
  could report what lives in another), that histories stay below the number of Sets (`Histories`), and what is present in the
  buckets that a running Clear has already collected (`ClearTracks`).
* `LocalCache_proofs`: what a node of cache v2 keeps for itself.
  `Lru2WellFormedAlways` and the refinement `Lru2ImplementsList` for the internal cache of `lru2.go`. `LinkedList` is not inductive: that links mirror
  each other does not say that they form one circle. `Lru2Inv` therefore claims an order `o` of the slots in use that the links follow (`Laid`).
  `AdjustIs` sums up the six assignments of `adjust`, `AdjustMoves` shows that they move one slot of that order to the front; to the tail is the same read
  from the other end (`Reversed`). `OrderIs` shows that the recursive `Order` of the model meets `o`. For the refinement the list operators are put
  position by position (`FindAt`, `HeadedIs`, `ReusedIs`, `TailedIs`), and each operation is shown to do to `m[o[1]], m[o[2]], ...` what
  `Lru2List` does to its list, with the same answer and the same eviction.
  `CloseIsFinalAlways` for `CacheNode`: `CloseInv` says that once the cache is closed with nothing under way only Gets with their element in hand remain,
  and that these keep `Close` from dropping the store.
  `ListAgreesAlways` for `LruStore` under `CacheNode`, over any number of goroutines, keys, sizes and bytes allowed. `KeepInv` says that there is a store that fits
  (`StoreFits`) while there is one at all or a Get has its element in hand: the latter, because a Get moves its element without looking whether the store is
  still there, which only `Cache.mu` guarantees. A store fits if its elements have an order in which `next` leads from the root through each of them back to the root
  and `prev` the other way (`Circle`), if the map's elements are those (`ItemsFit`) and `used` is the sum of their sizes (`Bytes`). `CircleWithout` and
  `CircleWith` show that list.Remove and list.PushBack keep such an order; an operation of the store is put together from them. After a Clear the store
  fits only if no one holds an element of the old list. `FreeIs` counts elements: one that is neither in the list nor held exists.
  The sum over a set is reached by taking away an element at a time (`BytesWithout`), by least counterexample among finite sets (`LeastSet`).
* `CacheCluster_proofs`: `ClusterSafe`, that is `ClusterInv`, `NoSelfCall` and `SetNotResent`
  together, for any number of nodes, keys, clients, hops and crashes, and `SetNotResentAlways`. `FlightOwned` (a call in the map
  belongs to a load that will still remove it) needs `WaitersFollow` and `Placed` for the values
  waiters take over; `NoSelfCall` needs `OwnRing`, kept by fetch and watch, and the lemma
  `PickPeerOnRing`: the minimum in `PickPeer` exists, by well-founded induction on distances.
  Hash ring: `RingRoutesAlways`. `RingRoutes` is not inductive: what `Remove` leaves depends on how often a hash is on the list, and two virtual nodes may
  share one. `RingInv` therefore claims a bijection between the places of the list and the virtual nodes of the nodes present (`Holds`); removing the first key with a
  hash takes away one virtual node with that hash, and any may be taken for the one meant because equal hashes can change places (`Swapped`). The order
  `sort.Ints` chooses exists by inserting place after place (`Inserted`) and, being injective on a finite set, leaves no place out (`OrderingOnto`).
* `Chat_proofs`: documents: `RagInvAlways`, `NoOrphanIndexAlways`, `AnsweredFromLatestAlways`, with what each step of an upload that runs alone has already done
  (`RagKept`). Chat: `ChatInvAlways`, `NoMoreThanPublishedAlways`, `SavedIsRememberedAlways`. The copies of a message in the topic, in the reader and in the
  database are counted together (`QueueInv`); `UnracedAlone` says that a message being added outside `raced` is alone in its session, from which follows that
  its place in the slice is not contested, and `Kept` and `Held` what of the history a request between the two steps of `AddMessage` has seen; `AgentInv` says which messages of a request its session's agent has at each of its steps, also
  after `readDataFromDB` has rebuilt the agents from the database. Page: `ShownBelongsAlways`. `CalmInv` speaks of a session in which no request has
  failed and no two have overlapped: its history is a sequence of whole turns in the order of their requests (`Turns`, `InOrder`), the list the page
  caches fits it (`CachedFit`), also while nothing of the session is under way (`AtRest`), and of the request that is open
  it says what the page has heard of it, what is on its way and what it displays. Every message has a rank (its request's number, the
  question before the answer), and two sequences that are ordered by rank and have the same elements are equal.

Recursive functions (`Scan`, `Rebuild`, `Order`, the loops of the sweep and of `evict`, the tables behind a sum over a set) are reasoned about by least counterexample: that the function exists and that every value of it
has the property follow from the well-foundedness of `<` on `Nat`, or of inclusion on finite sets (`WFMin`).

Assumptions on constants are those named `...Assumption` in the modules; TLC evaluates
them in the runs. Apart from limits of the code (a capacity of at least one, thresholds between 0 and 1) they say that what stands for nil is no
value of another kind, that the goroutines and keys of a local cache are finitely many and memory never ends before its list does, and that the requests of the chat page are numbered in the order in which they are sent.

Only model-checked: all liveness (`BrokenCompletes`, `RequestsEnd`, `KeepsAdmitting`, `DiscoverEnds`,
`CallersServed`, `ExpiredLeave`, `GetsReturn`, `CallsEnd`, `LoadingEnds`), which this prover does not
reach. Every invariant that a run checks is stated by a theorem.

## 5. Plan, and what is not modelled

Not modelled:

* Load balancers of rpc v2: each `Select` is one step on one counter.
* cache v1 core, LRU, ring and HTTP pool: a subset of what the modules of cache v2 cover, under one mutex.
* ORM and web framework: sequential code whose substance is the text of statements and routes. The transaction of
  a session is never reset after Commit or Rollback (`transaction.go:18`), so later statements of that session
  run on a finished transaction.
* Registration of services by reflection, codecs, compression and the byte layout of headers.
* `GetWithExpiration`, `UpdateExpiration` and `SetMaxBytes` of `lru.go`, which nobody calls; `ClientPicker.Close`,
  `Server.Stop` and `Registry.Close`, which end a process; statistics.
* Accounts, images, tools and speech of the AI backend: chains of calls to external services.
* Generated protobuf code, configuration, command-line entry points,
  presentation components of the frontend, thin wrappers over gRPC, etcd, Redis, MySQL and
  the model providers: they keep no state of their own that a property could speak of.
