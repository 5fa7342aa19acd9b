----------------------------- MODULE CacheNode -----------------------------
(***************************************************************************)
(* The local cache of a group in sonnet-cache-v2 (cache.go) over the LRU   *)
(* store, until it is closed.                                              *)
(*                                                                         *)
(* The cache has a mutex of its own, which Get holds from the look-up to   *)
(* the moment its element has been moved, and which Add does not take.     *)
(***************************************************************************)
EXTENDS LruStore, Sequences

CONSTANTS Procs, Sizes, MaxDeletes,
          Calls   \* what each goroutine calls: [at: "ensure" (Add), "get", "delete" or "clear", key]

\* There is always memory for one more element than are in the list or in a goroutine's hand.
ASSUME CacheAssumption ==
  /\ IsFiniteSet(EntryKeys) /\ IsFiniteSet(Elems) /\ IsFiniteSet(Procs)
  /\ Cardinality(Elems) >= Cardinality(EntryKeys) + Cardinality(Procs)
  /\ Root \notin Elems /\ None \notin Elems /\ MaxBytes \in Int /\ Sizes \subseteq Nat
  /\ Calls \in [Procs -> SUBSET [at : {"ensure", "get", "delete", "clear"}, key : EntryKeys \cup {None}]]
  /\ \A p \in Procs : \A call \in Calls[p] : call.at # "clear" => call.key \in EntryKeys

VARIABLES
  store,       \* c.store, None when there is none
  initialized, closed,
  pc,          \* [at, ...] of each goroutine
  deletes,     \* goroutines that will delete a key Get found expired
  crashed,     \* a nil store was used
  closing,     \* Close is waiting for the mutex
  raced        \* history: an operation was under way when the cache was closed

cacheVars == <<store, initialized, closed, deletes>>
nodeVars == <<cacheVars, pc, crashed, closing, raced>>

Idle == [at |-> "idle"]
At(p, at) == ~crashed /\ pc[p].at = at
Goto(p, to) == pc' = [pc EXCEPT ![p] = to]

CacheInit ==
  /\ store = None /\ initialized = FALSE /\ closed = FALSE
  /\ pc = [p \in Procs |-> Idle] /\ deletes = <<>> /\ crashed = FALSE
  /\ closing = FALSE /\ raced = FALSE

\* Goroutines that hold the cache's mutex for reading.
Readers == {p \in Procs : pc[p].at = "touch"}
Held(q) == {pc[p].elem : p \in Readers \ {q}}

\* The store as p leaves it.
Put(p, s) == store' = Collected(s, Held(p))

-----------------------------------------------------------------------------
\* Faulty variant: a closed cache is not recognised.
OpenAlways(at) == at # "ensure" => initialized

\* Add, Get, Delete and Clear first look at `closed', the last three at `initialized' too.
Open(at) == ~closed /\ (at # "ensure" => initialized)

Begin(p, call) ==
  /\ At(p, "idle") /\ Open(call.at) /\ Goto(p, call)
  /\ UNCHANGED <<cacheVars, crashed, closing, raced>>

\* ensureInitialized: one look without the mutex...
Ensure(p) ==
  /\ At(p, "ensure")
  /\ Goto(p, [pc[p] EXCEPT !.at = IF initialized THEN "set" ELSE "create"])
  /\ UNCHANGED <<cacheVars, crashed, closing, raced>>

\* ...and one with it.
Create(p) ==
  /\ At(p, "create") /\ Readers = {}
  /\ Goto(p, [pc[p] EXCEPT !.at = "set"])
  /\ store' = IF initialized THEN store ELSE NewStore
  /\ initialized' = TRUE
  /\ UNCHANGED <<closed, deletes, crashed, closing, raced>>

\* Add, AddWithExpiration: the store, without the mutex; a time in the past adds nothing.
Set(p) ==
  /\ At(p, "set") /\ Goto(p, Idle)
  /\ \/ /\ store # None
        /\ \E n \in Sizes, ttl \in BOOLEAN : Put(p, SetWithExpiration(store, pc[p].key, n, ttl, Free(store, Held(p))))
     \/ UNCHANGED store
  /\ UNCHANGED <<initialized, closed, deletes, crashed, closing, raced>>

\* Every method of a nil store panics.
NilStore(p) ==
  /\ ~crashed /\ pc[p].at \in {"set", "get", "delete", "clear"} /\ store = None
  /\ pc[p].at = "clear" => Readers = {}
  /\ crashed' = TRUE /\ Goto(p, Idle)
  /\ UNCHANGED <<cacheVars, closing, raced>>

\* Get: a miss, an expired item that a goroutine will delete, or an element in hand...
Look(p) ==
  LET k == pc[p].key IN
  /\ At(p, "get") /\ store # None
  /\ \/ store.items[k] = None /\ Goto(p, Idle) /\ UNCHANGED deletes
     \/ /\ store.items[k] # None /\ store.expires[k] = "past" /\ Len(deletes) < MaxDeletes
        /\ Goto(p, Idle) /\ deletes' = Append(deletes, k)
     \/ /\ store.items[k] # None /\ store.expires[k] # "past"
        /\ Goto(p, [at |-> "touch", key |-> k, elem |-> store.items[k]])
        /\ UNCHANGED deletes
  /\ UNCHANGED <<store, initialized, closed, crashed, closing, raced>>

\* ...which it moves in a second hold of the store's lock.
Touched(p) ==
  /\ At(p, "touch")
  /\ Put(p, Touch(store, pc[p].key, pc[p].elem)) /\ Goto(p, Idle)
  /\ UNCHANGED <<initialized, closed, deletes, crashed, closing, raced>>

DeleteKey(p) ==
  /\ At(p, "delete") /\ store # None
  /\ Put(p, Delete(store, pc[p].key)) /\ Goto(p, Idle)
  /\ UNCHANGED <<initialized, closed, deletes, crashed, closing, raced>>

\* Faulty variant: Clear shares the mutex with Get.
ClearShared(p) ==
  /\ At(p, "clear") /\ store # None
  /\ Put(p, Clear(store)) /\ Goto(p, Idle)
  /\ UNCHANGED <<initialized, closed, deletes, crashed, closing, raced>>

\* Clear waits for the Gets.
ClearAll(p) ==
  /\ At(p, "clear") /\ store # None /\ Readers = {}
  /\ Put(p, Clear(store)) /\ Goto(p, Idle)
  /\ UNCHANGED <<initialized, closed, deletes, crashed, closing, raced>>

\* The store's own goroutines: a late delete, the sweep, and time.
LateDelete(i) ==
  /\ ~crashed /\ store # None
  /\ deletes' = [j \in 1 .. Len(deletes) - 1 |-> deletes[IF j < i THEN j ELSE j + 1]]
  /\ Put(None, Delete(store, deletes[i]))
  /\ UNCHANGED <<initialized, closed, pc, crashed, closing, raced>>

Sweep ==
  /\ ~crashed /\ store # None
  /\ Put(None, evict(store))
  /\ UNCHANGED <<initialized, closed, deletes, pc, crashed, closing, raced>>

Expire(k) ==
  /\ store # None /\ store.expires[k] = "later"
  /\ store' = [store EXCEPT !.expires[k] = "past"]
  /\ UNCHANGED <<initialized, closed, deletes, pc, crashed, closing, raced>>

-----------------------------------------------------------------------------
\* Close: the first one marks the cache...
Close ==
  /\ ~crashed /\ ~closed /\ closed' = TRUE /\ closing' = TRUE
  /\ raced' = \E p \in Procs : pc[p].at \notin {"idle", "touch"}
  /\ UNCHANGED <<store, initialized, deletes, pc, crashed>>

\* ...and, with the mutex, closes and drops the store; late deletes change nothing any more.
DropStore ==
  /\ ~crashed /\ closing /\ closing' = FALSE /\ Readers = {}
  /\ store' = None /\ initialized' = FALSE /\ deletes' = <<>>
  /\ UNCHANGED <<closed, pc, crashed, raced>>

Call(p) ==
  \/ \E call \in Calls[p] : Begin(p, call)
  \/ Ensure(p) \/ Create(p) \/ Set(p) \/ Look(p) \/ Touched(p) \/ DeleteKey(p) \/ ClearAll(p) \/ NilStore(p)

CacheNext ==
  \/ \E p \in Procs : Call(p)
  \/ \E i \in DOMAIN deletes : LateDelete(i)
  \/ \E k \in EntryKeys : Expire(k)
  \/ Sweep \/ Close \/ DropStore

CacheSpec == CacheInit /\ [][CacheNext]_nodeVars

-----------------------------------------------------------------------------
\* Properties.

\* The elements met from the root on, in either direction.
Chain(f) == LET c[n \in 0 .. store.len + 1] == IF n = 0 THEN Root ELSE f[c[n - 1]] IN c

\* The list, the map, the expiry times and the account of bytes tell of the same
\* items, although a Get that found an element gives the lock away before it moves
\* it, items expire and are deleted late, and Clear drops the list under them
\* (lru.go:55-204): container/list would link an element of before a Clear
\* into the new list; that Cache.Get keeps Clear out is what prevents it
\* (cache.go:114-118, 178-181).
ListAgrees ==
  store # None =>
    LET live == {store.items[k] : k \in EntryKeys} \ {None} IN
    /\ store.len = Cardinality(live)
    /\ \A f \in {store.next, store.prev} :
         LET c == Chain(f) IN c[store.len + 1] = Root /\ {c[n] : n \in 1 .. store.len} = live
    /\ \A k \in EntryKeys : store.items[k] # None => store.key[store.items[k]] = k
    /\ \A k \in EntryKeys : store.expires[k] # "never" => store.items[k] # None
    /\ store.used = MapThenSumSet(LAMBDA e : store.size[e], live)

\* A cache stays closed: unless an operation was under way, which may use the
\* dropped store or make a new one that nobody closes, none panics or brings the
\* store back after Close (cache.go:89-100, 201-222).
CloseIsFinal ==
  (closed /\ ~closing /\ ~raced) => store = None /\ ~crashed
=============================================================================
