---------------------------- MODULE RpcDirectory ----------------------------
(***************************************************************************)
(* The registry of sonnet-rpc-v2 (internal/registry/registry.go): servers  *)
(* put their address into etcd under a lease; a client builds a cache of   *)
(* the instances of a service at the first Discover and keeps it up to     *)
(* date with a watch.  etcd is external: it delivers the changes after a   *)
(* watch is set up, in order.                                              *)
(*                                                                         *)
(* The mutex is Go's RWMutex: a writer that waits keeps new readers out,   *)
(* also one that holds the read lock already.                              *)
(***************************************************************************)
EXTENDS Naturals, Sequences, FiniteSets

CONSTANTS Addrs, Finders,   \* goroutines that call Discover
          Watcher, None, MaxEvents

VARIABLES
  etcd,      \* addresses registered
  changes,   \* changes so far
  feed,      \* changes the watch has not been given
  cache,     \* services[service], None before initService
  watch,     \* "off", "starting", "on", "lost"
  event,     \* the event the watcher applies
  pc,        \* Discover
  reads,     \* read locks held by each finder
  writer,    \* the writer that waits for or holds the lock
  missed     \* history: etcd changed after the cache was built and before a watch was set up

vars == <<etcd, changes, feed, cache, watch, event, pc, reads, writer, missed>>

Init ==
  /\ etcd \in SUBSET Addrs /\ changes = 0 /\ feed = <<>>
  /\ cache = None /\ watch = "off" /\ event = None
  /\ pc = [f \in Finders |-> "idle"] /\ reads = [f \in Finders |-> 0] /\ writer = None
  /\ missed = FALSE

-----------------------------------------------------------------------------
\* Register puts the address; it goes when its lease is not kept alive.
Change(a, put) ==
  /\ changes < MaxEvents /\ changes' = changes + 1
  /\ etcd' = IF put THEN etcd \cup {a} ELSE etcd \ {a}
  /\ feed' = IF watch = "on" THEN Append(feed, [addr |-> a, put |-> put]) ELSE feed
  /\ missed' = (missed \/ (cache # None /\ watch # "on"))
  /\ UNCHANGED <<cache, watch, event, pc, reads, writer>>

Register(a) == a \notin etcd /\ Change(a, TRUE)
Expire(a) == a \in etcd /\ Change(a, FALSE)

RLock(f) == writer = None /\ reads' = [reads EXCEPT ![f] = @ + 1]
RUnlockAll(f) == reads' = [reads EXCEPT ![f] = 0]
NoReader == \A f \in Finders : reads[f] = 0
Goto(f, to) == pc' = [pc EXCEPT ![f] = to]

directory == <<etcd, changes, feed, missed>>

\* Discover: with a cache the read lock is kept while copyInstances takes it again.
Discover(f) ==
  /\ \/ /\ pc[f] = "idle" /\ RLock(f)
        /\ Goto(f, IF cache = None THEN "miss" ELSE "copy") /\ UNCHANGED writer
     \/ /\ pc[f] = "miss" /\ RUnlockAll(f) /\ Goto(f, "init") /\ UNCHANGED writer
     \/ /\ pc[f] = "init" /\ writer = None /\ writer' = f
        /\ Goto(f, "lock") /\ UNCHANGED reads
     \/ /\ pc[f] = "copy" /\ RLock(f) /\ Goto(f, "copied") /\ UNCHANGED writer
     \/ /\ pc[f] = "copied" /\ RUnlockAll(f) /\ Goto(f, "done") /\ UNCHANGED writer
  /\ UNCHANGED <<directory, cache, watch, event>>

\* Faulty variant: the second caller finds the cache and returns with the lock.
InitServiceKeepsLock(f) ==
  /\ pc[f] = "lock" /\ NoReader
  /\ \/ cache # None /\ Goto(f, "copy") /\ UNCHANGED <<cache, watch, writer>>
     \/ cache = None /\ Goto(f, "copy") /\ cache' = etcd /\ watch' = "starting" /\ writer' = None
     \/ cache = None /\ Goto(f, "done") /\ UNCHANGED <<cache, watch>> /\ writer' = None
  /\ UNCHANGED <<directory, event, reads>>

\* initService, with the write lock held: Get, then the watcher is started; an
\* error of Get is Discover's.
InitService(f) ==
  /\ pc[f] = "lock" /\ NoReader
  /\ writer' = None
  /\ \/ cache # None /\ Goto(f, "copy") /\ UNCHANGED <<cache, watch>>
     \/ cache = None /\ Goto(f, "copy") /\ cache' = etcd /\ watch' = "starting"
     \/ cache = None /\ Goto(f, "done") /\ UNCHANGED <<cache, watch>>
  /\ UNCHANGED <<directory, event, reads>>

\* The watch is set up from now on, breaks, and is set up again a second later.
StartWatch ==
  /\ watch \in {"starting", "lost"} /\ watch' = "on"
  /\ UNCHANGED <<directory, cache, event, pc, reads, writer>>

BreakWatch ==
  /\ watch = "on" /\ event = None /\ feed' = <<>> /\ watch' = "lost"
  /\ missed' = (missed \/ feed # <<>>)
  /\ UNCHANGED <<etcd, changes, cache, event, pc, reads, writer>>

\* An event: the lock is asked for, then the cache changed.
TakeEvent ==
  /\ watch = "on" /\ event = None /\ feed # <<>> /\ writer = None
  /\ event' = Head(feed) /\ feed' = Tail(feed) /\ writer' = Watcher
  /\ UNCHANGED <<etcd, changes, missed, cache, watch, pc, reads>>

\* Faulty variant: an address that is deleted stays.
ApplyPuts ==
  /\ event # None /\ NoReader
  /\ cache' = IF event.put THEN cache \cup {event.addr} ELSE cache
  /\ event' = None /\ writer' = None
  /\ UNCHANGED <<directory, watch, pc, reads>>

ApplyEvent ==
  /\ event # None /\ NoReader
  /\ cache' = IF event.put THEN cache \cup {event.addr} ELSE cache \ {event.addr}
  /\ event' = None /\ writer' = None
  /\ UNCHANGED <<directory, watch, pc, reads>>

Finder(f) == Discover(f) \/ InitService(f)

Next ==
  \/ \E a \in Addrs : Register(a) \/ Expire(a)
  \/ \E f \in Finders : Finder(f)
  \/ StartWatch \/ BreakWatch \/ TakeEvent \/ ApplyEvent

\* Goroutines that can run do, and the mutex is granted in the end.
Fairness == (\A f \in Finders : SF_vars(Finder(f))) /\ WF_vars(ApplyEvent)

Spec == Init /\ [][Next]_vars /\ Fairness

-----------------------------------------------------------------------------
\* Properties.

\* While the watch is set up and has nothing left to apply, the cache is what etcd
\* holds, unless something changed in a moment without a watch
\* (registry.go:97-156): between Get and Watch, or before it reconnects.
CacheTracksEtcd ==
  (watch = "on" /\ feed = <<>> /\ event = None /\ ~missed) => cache = etcd

\* The nested read lock of Discover met a writer that waits for the outer one.
Nested == writer # None /\ \E f \in Finders : pc[f] = "copy" /\ reads[f] = 1

\* Discover returns, except through the lock it takes twice (registry.go:79-94,
\* 158-167): nothing else in the registry blocks it.
DiscoverEnds == \A f \in Finders : pc[f] = "miss" ~> (pc[f] = "done" \/ Nested)
=============================================================================
