----------------------------- MODULE Lru2Store -----------------------------
(***************************************************************************)
(* The two-level store of sonnet-cache-v2/store/lru2.go: buckets, each     *)
(* with a lock, a first level filled by Set and a second level filled by   *)
(* the Get of a first-level item.  The levels are the lists of Lru2Ops,    *)
(* which Lru2Cache implements.  What runs under one hold of a bucket's     *)
(* lock is one action; Clear and the cleanup loop take the locks one after *)
(* the other, so the calls of others come in between.                      *)
(*                                                                         *)
(* The value of the n-th Set is n, so that a value tells which Set wrote   *)
(* it.  written, latest, floor, reported, got and since are history        *)
(* variables: no action is guarded by them but for the bound MaxWrites.    *)
(***************************************************************************)
EXTENDS Lru2Ops, FiniteSets

CONSTANTS
  Keys,
  NBuckets,     \* mask + 1
  Hash,         \* hashBKRD(key) & mask, as a bucket number from 1
  Cap1, Cap2,   \* CapPerBucket, Level2Cap
  TTLs,         \* expiration arguments, 0 stands for those <= 0
  MaxWrites,    \* bound on the number of Sets
  MaxTime       \* bound on the clock

ASSUME StoreAssumption ==
  /\ Hash \in [Keys -> 1 .. NBuckets]
  /\ {NBuckets, Cap1, Cap2} \subseteq Nat \ {0} /\ TTLs \subseteq Nat
  /\ MaxWrites \in Nat /\ MaxTime \in Nat \ {0}

VARIABLES
  l1, l2,       \* caches[b][0], caches[b][1] as lists
  now,          \* clock
  ticking,      \* cleanupTick is running
  clean,        \* cleanupLoop: currentTime, and the next bucket or 0
  clear,        \* Clear: the keys collected, and the next bucket or 0
  written,      \* number of Sets so far
  latest,       \* per key: its last Set, 0 if none
  floor,        \* per key: value of written at its last Delete
  reported,     \* values handed to onEvicted
  got,          \* the node returned by the call, if it was a Get that hit
  since         \* keys Set since the running Clear collected their bucket

store == <<l1, l2>>
vars == <<l1, l2, now, ticking, clean, clear, written, latest, floor, reported, got, since>>

Buckets == 1 .. NBuckets

Init ==
  /\ l1 = [b \in Buckets |-> <<>>] /\ l2 = [b \in Buckets |-> <<>>]
  /\ now = 1 /\ ticking = TRUE
  /\ clean = [t |-> 0, b |-> 0] /\ clear = [keys |-> {}, b |-> 0]
  /\ written = 0 /\ latest = [k \in Keys |-> 0] /\ floor = [k \in Keys |-> 0]
  /\ reported = {} /\ got = {} /\ since = {}

Vals(nodes) == {x.v : x \in nodes}
At(l, k) == l[Find(l, k)]

\* expireAt > 0 && currentTime >= expireAt
IsExpired(x, t) == x.expireAt > 0 /\ t >= x.expireAt

\* What delete tells onEvicted: the first level's value before the second's.
DeleteReports(b, k) ==
  IF Live(l1[b], k) THEN {At(l1[b], k).v}
  ELSE IF Live(l2[b], k) THEN {At(l2[b], k).v} ELSE {}

\* Faulty variant: the second level's copy stays.
DeleteLevel1(b, k) ==
  /\ l1' = [l1 EXCEPT ![b] = Del(@, k)]
  /\ reported' = reported \cup DeleteReports(b, k) /\ UNCHANGED l2

\* delete: both levels.
Delete(b, k) ==
  /\ l1' = [l1 EXCEPT ![b] = Del(@, k)]
  /\ l2' = [l2 EXCEPT ![b] = Del(@, k)]
  /\ reported' = reported \cup DeleteReports(b, k)

-----------------------------------------------------------------------------
\* SetWithExpiration.  The clock is read before the lock is taken: t is the
\* time at which the caller began to wait for it.
SetWithExpiration(k, ttl, t) ==
  LET b == Hash[k]
      v == written + 1
      e == IF ttl > 0 THEN t + ttl ELSE 0
  IN  /\ written < MaxWrites
      /\ written' = v /\ latest' = [latest EXCEPT ![k] = v]
      /\ l1' = [l1 EXCEPT ![b] = Put(@, Cap1, k, v, e)]
      /\ reported' = reported \cup Vals(Evicts(l1[b], Cap1, k))
      /\ since' = IF b < clear.b THEN since \cup {k} ELSE since
      /\ got' = {}
      /\ UNCHANGED <<l2, now, ticking, clean, clear, floor>>

\* Get, live in the first level and not expired: the item moves to the second.
GetMove(k) ==
  LET b == Hash[k]
      x == At(l1[b], k)
  IN  /\ Live(l1[b], k) /\ ~IsExpired(x, now)
      /\ l1' = [l1 EXCEPT ![b] = Del(@, k)]
      /\ l2' = [l2 EXCEPT ![b] = Put(@, Cap2, k, x.v, x.expireAt)]
      /\ reported' = reported \cup Vals(Evicts(l2[b], Cap2, k))
      /\ got' = {x}
      /\ UNCHANGED <<now, ticking, clean, clear, written, latest, floor, since>>

\* Get, live in the first level but expired.  del has already marked the first
\* level's node when delete runs, so only a copy in the second is reported.
GetExpired(k) ==
  LET b == Hash[k]
  IN  /\ Live(l1[b], k) /\ IsExpired(At(l1[b], k), now)
      /\ l1' = [l1 EXCEPT ![b] = Del(@, k)]
      /\ l2' = [l2 EXCEPT ![b] = Del(@, k)]
      /\ reported' = reported \cup (IF Live(l2[b], k) THEN {At(l2[b], k).v} ELSE {})
      /\ got' = {}
      /\ UNCHANGED <<now, ticking, clean, clear, written, latest, floor, since>>

\* Get, not in the first level: the second level's node is refreshed, whatever
\* its state, and returned if neither deleted nor expired.
GetLevel2(k) ==
  LET b == Hash[k]
  IN  /\ ~Live(l1[b], k)
      /\ l2' = [l2 EXCEPT ![b] = Touch(@, k)]
      /\ got' = IF Live(l2[b], k) /\ ~IsExpired(At(l2[b], k), now)
                THEN {At(l2[b], k)} ELSE {}
      /\ UNCHANGED <<l1, now, ticking, clean, clear, written, latest, floor, reported, since>>

\* Delete, the exported method.
DeleteKey(k) ==
  /\ Delete(Hash[k], k)
  /\ floor' = [floor EXCEPT ![k] = written] /\ got' = {}
  /\ UNCHANGED <<now, ticking, clean, clear, written, latest, since>>

-----------------------------------------------------------------------------
\* The keys that walking both levels of a bucket finds.
LiveKeys(b) == {k \in Keys : Live(l1[b], k) \/ Live(l2[b], k)}

ClearStart ==
  /\ clear.b = 0
  /\ clear' = [keys |-> {}, b |-> 1] /\ since' = {} /\ got' = {}
  /\ UNCHANGED <<l1, l2, now, ticking, clean, written, latest, floor, reported>>

\* Clear walks both levels of one bucket.
ClearCollect ==
  /\ clear.b \in Buckets
  /\ clear' = [keys |-> clear.keys \cup LiveKeys(clear.b), b |-> clear.b + 1]
  /\ got' = {}
  /\ UNCHANGED <<l1, l2, now, ticking, clean, written, latest, floor, reported, since>>

\* Clear deletes the keys it collected, each under its own hold of the lock.
ClearDelete(k) ==
  /\ clear.b > NBuckets /\ k \in clear.keys
  /\ Delete(Hash[k], k)
  /\ floor' = [floor EXCEPT ![k] = written]
  /\ clear' = [clear EXCEPT !.keys = @ \ {k}] /\ got' = {}
  /\ UNCHANGED <<now, ticking, clean, written, latest, since>>

ClearReturn ==
  /\ clear.b > NBuckets /\ clear.keys = {}
  /\ clear' = [keys |-> {}, b |-> 0] /\ since' = {} /\ got' = {}
  /\ UNCHANGED <<l1, l2, now, ticking, clean, written, latest, floor, reported>>

-----------------------------------------------------------------------------
\* cleanupLoop: a tick arrives, currentTime is read once for all buckets.
CleanupTick ==
  /\ clean.b = 0 /\ ticking
  /\ clean' = [t |-> now, b |-> 1] /\ got' = {}
  /\ UNCHANGED <<l1, l2, now, ticking, clear, written, latest, floor, reported, since>>

\* The walk over a level appends the keys that are expired and not found yet.  (In
\* the first level, which has no key twice, the code need not look for those.)
ExpiredIn(keys, l, t) ==
  LET found[i \in 0 .. Len(l)] ==
        IF i = 0 THEN keys
        ELSE IF l[i].expireAt > 0 /\ t >= l[i].expireAt /\ ~Contains(found[i - 1], l[i].k)
             THEN Append(found[i - 1], l[i].k) ELSE found[i - 1]
  IN  found[Len(l)]

\* Faulty variant: only the first level is walked.
ExpiredLevel1(b, t) == ExpiredIn(<<>>, l1[b], t)

\* expiredKeys: those of the first level, then the others of the second.
ExpiredKeys(b, t) == ExpiredIn(ExpiredIn(<<>>, l1[b], t), l2[b], t)

\* One after the other, in that order.
DelAll(l, keys) ==
  LET after[i \in 0 .. Len(keys)] == IF i = 0 THEN l ELSE Del(after[i - 1], keys[i])
  IN  after[Len(keys)]

\* One bucket of the sweep: its expired keys lose both copies.
CleanupBucket ==
  /\ clean.b \in Buckets
  /\ LET b == clean.b
         expired == ExpiredKeys(b, clean.t)
     IN  /\ l1' = [l1 EXCEPT ![b] = DelAll(@, expired)]
         /\ l2' = [l2 EXCEPT ![b] = DelAll(@, expired)]
         /\ reported' = reported \cup UNION {DeleteReports(b, k) : k \in Range(expired)}
         /\ clean' = IF b = NBuckets THEN [t |-> 0, b |-> 0] ELSE [clean EXCEPT !.b = b + 1]
  /\ got' = {}
  /\ UNCHANGED <<now, ticking, clear, written, latest, floor, since>>

\* Close stops the ticker.  The loop's goroutine waits on it for ever.
Close ==
  /\ ticking /\ ticking' = FALSE /\ got' = {}
  /\ UNCHANGED <<l1, l2, now, clean, clear, written, latest, floor, reported, since>>

\* The clock goroutine.
Tick ==
  /\ now < MaxTime /\ now' = now + 1 /\ got' = {}
  /\ UNCHANGED <<l1, l2, ticking, clean, clear, written, latest, floor, reported, since>>

Next ==
  \/ \E k \in Keys :
       \/ \E ttl \in TTLs, t \in 1 .. now : SetWithExpiration(k, ttl, t)
       \/ GetMove(k) \/ GetExpired(k) \/ GetLevel2(k)
       \/ DeleteKey(k) \/ ClearDelete(k)
  \/ ClearStart \/ ClearCollect \/ ClearReturn
  \/ CleanupTick \/ CleanupBucket \/ Close \/ Tick

Spec == Init /\ [][Next]_vars

\* The runtime delivers ticks and hands a mutex to the goroutine waiting for
\* it, so the cleanup goroutine, once running, goes on.  Nobody has to call
\* Clear, Get or Close.
FairSpec == Spec /\ WF_vars(CleanupTick) /\ WF_vars(CleanupBucket)

-----------------------------------------------------------------------------
LiveNodes(l) == {l[i] : i \in {j \in DOMAIN l : l[j].expireAt > 0}}

TypeOK ==
  /\ \A b \in Buckets :
       /\ Len(l1[b]) <= Cap1 /\ Len(l2[b]) <= Cap2
       /\ \A x \in Range(l1[b]) \cup Range(l2[b]) : x.v \in 1 .. written /\ Hash[x.k] = b
  /\ now \in 1 .. MaxTime /\ ticking \in BOOLEAN
  /\ clean.b \in 0 .. NBuckets /\ clear.b \in 0 .. NBuckets + 1

\* A deleted key does not come back: whatever Get, eviction, sweep and slot
\* reuse happen between the levels, a live copy of a key in either level was
\* written by a Set after the last Delete of that key.
NoResurrection ==
  \A b \in Buckets : \A x \in LiveNodes(l1[b]) \cup LiveNodes(l2[b]) : x.v > floor[x.k]

\* The value of a Set is in at most one place: live in one level, or handed to
\* onEvicted.  So onEvicted is told of it at most once, and not while the store
\* can still return it, although a moved item leaves a node behind in level 1.
OneHome ==
  \A b \in Buckets :
    LET v1 == Vals(LiveNodes(l1[b]))  v2 == Vals(LiveNodes(l2[b]))
    IN  v1 \cap v2 = {} /\ reported \cap (v1 \cup v2) = {}

\* A first-level copy is the last one Set; older copies survive in level 2 only.
Level1Newest ==
  \A b \in Buckets : \A x \in LiveNodes(l1[b]) : x.v = latest[x.k]

\* A Get returns no value that is deleted or past its expiration.
NoExpiredHit == \A x \in got : x.expireAt > now

\* When Clear has deleted what it collected, a key still present was Set after
\* Clear had collected its bucket, though calls run between its steps.
ClearEmpties ==
  clear.b > NBuckets =>
    \A b \in Buckets : \A x \in LiveNodes(l1[b]) \cup LiveNodes(l2[b]) :
      x.k \in clear.keys \cup since

\* What the two levels, the evictions reported and a running Clear tell of each key agrees, in
\* every order of the calls, the sweep and Clear (lru2.go:53-183, 346-402).
StoreSound ==
  TypeOK /\ NoResurrection /\ OneHome /\ Level1Newest /\ NoExpiredHit /\ ClearEmpties

HasExpired(k) ==
  \E l \in {l1[Hash[k]], l2[Hash[k]]} : Live(l, k) /\ now >= At(l, k).expireAt

\* Expired copies do not stay: unless the store is closed, every one is swept,
\* though each sweep compares with a time it read before taking the locks.
ExpiredLeave ==
  \A k \in Keys : HasExpired(k) ~> ~HasExpired(k) \/ ~ticking

=============================================================================
