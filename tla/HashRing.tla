------------------------------ MODULE HashRing ------------------------------
(***************************************************************************)
(* The hash ring of sonnet-cache-v2 (consistent_hash.go): the sorted list  *)
(* of virtual nodes, the map from hashes to nodes, the counts of requests, *)
(* and the goroutine that is to even them out.                             *)
(*                                                                         *)
(* Get counts under the read lock, so two of them write a Go map at the    *)
(* same time, which may end the process; the balancer reads it unlocked.   *)
(***************************************************************************)
EXTENDS Integers, Sequences, FiniteSets, FiniteSetsExt, TLC

Seqs == INSTANCE SequencesExt

CONSTANTS Members, Nobody, Askers,
          Hash,             \* of virtual node i of a node: hashes of two nodes may be equal
          Points,           \* hashes of keys
          DefaultReplicas, MinReplicas, MaxReplicas,
          MinRequests,      \* the balancer waits for so many
          MaxRequests

ASSUME RingAssumption ==
  /\ IsFiniteSet(Members) /\ Nobody \notin Members
  /\ DefaultReplicas \in Nat \ {0} /\ Points \subseteq Nat
  /\ Hash \in [Members -> [1 .. DefaultReplicas -> Nat]]

VARIABLES
  keys, hashMap, nodeReplicas, nodeCounts, totalRequests,
  asking,         \* Get: [at |-> "idle", "want" or, with the read lock, "count"]
  balancer,   \* "idle", "lock", "stuck": waiting for the lock it holds
  died

ringVars == <<keys, hashMap, nodeReplicas>>
countVars == <<nodeCounts, totalRequests>>
allRingVars == <<ringVars, countVars, asking, balancer, died>>

Hashes == {Hash[n][i] : n \in Members, i \in 1 .. DefaultReplicas}

NotAsking == [at |-> "idle"]

RingInit ==
  /\ keys = <<>> /\ hashMap = [h \in Hashes |-> Nobody]
  /\ nodeReplicas = [n \in Members |-> 0]
  /\ nodeCounts = [n \in Members \cup {Nobody} |-> -1]   \* -1: not in the map
  /\ totalRequests = 0
  /\ asking = [p \in Askers |-> NotAsking] /\ balancer = "idle" /\ died = FALSE

Reading == {p \in Askers : asking[p].at = "count"}
Lockable == Reading = {} /\ balancer # "stuck"

-----------------------------------------------------------------------------
Own(n) == {Hash[n][i] : i \in 1 .. DefaultReplicas}

\* sort.Ints: what is at some place comes to another, in ascending order.
IsOrdering(p, s) ==
  /\ p \in [1 .. Len(s) -> 1 .. Len(s)]
  /\ \A i, j \in 1 .. Len(s) : p[i] = p[j] => i = j
  /\ \A i, j \in 1 .. Len(s) : i < j => s[p[i]] <= s[p[j]]
SortInts(s) ==
  LET from == CHOOSE p \in [1 .. Len(s) -> 1 .. Len(s)] : IsOrdering(p, s)
  IN  [i \in 1 .. Len(s) |-> s[from[i]]]

\* Add: the virtual nodes are appended, there or not, and all are sorted.
Add(n) ==
  /\ ~died /\ Lockable
  /\ keys' = SortInts(keys \o Hash[n])
  /\ hashMap' = [h \in Hashes |-> IF h \in Own(n) THEN n ELSE hashMap[h]]
  /\ nodeReplicas' = [nodeReplicas EXCEPT ![n] = DefaultReplicas]
  /\ UNCHANGED <<countVars, asking, balancer, died>>

\* The picker adds an address that it has no client for: peers.go:142 looks, and
\* fetchAllServices starts from an empty ring.
SetPeer(n) == nodeReplicas[n] = 0 /\ Add(n)

\* The list without one key for each of the first r virtual nodes of n.
Without(n, r) ==
  LET left[i \in 0 .. r] == IF i = 0 THEN keys ELSE Seqs!RemoveFirst(left[i - 1], Hash[n][i])
  IN  left[r]

\* Faulty variant: the last virtual node stays.
RemoveAllButOne(n) ==
  /\ ~died /\ Lockable /\ nodeReplicas[n] > 0
  /\ keys' = Without(n, DefaultReplicas - 1)
  /\ hashMap' = [h \in Hashes |-> IF h \in Own(n) THEN Nobody ELSE hashMap[h]]
  /\ nodeReplicas' = [nodeReplicas EXCEPT ![n] = 0]
  /\ nodeCounts' = [nodeCounts EXCEPT ![n] = -1]
  /\ UNCHANGED <<totalRequests, asking, balancer, died>>

\* Remove: one key per virtual node, and its hash from the map.
Remove(n) ==
  /\ ~died /\ Lockable /\ nodeReplicas[n] > 0
  /\ keys' = Without(n, DefaultReplicas)
  /\ hashMap' = [h \in Hashes |-> IF h \in Own(n) THEN Nobody ELSE hashMap[h]]
  /\ nodeReplicas' = [nodeReplicas EXCEPT ![n] = 0]
  /\ nodeCounts' = [nodeCounts EXCEPT ![n] = -1]
  /\ UNCHANGED <<totalRequests, asking, balancer, died>>

\* The search of Get: the first key not below h, else the first of all.
Search(h) ==
  LET idx == {i \in DOMAIN keys : keys[i] >= h} IN
  hashMap[keys[IF idx = {} THEN 1 ELSE Min(idx)]]

-----------------------------------------------------------------------------
Ask(p) ==
  /\ ~died /\ totalRequests < MaxRequests /\ asking[p] = NotAsking /\ asking' = [asking EXCEPT ![p] = [at |-> "want"]]
  /\ UNCHANGED <<ringVars, countVars, balancer, died>>

\* Get: the search and the count read...
Get(p) ==
  /\ ~died /\ asking[p].at = "want" /\ balancer # "stuck"
  /\ IF keys = <<>> THEN asking' = [asking EXCEPT ![p] = NotAsking]
     ELSE \E h \in Points :
            asking' = [asking EXCEPT ![p] = [at |-> "count", node |-> Search(h), count |-> Max({0, nodeCounts[Search(h)]})]]
  /\ UNCHANGED <<ringVars, countVars, balancer, died>>

\* Faulty variant: the read lock is kept.
CountKeepsLock(p) ==
  /\ ~died /\ p \in Reading /\ totalRequests < MaxRequests
  /\ nodeCounts' = [nodeCounts EXCEPT ![asking[p].node] = asking[p].count + 1]
  /\ totalRequests' = totalRequests + 1
  /\ UNCHANGED <<ringVars, asking, balancer, died>>

\* ...and the count written.
Count(p) ==
  /\ ~died /\ p \in Reading
  /\ nodeCounts' = [nodeCounts EXCEPT ![asking[p].node] = asking[p].count + 1]
  /\ totalRequests' = totalRequests + 1
  /\ asking' = [asking EXCEPT ![p] = NotAsking]
  /\ died' \in {FALSE, Reading # {p}}
  /\ UNCHANGED <<ringVars, balancer>>

-----------------------------------------------------------------------------
Listed == {n \in Members : nodeReplicas[n] > 0}
Counted == {n \in Members \cup {Nobody} : nodeCounts[n] >= 0}

\* checkAndRebalance: a count a quarter or more off the average; without nodes the average is
\* infinite, and nothing is done.
Off(n) == LET diff == nodeCounts[n] * Cardinality(Listed) - totalRequests IN 4 * Max({diff, -diff}) > totalRequests

CheckAndRebalance ==
  /\ ~died /\ balancer = "idle" /\ totalRequests >= MinRequests
  /\ Listed # {} /\ \E n \in Counted : Off(n)
  /\ balancer' = "lock"
  /\ UNCHANGED <<ringVars, countVars, asking, died>>

\* rebalanceNodes: the replicas a node should have.
NewReplicas(n) ==
  LET load == nodeCounts[n] * Cardinality(Listed)
      cur == nodeReplicas[n]
      wanted == IF load > totalRequests THEN (cur * totalRequests) \div load
                ELSE (cur * (2 * totalRequests - load)) \div totalRequests
  IN Max({MinReplicas, Min({wanted, MaxReplicas})})

\* A node whose number changes is removed, with the lock held: Remove waits for it for ever.
\* Remove refuses the empty name before that.
RebalanceNodes ==
  /\ ~died /\ balancer = "lock" /\ Reading = {}
  /\ IF \E n \in Counted \ {Nobody} : Listed # {} /\ NewReplicas(n) # nodeReplicas[n]
     THEN balancer' = "stuck" /\ UNCHANGED countVars
     ELSE /\ balancer' = "idle" /\ totalRequests' = 0
          /\ nodeCounts' = [n \in DOMAIN nodeCounts |-> Min({nodeCounts[n], 0})]
  /\ UNCHANGED <<ringVars, asking, died>>

RingNext ==
  \/ \E n \in Members : SetPeer(n) \/ Remove(n)
  \/ \E p \in Askers : Ask(p) \/ Get(p) \/ Count(p)
  \/ CheckAndRebalance \/ RebalanceNodes

RingFairness == \A p \in Askers : SF_allRingVars(Get(p)) /\ WF_allRingVars(Count(p))

RingSpec == RingInit /\ [][RingNext]_allRingVars /\ RingFairness

-----------------------------------------------------------------------------
\* Properties.

\* The virtual node a key belongs to: the nearest at or after it, or the least.
Nearest(h) ==
  LET all == UNION {Own(n) : n \in Listed}
      after == {x \in all : x >= h}
  IN Min(IF after = {} THEN all ELSE after)
Owners(x) == {n \in Members : x \in Own(n)}

\* However nodes came and went, a key is routed to the owner of the nearest virtual
\* node among those present (consistent_hash.go:58-141): two nodes with an equal hash
\* disturb that hash only, where the key may find either, or nobody.
RingRoutes ==
  Listed # {} =>
    \A h \in Points :
      LET x == Nearest(h) IN
      /\ keys # <<>>
      /\ Search(h) \in Owners(x) \cup {Nobody}
      /\ Cardinality(Owners(x)) = 1 => Search(h) \in Owners(x)

\* Get answers, unless the balancer found something to even out: it then waits for
\* its own lock and every later Get waits too (consistent_hash.go:177-222); or two
\* Gets wrote the counts at once.
GetAnswers == \A p \in Askers : asking[p].at = "want" ~> (asking[p] = NotAsking \/ balancer = "stuck" \/ died)
=============================================================================
