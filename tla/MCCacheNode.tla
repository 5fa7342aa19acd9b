---------------------------- MODULE MCCacheNode ----------------------------
(***************************************************************************)
(* What a node of sonnet-cache-v2 keeps for itself, each part explored on  *)
(* its own: the two list-based stores, that is the cache over the LRU      *)
(* store and one level of the two-level store; the hash ring; and the      *)
(* table of groups.                                                        *)
(***************************************************************************)
EXTENDS CacheNode, HashRing, Lru2Cache

CONSTANTS Names, Groups, Name, k1, k2, k3, k4, v1, v2, p, q, n1, n2, g1, g2, g3

VARIABLES which, groups, made, shut, groupsMu, calling

Table == INSTANCE GroupTable WITH pc <- calling

tableVars == <<groups, made, shut, groupsMu, calling>>

MCCalls ==
  p :> {[at |-> "get", key |-> k1]} @@
  q :> {[at |-> "ensure", key |-> k1], [at |-> "ensure", key |-> k2], [at |-> "delete", key |-> k1],
        [at |-> "clear", key |-> None]}
MCKeys == {k1, k2, k3, k4}
MCValues == {v1, v2}
\* Bound: the second value is put for one key only.
OneKeyVaries == \A i \in Slots : m[i].v = v2 => m[i].k = k1
\* n1 and n2 share a hash
MCHash == n1 :> <<5, 2>> @@ n2 :> <<3, 5>>
MCName == g1 :> "a" @@ g2 :> "a" @@ g3 :> "b"

MCInit ==
  /\ CacheInit /\ Init /\ RingInit /\ Table!Init
  /\ which \in {"cache", "level", "ring", "table"}

MCNext ==
  /\ UNCHANGED which
  /\ \/ which = "cache" /\ CacheNext /\ UNCHANGED <<vars, allRingVars, tableVars>>
     \/ which = "level" /\ Next /\ OneKeyVaries' /\ UNCHANGED <<nodeVars, allRingVars, tableVars>>
     \/ which = "ring" /\ RingNext /\ UNCHANGED <<nodeVars, vars, tableVars>>
     \/ which = "table" /\ Table!Next /\ UNCHANGED <<nodeVars, vars, allRingVars>>

MCSpec ==
  MCInit /\ [][MCNext]_<<which, nodeVars, vars, allRingVars, tableVars>> /\ RingFairness /\ Table!Fairness

\* Look-ups on the ring and in the table of groups end unless somebody waits for his
\* own lock (consistent_hash.go:177-222, group.go:403-427): see HashRing and GroupTable.
CallsEnd == GetAnswers /\ Table!GroupCallsEnd

\* DestroyGroup returns (group.go:402-415), which it does not: see GroupTable.
DestroyReturns == Table!DestroyReturns
=============================================================================
