---------------------------- MODULE MCCacheCluster ----------------------------
(* The instances of CacheCluster that TLC checks: two nodes, one key.       *)
EXTENDS CacheCluster

CONSTANTS a, b, k1, c1, c2

\* b comes first after the hash of the key: a asks b, b asks a, or itself when
\* it is an alias.
MCDistance == [k \in Keys |-> [n \in Nodes |-> IF n = b THEN 0 ELSE 1]]

Setup(x, stable, readers, hops) ==
  [alias |-> x, stable |-> stable, readers |-> readers, hops |-> hops]

\* Two Gets at once in a running cluster.
TwoReaders == {Setup({}, {a, b}, {c1, c2}, 1)}

\* A Get whose chain returns to where it started, and a Set or Delete.
LongChain == {Setup(x, {a, b}, {c1}, 2) : x \in {{}, {b}}}

\* A Get and a Set or Delete while a node starts, crashes and comes back.
Restarts == {Setup({}, {b}, {c1}, 1)}

MCSetups == TwoReaders \cup LongChain \cup Restarts
===============================================================================
