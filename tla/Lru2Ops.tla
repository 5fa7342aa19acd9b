------------------------------ MODULE Lru2Ops ------------------------------
(***************************************************************************)
(* What the internal `cache' of sonnet-cache-v2/store/lru2.go promises: a  *)
(* list of at most cap nodes, most recently used first, one per key.  A    *)
(* node whose expireAt is 0 is deleted: it keeps its place in the list and *)
(* in the hash map, at the tail, until its slot is reused.                 *)
(***************************************************************************)
EXTENDS SequencesExt, Naturals

\* What a caller sees of an operation: its status, and the node handed to
\* onEvicted, as a set of at most one.
Returns(op, status, evicted) == [op |-> op, status |-> status, evicted |-> evicted]

Node(k, v, e) == [k |-> k, v |-> v, expireAt |-> e]

\* Position of the node of key k, 0 if there is none.
Find(l, k) == SelectInSeq(l, LAMBDA x : x.k = k)

\* put: refresh the node of the key, or reuse the tail when the list is full.
Put(l, cap, k, v, e) ==
  LET i == Find(l, k)
  IN  Cons(Node(k, v, e), IF i # 0 THEN RemoveAt(l, i)
                          ELSE IF Len(l) = cap THEN Front(l) ELSE l)

\* The node put evicts and reports to onEvicted, as a set of at most one.
Evicts(l, cap, k) ==
  IF Find(l, k) = 0 /\ Len(l) = cap /\ Last(l).expireAt > 0 THEN {Last(l)} ELSE {}

\* get: the node, deleted or not, becomes the head.
Touch(l, k) ==
  LET i == Find(l, k) IN IF i = 0 THEN l ELSE Cons(l[i], RemoveAt(l, i))

\* The key has a node that is not deleted.
Live(l, k) == LET i == Find(l, k) IN i # 0 /\ l[i].expireAt > 0

\* del: the node is marked deleted and becomes the tail.
Del(l, k) ==
  LET i == Find(l, k)
  IN  IF Live(l, k) THEN Append(RemoveAt(l, i), [l[i] EXCEPT !.expireAt = 0]) ELSE l
=============================================================================
