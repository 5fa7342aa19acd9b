----------------------------- MODULE Lru2Cache -----------------------------
(***************************************************************************)
(* The internal `cache' of sonnet-cache-v2/store/lru2.go as it is built:   *)
(* nodes in a pre-allocated array m, a doubly linked list of indexes dlnk  *)
(* whose entry 0 is the sentinel (its predecessor is the tail, its         *)
(* successor the head), a map from keys to indexes, and `last', the number *)
(* of slots in use.  Slots are never freed, only reused.  Every operation  *)
(* runs under the lock of its bucket.                                      *)
(***************************************************************************)
EXTENDS Naturals, Sequences, FiniteSets

CONSTANTS
  Keys, Values,
  Times,      \* expireAt values, 0 means deleted
  Cap,        \* cap(c.m)
  NoKey       \* the zero value of a key

ASSUME Lru2Assumption == Cap \in Nat \ {0} /\ Times \subseteq Nat /\ NoKey \notin Keys

VARIABLES
  dlnk, m, hmap, last,
  out         \* what the last operation returned and reported to onEvicted

vars == <<dlnk, m, hmap, last, out>>

Returns(op, status, evicted) == [op |-> op, status |-> status, evicted |-> evicted]

Slots == 1 .. Cap

\* Create: zeroed arrays.
Init ==
  /\ dlnk = [i \in 0 .. Cap |-> [p |-> 0, n |-> 0]]
  /\ m = [i \in Slots |-> [k |-> NoKey, v |-> NoKey, expireAt |-> 0]]
  /\ hmap = [k \in Keys |-> 0]      \* 0: not in the map
  /\ last = 0 /\ out = Returns("create", 0, {})

\* adjust(idx, f, t), assignment by assignment: (p, n) moves a node to the
\* head, (n, p) to the tail.  The neighbours may be the sentinel.
Adjust(d, idx, f, t) ==
  IF d[idx][f] = 0 THEN d
  ELSE LET d1 == [d  EXCEPT ![d[idx][t]][f] = d[idx][f]]
           d2 == [d1 EXCEPT ![d1[idx][f]][t] = d1[idx][t]]
           d3 == [d2 EXCEPT ![idx][f] = 0]
           d4 == [d3 EXCEPT ![idx][t] = d3[0][t]]
           d5 == [d4 EXCEPT ![d4[0][t]][f] = idx]
       IN  [d5 EXCEPT ![0][t] = idx]

SetNode(i, k, v, e) == [m EXCEPT ![i] = [k |-> k, v |-> v, expireAt |-> e]]

\* put, the key has a node: new value, refreshed to the head.
PutUpdate(k, v, e) ==
  /\ hmap[k] # 0
  /\ m' = [m EXCEPT ![hmap[k]].v = v, ![hmap[k]].expireAt = e]
  /\ dlnk' = Adjust(dlnk, hmap[k], "p", "n")
  /\ out' = Returns("put", 0, {})
  /\ UNCHANGED <<hmap, last>>

\* put, no slot left: the tail's slot is reused.
PutEvict(k, v, e) ==
  LET tail == dlnk[0].p
  IN  /\ hmap[k] = 0 /\ last = Cap
      /\ out' = Returns("put", 1, IF m[tail].expireAt > 0 THEN {m[tail]} ELSE {})
      /\ hmap' = [hmap EXCEPT ![m[tail].k] = 0, ![k] = tail]
      /\ m' = SetNode(tail, k, v, e)
      /\ dlnk' = Adjust(dlnk, tail, "p", "n")
      /\ UNCHANGED last

\* Faulty variant: the old head does not point back to the new one.
PutNewNoBackLink(k, v, e) ==
  /\ hmap[k] = 0 /\ last < Cap
  /\ last' = last + 1
  /\ dlnk' = [dlnk EXCEPT ![0].p = IF last = 0 THEN 1 ELSE @,
                          ![last'] = [p |-> 0, n |-> dlnk[0].n], ![0].n = last']
  /\ m' = SetNode(last', k, v, e)
  /\ hmap' = [hmap EXCEPT ![k] = last']
  /\ out' = Returns("put", 1, {})

\* put, a new slot becomes the head.
PutNew(k, v, e) ==
  /\ hmap[k] = 0 /\ last < Cap
  /\ last' = last + 1
  /\ LET head == dlnk[0].n
         d1 == IF \A x \in Keys : hmap[x] = 0 THEN [dlnk EXCEPT ![0].p = last']
                                              ELSE [dlnk EXCEPT ![head].p = last']
     IN  dlnk' = [d1 EXCEPT ![last'] = [p |-> 0, n |-> d1[0].n], ![0].n = last']
  /\ m' = SetNode(last', k, v, e)
  /\ hmap' = [hmap EXCEPT ![k] = last']
  /\ out' = Returns("put", 1, {})

\* get
GetHit(k) ==
  /\ hmap[k] # 0
  /\ dlnk' = Adjust(dlnk, hmap[k], "p", "n")
  /\ out' = Returns("get", 1, {})
  /\ UNCHANGED <<m, hmap, last>>

\* Faulty variant: the deleted node becomes the head.
DelToHead(k) ==
  /\ hmap[k] # 0 /\ m[hmap[k]].expireAt > 0
  /\ m' = [m EXCEPT ![hmap[k]].expireAt = 0]
  /\ dlnk' = Adjust(dlnk, hmap[k], "p", "n")
  /\ out' = Returns("del", 1, {})
  /\ UNCHANGED <<hmap, last>>

\* del
DelKey(k) ==
  /\ hmap[k] # 0 /\ m[hmap[k]].expireAt > 0
  /\ m' = [m EXCEPT ![hmap[k]].expireAt = 0]
  /\ dlnk' = Adjust(dlnk, hmap[k], "n", "p")
  /\ out' = Returns("del", 1, {})
  /\ UNCHANGED <<hmap, last>>

\* get of a key without a node, del of a key without one that is not deleted.
GetMiss(k) == hmap[k] = 0 /\ out' = Returns("get", 0, {}) /\ UNCHANGED <<dlnk, m, hmap, last>>
DelMiss(k) ==
  /\ ~(hmap[k] # 0 /\ m[hmap[k]].expireAt > 0)
  /\ out' = Returns("del", 0, {}) /\ UNCHANGED <<dlnk, m, hmap, last>>

Next ==
  \E k \in Keys :
    \/ GetHit(k) \/ GetMiss(k) \/ DelKey(k) \/ DelMiss(k)
    \/ \E v \in Values, e \in Times : PutUpdate(k, v, e) \/ PutEvict(k, v, e) \/ PutNew(k, v, e)

Spec == Init /\ [][Next]_vars

-----------------------------------------------------------------------------
\* The indexes met when following successors from the sentinel, as walk does.
Order ==
  LET at[j \in 0 .. last] == IF j = 0 THEN 0 ELSE dlnk[at[j - 1]].n
  IN  [j \in 1 .. last |-> at[j]]

\* However operations are mixed, the structure stays sound.  The index list is a
\* doubly linked list of exactly the slots in use: links mirror each other, also
\* around the sentinel, and walk ends after having met every slot once.  The map
\* leads from a key to the slot that holds it, and every slot in use, deleted or
\* not, is the one its key leads to.
TypeOK ==
  /\ dlnk \in [0 .. Cap -> [p : 0 .. Cap, n : 0 .. Cap]]
  /\ m \in [Slots -> [k : Keys \cup {NoKey}, v : Values \cup {NoKey}, expireAt : Times \cup {0}]]
  /\ hmap \in [Keys -> 0 .. Cap] /\ last \in 0 .. Cap
LinkedList ==
  /\ {Order[j] : j \in 1 .. last} = 1 .. last
  /\ \A i \in 0 .. last : dlnk[dlnk[i].n].p = i /\ dlnk[dlnk[i].p].n = i
MapAgrees ==
  /\ \A k \in Keys : hmap[k] # 0 => hmap[k] <= last /\ m[hmap[k]].k = k
  /\ \A i \in 1 .. last : hmap[m[i].k] = i
WellFormed == TypeOK /\ LinkedList /\ MapAgrees

\* The array-and-index implementation is the bounded list of Lru2List: every
\* put, get and del has the effect on the list order, returns the status and
\* reports the eviction that the abstract operation does.
List == INSTANCE Lru2List WITH list <- [j \in 1 .. last |-> m[Order[j]]]
ImplementsList == List!LSpec
=============================================================================
