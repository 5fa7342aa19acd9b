-------------------------- MODULE LocalCache_proofs --------------------------
(***************************************************************************)
(* Proofs about what a node of sonnet-cache-v2 keeps for itself, for any  *)
(* capacity, keys, values and goroutines: the array-and-index list of      *)
(* lru2.go (Lru2Cache); the closing of the cache of a group (CacheNode)    *)
(* and the list, map, times and account of bytes of its store (LruStore).  *)
(***************************************************************************)
EXTENDS Lru2Cache, CacheNode, SequenceTheorems, FiniteSetTheorems, NaturalsInduction, WellFoundedInduction, TLAPS

-----------------------------------------------------------------------------
\* The order of the list, laid out: o[1] .. o[n] are the slots from the head to the
\* tail, and the sentinel 0 stands at both ends.
IsOrder(o, n) ==
  /\ o \in [0 .. n + 1 -> 0 .. n] /\ o[0] = 0 /\ o[n + 1] = 0
  /\ \A i, j \in 0 .. n : o[i] = o[j] => i = j
  /\ \A x \in 1 .. n : \E j \in 1 .. n : o[j] = x

\* The links d follow that order: t leads to the next, f back to the previous.
Chained(d, n, o, f, t) ==
  \A j \in 0 .. n : d[o[j]][t] = o[j + 1] /\ d[o[j + 1]][f] = o[j]

Links == [0 .. Cap -> [p : 0 .. Cap, n : 0 .. Cap]]
Ways == {"p", "n"}

\* One assignment to a link.
Assigned(d, at, f, v) == [d EXCEPT ![at][f] = v]

LEMMA SetLink ==
  ASSUME NEW d \in Links, NEW f \in Ways, NEW t \in Ways, f # t,
         NEW at \in 0 .. Cap, NEW v \in 0 .. Cap
  PROVE  /\ Assigned(d, at, f, v) \in Links
         /\ \A x \in 0 .. Cap : /\ Assigned(d, at, f, v)[x][f] = IF x = at THEN v ELSE d[x][f]
                                /\ Assigned(d, at, f, v)[x][t] = d[x][t]
BY DEF Links, Assigned, Ways

\* What adjust does to the links, all assignments together.
LEMMA AdjustIs ==
  ASSUME NEW d \in Links, NEW f \in Ways, NEW t \in Ways, f # t,
         NEW idx \in 1 .. Cap, NEW a \in 1 .. Cap, NEW b \in 0 .. Cap, NEW h \in 1 .. Cap,
         d[idx][f] = a, d[idx][t] = b, d[0][t] = h,
         a # idx, b # idx, h # idx, b # h
  PROVE  /\ Adjust(d, idx, f, t) \in Links
         /\ \A x \in 0 .. Cap :
              /\ Adjust(d, idx, f, t)[x][f] =
                   IF x = b THEN a ELSE IF x = idx THEN 0 ELSE IF x = h THEN idx ELSE d[x][f]
              /\ Adjust(d, idx, f, t)[x][t] =
                   IF x = a THEN b ELSE IF x = idx THEN h ELSE IF x = 0 THEN idx ELSE d[x][t]
<1>0. Cap \in Nat /\ 0 \in 0 .. Cap /\ {a, b, h, idx} \subseteq 0 .. Cap /\ a # 0 /\ idx # 0 /\ h # 0
  BY Lru2Assumption
<1> DEFINE d1 == [d  EXCEPT ![d[idx][t]][f] = d[idx][f]]
           d2 == [d1 EXCEPT ![d1[idx][f]][t] = d1[idx][t]]
           d3 == [d2 EXCEPT ![idx][f] = 0]
           d4 == [d3 EXCEPT ![idx][t] = d3[0][t]]
           d5 == [d4 EXCEPT ![d4[0][t]][f] = idx]
           d6 == [d5 EXCEPT ![0][t] = idx]
<1>13. d[idx][f] # 0
  BY <1>0
<1>2. Adjust(d, idx, f, t) = d6
  BY <1>13, Zenon DEF Adjust
<1> HIDE DEF d2, d3, d4, d5, d6
<1>3. /\ d1 \in Links
      /\ \A x \in 0 .. Cap : d1[x][f] = (IF x = b THEN a ELSE d[x][f]) /\ d1[x][t] = d[x][t]
  <2>1. d1 = Assigned(d, b, f, a)
    BY DEF Assigned
  <2> HIDE DEF d1
  <2>2. d \in Links /\ b \in 0 .. Cap /\ a \in 0 .. Cap
    BY <1>0
  <2>3. /\ Assigned(d, b, f, a) \in Links
        /\ \A x \in 0 .. Cap : /\ Assigned(d, b, f, a)[x][f] = IF x = b THEN a ELSE d[x][f]
                               /\ Assigned(d, b, f, a)[x][t] = d[x][t]
    BY <2>2, SetLink
  <2> QED
    BY <2>1, <2>3
<1> HIDE DEF d1
<1>4. d1[idx][f] = a /\ d1[idx][t] = b
  BY <1>0, <1>3
<1>5. /\ d2 \in Links
      /\ \A x \in 0 .. Cap : /\ d2[x][f] = d1[x][f]
                             /\ d2[x][t] = (IF x = a THEN b ELSE d1[x][t])
  <2>1. d2 = Assigned(d1, a, t, b)
    BY <1>4 DEF d2, Assigned
  <2> HIDE DEF d1, d2, d3, d4, d5, d6
  <2>2. d1 \in Links /\ a \in 0 .. Cap /\ b \in 0 .. Cap
    BY <1>3, <1>0
  <2>3. /\ Assigned(d1, a, t, b) \in Links
        /\ \A x \in 0 .. Cap : /\ Assigned(d1, a, t, b)[x][t] = IF x = a THEN b ELSE d1[x][t]
                               /\ Assigned(d1, a, t, b)[x][f] = d1[x][f]
    BY <2>2, SetLink
  <2> QED
    BY <2>1, <2>3
<1>6. /\ d3 \in Links
      /\ \A x \in 0 .. Cap : /\ d3[x][f] = (IF x = idx THEN 0 ELSE d2[x][f])
                             /\ d3[x][t] = d2[x][t]
  <2>1. d3 = Assigned(d2, idx, f, 0)
    BY DEF d3, Assigned
  <2> HIDE DEF d1, d2, d3, d4, d5, d6
  <2>2. d2 \in Links /\ idx \in 0 .. Cap /\ 0 \in 0 .. Cap
    BY <1>5, <1>0
  <2>3. /\ Assigned(d2, idx, f, 0) \in Links
        /\ \A x \in 0 .. Cap : /\ Assigned(d2, idx, f, 0)[x][f] = IF x = idx THEN 0 ELSE d2[x][f]
                               /\ Assigned(d2, idx, f, 0)[x][t] = d2[x][t]
    BY <2>2, SetLink
  <2> QED
    BY <2>1, <2>3
<1>7. d3[0][t] = h
  BY <1>0, <1>3, <1>5, <1>6
<1>8. /\ d4 \in Links
      /\ \A x \in 0 .. Cap : /\ d4[x][f] = d3[x][f]
                             /\ d4[x][t] = (IF x = idx THEN h ELSE d3[x][t])
  <2>1. d4 = Assigned(d3, idx, t, h)
    BY <1>7 DEF d4, Assigned
  <2> HIDE DEF d1, d2, d3, d4, d5, d6
  <2>2. d3 \in Links /\ idx \in 0 .. Cap /\ h \in 0 .. Cap
    BY <1>6, <1>0
  <2>3. /\ Assigned(d3, idx, t, h) \in Links
        /\ \A x \in 0 .. Cap : /\ Assigned(d3, idx, t, h)[x][t] = IF x = idx THEN h ELSE d3[x][t]
                               /\ Assigned(d3, idx, t, h)[x][f] = d3[x][f]
    BY <2>2, SetLink
  <2> QED
    BY <2>1, <2>3
<1>9. d4[0][t] = h
  BY <1>0, <1>7, <1>8
<1>10. /\ d5 \in Links
       /\ \A x \in 0 .. Cap : /\ d5[x][f] = (IF x = h THEN idx ELSE d4[x][f])
                              /\ d5[x][t] = d4[x][t]
  <2>1. d5 = Assigned(d4, h, f, idx)
    BY <1>9 DEF d5, Assigned
  <2> HIDE DEF d1, d2, d3, d4, d5, d6
  <2>2. d4 \in Links /\ h \in 0 .. Cap /\ idx \in 0 .. Cap
    BY <1>8, <1>0
  <2>3. /\ Assigned(d4, h, f, idx) \in Links
        /\ \A x \in 0 .. Cap : /\ Assigned(d4, h, f, idx)[x][f] = IF x = h THEN idx ELSE d4[x][f]
                               /\ Assigned(d4, h, f, idx)[x][t] = d4[x][t]
    BY <2>2, SetLink
  <2> QED
    BY <2>1, <2>3
<1>11. /\ d6 \in Links
       /\ \A x \in 0 .. Cap : /\ d6[x][f] = d5[x][f]
                              /\ d6[x][t] = (IF x = 0 THEN idx ELSE d5[x][t])
  <2>1. d6 = Assigned(d5, 0, t, idx)
    BY DEF d6, Assigned
  <2> HIDE DEF d1, d2, d3, d4, d5, d6
  <2>2. d5 \in Links /\ 0 \in 0 .. Cap /\ idx \in 0 .. Cap
    BY <1>10, <1>0
  <2>3. /\ Assigned(d5, 0, t, idx) \in Links
        /\ \A x \in 0 .. Cap : /\ Assigned(d5, 0, t, idx)[x][t] = IF x = 0 THEN idx ELSE d5[x][t]
                               /\ Assigned(d5, 0, t, idx)[x][f] = d5[x][f]
    BY <2>2, SetLink
  <2> QED
    BY <2>1, <2>3
<1>12. ASSUME NEW x \in 0 .. Cap
       PROVE  /\ d6[x][f] = IF x = b THEN a ELSE IF x = idx THEN 0 ELSE IF x = h THEN idx ELSE d[x][f]
              /\ d6[x][t] = IF x = a THEN b ELSE IF x = idx THEN h ELSE IF x = 0 THEN idx ELSE d[x][t]
  <2>1. d6[x][f] = IF x = h THEN idx ELSE IF x = idx THEN 0 ELSE IF x = b THEN a ELSE d[x][f]
    BY <1>3, <1>5, <1>6, <1>8, <1>10, <1>11
  <2>2. d6[x][t] = IF x = 0 THEN idx ELSE IF x = idx THEN h ELSE IF x = a THEN b ELSE d[x][t]
    BY <1>3, <1>5, <1>6, <1>8, <1>10, <1>11
  <2> QED
    BY <1>0, <2>1, <2>2
<1> QED
  BY <1>2, <1>11, <1>12

\* The order once the slot at position i has become the first.
Came(i, j) == IF j = 1 THEN i ELSE IF 2 <= j /\ j <= i THEN j - 1 ELSE j
Moved(o, n, i) == [j \in 0 .. n + 1 |-> o[Came(i, j)]]

LEMMA CameIs ==
  ASSUME NEW n \in Nat, NEW i \in 1 .. n
  PROVE  /\ \A j \in 0 .. n + 1 : Came(i, j) \in 0 .. n + 1
         /\ \A j \in 0 .. n : Came(i, j) \in 0 .. n
         /\ \A j \in 1 .. n : Came(i, j) \in 1 .. n
         /\ \A j, k \in 0 .. n : Came(i, j) = Came(i, k) => j = k
         /\ \A j \in 1 .. n : \E k \in 1 .. n : Came(i, k) = j
         /\ Came(i, 0) = 0 /\ Came(i, n + 1) = n + 1
<1>1. ASSUME NEW j \in 1 .. n PROVE \E k \in 1 .. n : Came(i, k) = j
  <2>1. CASE j = i
    <3>1. 1 \in 1 .. n /\ Came(i, 1) = j
      BY <2>1 DEF Came
    <3> QED
      BY <3>1
  <2>2. CASE j < i
    <3>1. j + 1 \in 1 .. n /\ Came(i, j + 1) = j
      BY <2>2 DEF Came
    <3> QED
      BY <3>1
  <2>3. CASE j > i
    <3>1. j \in 1 .. n /\ Came(i, j) = j
      BY <2>3 DEF Came
    <3> QED
      BY <3>1
  <2> QED
    BY <2>1, <2>2, <2>3
<1> QED
  BY <1>1 DEF Came

LEMMA MovedIsOrder ==
  ASSUME NEW n \in Nat, NEW i \in 1 .. n, NEW o, IsOrder(o, n)
  PROVE  IsOrder(Moved(o, n, i), n)
<1> DEFINE c(j) == Came(i, j)
           q == Moved(o, n, i)
<1>1. /\ \A j \in 0 .. n + 1 : c(j) \in 0 .. n + 1
      /\ \A j \in 0 .. n : c(j) \in 0 .. n
      /\ \A j \in 1 .. n : c(j) \in 1 .. n
      /\ \A j, k \in 0 .. n : c(j) = c(k) => j = k
      /\ \A j \in 1 .. n : \E k \in 1 .. n : c(k) = j
      /\ c(0) = 0 /\ c(n + 1) = n + 1
  BY CameIs
<1> HIDE DEF c
<1>2. /\ o \in [0 .. n + 1 -> 0 .. n] /\ o[0] = 0 /\ o[n + 1] = 0
      /\ \A j, k \in 0 .. n : o[j] = o[k] => j = k
      /\ \A x \in 1 .. n : \E j \in 1 .. n : o[j] = x
  BY DEF IsOrder
<1>3. q = [j \in 0 .. n + 1 |-> o[c(j)]]
  BY DEF Moved, c
<1> HIDE DEF q
<1>4. 0 \in 0 .. n + 1 /\ n + 1 \in 0 .. n + 1 /\ 0 .. n \subseteq 0 .. n + 1 /\ 1 .. n \subseteq 0 .. n + 1
  OBVIOUS
<1>5. q \in [0 .. n + 1 -> 0 .. n]
  BY <1>1, <1>2, <1>3
<1>6. q[0] = 0 /\ q[n + 1] = 0
  BY <1>1, <1>2, <1>3, <1>4
<1>7. \A j, k \in 0 .. n : q[j] = q[k] => j = k
  <2> SUFFICES ASSUME NEW j \in 0 .. n, NEW k \in 0 .. n, q[j] = q[k] PROVE j = k
    OBVIOUS
  <2>1. o[c(j)] = o[c(k)]
    BY <1>3, <1>4
  <2> QED
    BY <1>1, <1>2, <2>1
<1>8. \A x \in 1 .. n : \E k \in 1 .. n : q[k] = x
  <2> SUFFICES ASSUME NEW x \in 1 .. n PROVE \E k \in 1 .. n : q[k] = x
    OBVIOUS
  <2>1. PICK j \in 1 .. n : o[j] = x
    BY <1>2
  <2>2. PICK k \in 1 .. n : c(k) = j
    BY <1>1
  <2> QED
    BY <2>1, <2>2, <1>3, <1>4
<1> QED
  BY <1>5, <1>6, <1>7, <1>8 DEF IsOrder, q

\* adjust moves a slot to the end that f leads to, and leaves the others in order.
LEMMA AdjustMoves ==
  ASSUME NEW d \in Links, NEW f \in Ways, NEW t \in Ways, f # t,
         NEW n \in 1 .. Cap, NEW o, IsOrder(o, n), Chained(d, n, o, f, t), NEW i \in 1 .. n
  PROVE  /\ Adjust(d, o[i], f, t) \in Links
         /\ Chained(Adjust(d, o[i], f, t), n, Moved(o, n, i), f, t)
<1>0. Cap \in Nat /\ n \in Nat /\ 0 .. n \subseteq 0 .. Cap /\ n <= Cap
  BY Lru2Assumption
<1>1. /\ o \in [0 .. n + 1 -> 0 .. n] /\ o[0] = 0 /\ o[n + 1] = 0
      /\ \A j, k \in 0 .. n : o[j] = o[k] => j = k
  BY DEF IsOrder
<1>2. \A j \in 0 .. n : d[o[j]][t] = o[j + 1] /\ d[o[j + 1]][f] = o[j]
  BY DEF Chained
<1>3. i - 1 \in 0 .. n /\ (i - 1) + 1 = i /\ i \in 0 .. n /\ 0 \in 0 .. n /\ 0 + 1 = 1 /\ 1 \in 0 .. n
  BY <1>0
<1>4. d[o[i]][f] = o[i - 1] /\ d[o[i]][t] = o[i + 1] /\ d[0][t] = o[1]
  <2>1. d[o[(i - 1) + 1]][f] = o[i - 1]
    BY <1>2, <1>3
  <2>2. d[o[0]][t] = o[0 + 1]
    BY <1>2, <1>3
  <2> QED
    BY <1>1, <1>2, <1>3, <2>1, <2>2
<1>5. CASE i = 1
  <2>0. d[o[i]][f] = 0
    BY <1>1, <1>4, <1>5
  <2>1. Adjust(d, o[i], f, t) = d
    BY <2>0, Zenon DEF Adjust
  <2>2. \A j \in 0 .. n + 1 : Came(i, j) = j
    BY <1>0, <1>5 DEF Came
  <2>3. Moved(o, n, i) = o
    BY <1>1, <2>2 DEF Moved
  <2> QED
    BY <2>1, <2>3
<1>6. CASE i # 1
  <2> DEFINE idx == o[i]
             a == o[i - 1]
             b == o[i + 1]
             h == o[1]
             r == Adjust(d, idx, f, t)
             q == Moved(o, n, i)
  <2>1. i - 1 \in 1 .. n /\ i + 1 \in 2 .. n + 1 /\ i \in 2 .. n /\ i - 1 # i /\ i # 1
    BY <1>0, <1>6
  <2>2. \A j \in 1 .. n : o[j] \in 1 .. n
    <3> SUFFICES ASSUME NEW j \in 1 .. n PROVE o[j] \in 1 .. n
      OBVIOUS
    <3>1. j \in 0 .. n /\ j \in 0 .. n + 1 /\ 0 \in 0 .. n /\ j # 0
      BY <1>0
    <3>2. o[j] \in 0 .. n /\ o[j] # o[0]
      BY <1>1, <3>1
    <3> QED
      BY <1>1, <3>2
  <2>3. \A j \in 1 .. n + 1 : \A k \in 1 .. n : o[j] = o[k] => j = k
    <3> SUFFICES ASSUME NEW j \in 1 .. n + 1, NEW k \in 1 .. n, o[j] = o[k] PROVE j = k
      OBVIOUS
    <3>1. CASE j = n + 1
      BY <1>1, <2>2, <3>1
    <3>2. CASE j # n + 1
      <4>1. j \in 0 .. n /\ k \in 0 .. n
        BY <3>2, <1>0
      <4> QED
        BY <4>1, <1>1
    <3> QED
      BY <3>1, <3>2
  <2>4. /\ idx \in 1 .. Cap /\ a \in 1 .. Cap /\ h \in 1 .. Cap /\ b \in 0 .. Cap
        /\ a # idx /\ b # idx /\ h # idx /\ b # h
    <3>1. idx \in 1 .. n /\ a \in 1 .. n /\ h \in 1 .. n
      BY <2>1, <2>2
    <3>2. b \in 0 .. n
      BY <1>0, <1>1, <2>1
    <3>3. i + 1 \in 1 .. n + 1 /\ i \in 1 .. n /\ 1 \in 1 .. n /\ i + 1 # i /\ i + 1 # 1 /\ i - 1 \in 1 .. n + 1 /\ 1 \in 1 .. n + 1
      BY <1>0, <2>1
    <3>4. a # idx /\ b # idx /\ h # idx /\ b # h
      BY <2>1, <2>3, <3>3
    <3> HIDE DEF a, b, h, idx
    <3> QED
      BY <1>0, <3>1, <3>2, <3>4
  <2>5. d[idx][f] = a /\ d[idx][t] = b /\ d[0][t] = h
    BY <1>4
  <2>6. /\ r \in Links
        /\ \A x \in 0 .. Cap :
             /\ r[x][f] = IF x = b THEN a ELSE IF x = idx THEN 0 ELSE IF x = h THEN idx ELSE d[x][f]
             /\ r[x][t] = IF x = a THEN b ELSE IF x = idx THEN h ELSE IF x = 0 THEN idx ELSE d[x][t]
    <3> HIDE DEF a, b, h, idx
    <3> QED
      BY <2>4, <2>5, AdjustIs
  <2> HIDE DEF r
  <2>7. \A j \in 0 .. n + 1 : q[j] = o[Came(i, j)]
    BY DEF Moved
  <2> HIDE DEF q
  <2>8. ASSUME NEW j \in 0 .. n PROVE r[q[j]][t] = q[j + 1]
    <3>0. j \in 0 .. n + 1 /\ j + 1 \in 0 .. n + 1 /\ q[j] = o[Came(i, j)] /\ q[j + 1] = o[Came(i, j + 1)]
      BY <1>0, <2>7
    <3>1. CASE j = 0
      <4>1. Came(i, j) = 0 /\ Came(i, j + 1) = i
        BY <2>1, <3>1 DEF Came
      <4>2. q[j] = 0 /\ q[j + 1] = idx
        BY <3>0, <4>1, <1>1
      <4>3. 0 \in 0 .. Cap /\ a # 0 /\ idx # 0
        BY <1>0, <2>4
      <4> HIDE DEF a, b, h, idx
      <4> QED
        BY <4>2, <4>3, <2>6
    <3>2. CASE j = 1
      <4>1. Came(i, j) = i /\ Came(i, j + 1) = 1
        BY <2>1, <3>2 DEF Came
      <4>2. q[j] = idx /\ q[j + 1] = h
        BY <3>0, <4>1
      <4> HIDE DEF a, b, h, idx
      <4> QED
        BY <4>2, <2>4, <2>6
    <3>3. CASE j = i
      <4>1. Came(i, j) = i - 1 /\ Came(i, j + 1) = i + 1
        BY <2>1, <3>3 DEF Came
      <4>2. q[j] = a /\ q[j + 1] = b
        BY <3>0, <4>1
      <4> HIDE DEF a, b, h, idx
      <4> QED
        BY <4>2, <2>4, <2>6
    <3>4. CASE 2 <= j /\ j # i
      <4> DEFINE k == Came(i, j)
      <4>1. k \in 1 .. n /\ k # i - 1 /\ k # i /\ Came(i, j + 1) = k + 1
        BY <2>1, <3>4, <1>0 DEF Came
      <4> HIDE DEF k
      <4>2. k \in 1 .. n + 1 /\ k \in 0 .. n /\ i - 1 \in 1 .. n /\ i \in 1 .. n
        BY <4>1, <1>0, <2>1
      <4>3. o[k] # a /\ o[k] # idx /\ o[k] \in 1 .. n
        BY <4>1, <4>2, <2>2, <2>3
      <4>4. q[j] = o[k] /\ q[j + 1] = o[k + 1] /\ d[o[k]][t] = o[k + 1]
        BY <3>0, <4>1, <4>2, <1>2 DEF k
      <4>5. o[k] \in 0 .. Cap /\ o[k] # 0
        BY <4>3, <1>0
      <4> HIDE DEF a, b, h, idx
      <4> QED
        BY <4>3, <4>4, <4>5, <2>6
    <3> QED
      BY <1>0, <3>1, <3>2, <3>3, <3>4
  <2>9. ASSUME NEW j \in 0 .. n PROVE r[q[j + 1]][f] = q[j]
    <3>0. j \in 0 .. n + 1 /\ j + 1 \in 0 .. n + 1 /\ q[j] = o[Came(i, j)] /\ q[j + 1] = o[Came(i, j + 1)]
      BY <1>0, <2>7
    <3>1. CASE j = 0
      <4>1. Came(i, j) = 0 /\ Came(i, j + 1) = i
        BY <2>1, <3>1 DEF Came
      <4>2. q[j] = 0 /\ q[j + 1] = idx
        BY <3>0, <4>1, <1>1
      <4> HIDE DEF a, b, h, idx
      <4> QED
        BY <4>2, <2>4, <2>6, <1>0
    <3>2. CASE j = 1
      <4>1. Came(i, j) = i /\ Came(i, j + 1) = 1
        BY <2>1, <3>2 DEF Came
      <4>2. q[j] = idx /\ q[j + 1] = h
        BY <3>0, <4>1
      <4> HIDE DEF a, b, h, idx
      <4> QED
        BY <4>2, <2>4, <2>6, <1>0
    <3>3. CASE j = i
      <4>1. Came(i, j) = i - 1 /\ Came(i, j + 1) = i + 1
        BY <2>1, <3>3 DEF Came
      <4>2. q[j] = a /\ q[j + 1] = b
        BY <3>0, <4>1
      <4> HIDE DEF a, b, h, idx
      <4> QED
        BY <4>2, <2>4, <2>6
    <3>4. CASE 2 <= j /\ j # i
      <4> DEFINE k == Came(i, j)
      <4>1. k \in 1 .. n /\ k + 1 # i + 1 /\ k + 1 # i /\ k + 1 # 1 /\ Came(i, j + 1) = k + 1
        BY <2>1, <3>4, <1>0 DEF Came
      <4> HIDE DEF k
      <4>2. k + 1 \in 1 .. n + 1 /\ k \in 0 .. n /\ i \in 1 .. n /\ 1 \in 1 .. n
        BY <4>1, <1>0, <2>1
      <4>3. o[k + 1] # idx /\ o[k + 1] # h
        BY <4>1, <4>2, <2>3
      <4>4. o[k + 1] # b
        <5>1. CASE i + 1 \in 1 .. n
          BY <5>1, <4>1, <4>2, <2>3
        <5>2. CASE i = n
          <6>1. k + 1 \in 1 .. n
            BY <5>2, <4>1, <4>2, <1>0
          <6>2. o[k + 1] \in 1 .. n /\ b = 0
            BY <5>2, <6>1, <2>2, <1>1
          <6> HIDE DEF b
          <6> QED
            BY <6>2, <1>0
        <5> QED
          BY <5>1, <5>2, <2>1, <1>0
      <4>5. q[j] = o[k] /\ q[j + 1] = o[k + 1] /\ d[o[k + 1]][f] = o[k]
        BY <3>0, <4>1, <4>2, <1>2 DEF k
      <4>6. o[k + 1] \in 0 .. Cap
        BY <4>2, <1>0, <1>1
      <4> HIDE DEF a, b, h, idx
      <4> QED
        BY <4>3, <4>4, <4>5, <4>6, <2>6
    <3> QED
      BY <1>0, <3>1, <3>2, <3>3, <3>4
  <2>10. Chained(r, n, q, f, t)
    BY <2>8, <2>9 DEF Chained
  <2> QED
    BY <2>6, <2>10 DEF r, q
<1> QED
  BY <1>5, <1>6

\* The same list, read from its tail.
Reversed(o, n) == [j \in 0 .. n + 1 |-> o[(n + 1) - j]]

LEMMA ReversedIs ==
  ASSUME NEW n \in Nat, NEW o, IsOrder(o, n)
  PROVE  /\ IsOrder(Reversed(o, n), n)
         /\ \A d, f, t : Chained(d, n, o, f, t) => Chained(d, n, Reversed(o, n), t, f)
<1> DEFINE q == Reversed(o, n)
<1>1. /\ o \in [0 .. n + 1 -> 0 .. n] /\ o[0] = 0 /\ o[n + 1] = 0
      /\ \A j, k \in 0 .. n : o[j] = o[k] => j = k
      /\ \A x \in 1 .. n : \E j \in 1 .. n : o[j] = x
  BY DEF IsOrder
<1>2. \A j \in 0 .. n + 1 : (n + 1) - j \in 0 .. n + 1 /\ q[j] = o[(n + 1) - j]
  BY DEF Reversed
<1>3. q \in [0 .. n + 1 -> 0 .. n]
  BY <1>1, <1>2 DEF Reversed
<1> HIDE DEF q
<1>4. q[0] = 0 /\ q[n + 1] = 0
  <2>1. 0 \in 0 .. n + 1 /\ n + 1 \in 0 .. n + 1 /\ (n + 1) - 0 = n + 1 /\ (n + 1) - (n + 1) = 0
    OBVIOUS
  <2> QED
    BY <1>1, <1>2, <2>1
<1>5. \A j \in 1 .. n : j \in 0 .. n /\ j \in 0 .. n + 1 /\ j # 0
  OBVIOUS
<1>6. \A j \in 1 .. n : o[j] # 0
  <2>1. 0 \in 0 .. n
    OBVIOUS
  <2> QED
    BY <1>1, <1>5, <2>1
<1>7. \A j, k \in 0 .. n : q[j] = q[k] => j = k
  <2> SUFFICES ASSUME NEW j \in 0 .. n, NEW k \in 0 .. n, q[j] = q[k] PROVE j = k
    OBVIOUS
  <2>1. o[(n + 1) - j] = o[(n + 1) - k]
    BY <1>2
  <2>2. CASE j # 0 /\ k # 0
    <3>1. (n + 1) - j \in 0 .. n /\ (n + 1) - k \in 0 .. n
      BY <2>2
    <3>2. (n + 1) - j = (n + 1) - k
      BY <1>1, <2>1, <3>1
    <3> QED
      BY <3>2
  <2>3. CASE j = 0 /\ k # 0
    <3>1. (n + 1) - k \in 1 .. n /\ (n + 1) - j = n + 1
      BY <2>3
    <3> QED
      BY <1>1, <1>6, <2>1, <3>1
  <2>4. CASE j # 0 /\ k = 0
    <3>1. (n + 1) - j \in 1 .. n /\ (n + 1) - k = n + 1
      BY <2>4
    <3> QED
      BY <1>1, <1>6, <2>1, <3>1
  <2> QED
    BY <2>2, <2>3, <2>4
<1>8. \A x \in 1 .. n : \E j \in 1 .. n : q[j] = x
  <2> SUFFICES ASSUME NEW x \in 1 .. n PROVE \E j \in 1 .. n : q[j] = x
    OBVIOUS
  <2>1. PICK k \in 1 .. n : o[k] = x
    BY <1>1
  <2>2. (n + 1) - k \in 1 .. n /\ (n + 1) - k \in 0 .. n + 1 /\ (n + 1) - ((n + 1) - k) = k
    OBVIOUS
  <2>3. q[(n + 1) - k] = x
    BY <1>2, <2>1, <2>2
  <2> QED
    BY <2>2, <2>3
<1>9. ASSUME NEW d, NEW f, NEW t, Chained(d, n, o, f, t) PROVE Chained(d, n, q, t, f)
  <2> SUFFICES ASSUME NEW j \in 0 .. n PROVE d[q[j]][f] = q[j + 1] /\ d[q[j + 1]][t] = q[j]
    BY DEF Chained
  <2> DEFINE k == n - j
  <2>1. k \in 0 .. n /\ (n + 1) - j = k + 1 /\ (n + 1) - (j + 1) = k /\ j + 1 \in 0 .. n + 1 /\ j \in 0 .. n + 1
    OBVIOUS
  <2> HIDE DEF k
  <2>2. q[j] = o[k + 1] /\ q[j + 1] = o[k]
    BY <1>2, <2>1
  <2>3. d[o[k]][t] = o[k + 1] /\ d[o[k + 1]][f] = o[k]
    BY <1>9, <2>1 DEF Chained
  <2> QED
    BY <2>2, <2>3
<1> QED
  BY <1>3, <1>4, <1>7, <1>8, <1>9 DEF IsOrder, q

\* The order with a new slot n + 1 in front.
Pushed(o, n) == [j \in 0 .. n + 2 |-> IF j = 0 THEN 0 ELSE IF j = 1 THEN n + 1 ELSE o[j - 1]]

LEMMA PushedIsOrder ==
  ASSUME NEW n \in Nat, NEW o, IsOrder(o, n)
  PROVE  IsOrder(Pushed(o, n), n + 1)
<1> DEFINE q == Pushed(o, n)
<1>1. /\ o \in [0 .. n + 1 -> 0 .. n] /\ o[0] = 0 /\ o[n + 1] = 0
      /\ \A j, k \in 0 .. n : o[j] = o[k] => j = k
      /\ \A x \in 1 .. n : \E j \in 1 .. n : o[j] = x
  BY DEF IsOrder
<1>2. (n + 1) + 1 = n + 2
  OBVIOUS
<1>3. /\ q[0] = 0 /\ q[1] = n + 1 /\ q[n + 2] = o[n + 1]
      /\ \A j \in 2 .. n + 2 : q[j] = o[j - 1] /\ j - 1 \in 1 .. n + 1
  BY DEF Pushed
<1>4. q \in [0 .. n + 2 -> 0 .. n + 1]
  <2>1. \A j \in 0 .. n + 2 : (IF j = 0 THEN 0 ELSE IF j = 1 THEN n + 1 ELSE o[j - 1]) \in 0 .. n + 1
    <3> SUFFICES ASSUME NEW j \in 0 .. n + 2, j # 0, j # 1 PROVE o[j - 1] \in 0 .. n + 1
      OBVIOUS
    <3>1. j - 1 \in 0 .. n + 1
      OBVIOUS
    <3>2. o[j - 1] \in 0 .. n
      BY <1>1, <3>1
    <3> QED
      BY <3>2
  <2> QED
    BY <2>1 DEF Pushed
<1> HIDE DEF q
<1>5. \A j \in 1 .. n : o[j] # 0 /\ o[j] # n + 1
  <2> SUFFICES ASSUME NEW j \in 1 .. n PROVE o[j] # 0 /\ o[j] # n + 1
    OBVIOUS
  <2>1. 0 \in 0 .. n /\ j \in 0 .. n /\ j \in 0 .. n + 1 /\ j # 0
    OBVIOUS
  <2>2. o[j] \in 0 .. n /\ o[j] # o[0]
    BY <1>1, <2>1
  <2> QED
    BY <1>1, <2>2
<1>6. \A j, k \in 0 .. n + 1 : q[j] = q[k] => j = k
  <2> SUFFICES ASSUME NEW j \in 0 .. n + 1, NEW k \in 0 .. n + 1, q[j] = q[k] PROVE j = k
    OBVIOUS
  <2>1. \A x \in 0 .. n + 1 : x = 0 \/ x = 1 \/ (x - 1 \in 1 .. n /\ x - 1 \in 0 .. n /\ x \in 2 .. n + 2)
    OBVIOUS
  <2>2. CASE j = 0 \/ j = 1 \/ k = 0 \/ k = 1
    <3>1. \A x \in 2 .. n + 1 : q[x] # 0 /\ q[x] # n + 1
      <4> SUFFICES ASSUME NEW x \in 2 .. n + 1 PROVE q[x] # 0 /\ q[x] # n + 1
        OBVIOUS
      <4>1. x - 1 \in 1 .. n /\ x \in 2 .. n + 2
        OBVIOUS
      <4> QED
        BY <1>3, <1>5, <4>1
    <3>2. q[0] # q[1]
      BY <1>3
    <3>3. \A x \in 0 .. n + 1 : x = 0 \/ x = 1 \/ x \in 2 .. n + 1
      OBVIOUS
    <3> QED
      BY <1>3, <2>2, <3>1, <3>2, <3>3
  <2>3. CASE j # 0 /\ j # 1 /\ k # 0 /\ k # 1
    <3>1. o[j - 1] = o[k - 1]
      BY <1>3, <2>1, <2>3
    <3>2. j - 1 = k - 1
      BY <1>1, <2>1, <2>3, <3>1
    <3> QED
      BY <3>2
  <2> QED
    BY <2>2, <2>3
<1>7. \A x \in 1 .. n + 1 : \E j \in 1 .. n + 1 : q[j] = x
  <2> SUFFICES ASSUME NEW x \in 1 .. n + 1 PROVE \E j \in 1 .. n + 1 : q[j] = x
    OBVIOUS
  <2>1. CASE x = n + 1
    <3>1. 1 \in 1 .. n + 1
      OBVIOUS
    <3> QED
      BY <1>3, <2>1, <3>1
  <2>2. CASE x \in 1 .. n
    <3>1. PICK k \in 1 .. n : o[k] = x
      BY <1>1, <2>2
    <3>2. k + 1 \in 1 .. n + 1 /\ k + 1 \in 2 .. n + 2 /\ (k + 1) - 1 = k
      OBVIOUS
    <3> QED
      BY <1>3, <3>1, <3>2
  <2> QED
    BY <2>1, <2>2
<1> QED
  BY <1>1, <1>2, <1>3, <1>4, <1>6, <1>7 DEF IsOrder, q

\* The links with a new slot in front.
LEMMA PushedChained ==
  ASSUME NEW d, NEW e, NEW n \in Nat, n < Cap, NEW o, IsOrder(o, n), Chained(d, n, o, "p", "n"),
         \A x \in 0 .. Cap :
           /\ e[x].p = IF x = n + 1 THEN 0 ELSE IF x = o[1] THEN n + 1 ELSE d[x].p
           /\ e[x].n = IF x = n + 1 THEN o[1] ELSE IF x = 0 THEN n + 1 ELSE d[x].n
  PROVE  Chained(e, n + 1, Pushed(o, n), "p", "n")
<1> DEFINE q == Pushed(o, n)
<1>0. Cap \in Nat
  BY Lru2Assumption
<1>1. /\ o \in [0 .. n + 1 -> 0 .. n] /\ o[0] = 0 /\ o[n + 1] = 0
      /\ \A j, k \in 0 .. n : o[j] = o[k] => j = k
  BY DEF IsOrder
<1>2. q[0] = 0 /\ q[1] = n + 1 /\ \A j \in 2 .. n + 2 : q[j] = o[j - 1]
  BY DEF Pushed
<1> HIDE DEF q
<1>3. \A j \in 0 .. n : d[o[j]].n = o[j + 1] /\ d[o[j + 1]].p = o[j]
  BY DEF Chained
<1>4. \A j \in 0 .. n + 1 : o[j] \in 0 .. Cap /\ o[j] # n + 1
  <2> SUFFICES ASSUME NEW j \in 0 .. n + 1 PROVE o[j] \in 0 .. Cap /\ o[j] # n + 1
    OBVIOUS
  <2>1. o[j] \in 0 .. n
    BY <1>1
  <2> QED
    BY <1>0, <2>1
<1> SUFFICES ASSUME NEW j \in 0 .. n + 1 PROVE e[q[j]].n = q[j + 1] /\ e[q[j + 1]].p = q[j]
  BY DEF Chained, q
<1>5. CASE j = 0
  <2>1. q[j] = 0 /\ q[j + 1] = n + 1 /\ 0 \in 0 .. Cap /\ n + 1 \in 0 .. Cap /\ 0 # n + 1
    BY <1>0, <1>2, <1>5
  <2> QED
    BY <2>1
<1>6. CASE j = 1
  <2>1. q[j] = n + 1 /\ j + 1 \in 2 .. n + 2 /\ (j + 1) - 1 = 1 /\ n + 1 \in 0 .. Cap /\ 1 \in 0 .. n + 1
    BY <1>0, <1>2, <1>6
  <2>2. q[j + 1] = o[1]
    BY <1>2, <2>1
  <2> QED
    BY <2>1, <2>2, <1>4
<1>7. CASE j \in 2 .. n + 1
  <2> DEFINE k == j - 1
  <2>1. k \in 1 .. n /\ k \in 0 .. n /\ k \in 0 .. n + 1 /\ k + 1 \in 0 .. n + 1 /\ j \in 2 .. n + 2
        /\ j + 1 \in 2 .. n + 2 /\ j - 1 = k /\ (j + 1) - 1 = k + 1 /\ k # 0 /\ 0 \in 0 .. n
    BY <1>7
  <2>2. q[j] = o[k] /\ q[j + 1] = o[k + 1]
    BY <1>2, <2>1
  <2> HIDE DEF k
  <2>3. o[k] # 0
    BY <1>1, <2>1
  <2>4. o[k + 1] # o[1]
    <3>1. CASE k = n
      <4>1. 1 \in 0 .. n /\ 1 # 0
        BY <3>1, <2>1
      <4>2. o[1] # o[0]
        BY <4>1, <2>1, <1>1
      <4> QED
        BY <3>1, <4>2, <1>1
    <3>2. CASE k # n
      <4>1. k + 1 \in 0 .. n /\ 1 \in 0 .. n /\ k + 1 # 1
        BY <3>2, <2>1
      <4> QED
        BY <4>1, <1>1
    <3> QED
      BY <3>1, <3>2
  <2>5. e[o[k]].n = d[o[k]].n /\ e[o[k + 1]].p = d[o[k + 1]].p
    BY <1>4, <2>1, <2>3, <2>4
  <2> QED
    BY <1>3, <2>1, <2>2, <2>5
<1> QED
  BY <1>5, <1>6, <1>7

-----------------------------------------------------------------------------
\* The invariant: the slots in use hold keys, the map agrees with them, and the links
\* follow some order of them.
Laid(o) == IsOrder(o, last) /\ Chained(dlnk, last, o, "p", "n")

Lru2Inv ==
  /\ TypeOK /\ MapAgrees
  /\ \A i \in 1 .. last : m[i].k \in Keys
  /\ \E o : Laid(o)

\* The recursive function that follows the successors meets that order.
LEMMA OrderIs ==
  ASSUME TypeOK, NEW o, Laid(o)
  PROVE  Order = [j \in 1 .. last |-> o[j]]
<1> DEFINE Follows(g) == g = [j \in 0 .. last |-> IF j = 0 THEN 0 ELSE dlnk[g[j - 1]].n]
           at == CHOOSE g : Follows(g)
           w == [j \in 0 .. last |-> o[j]]
           Bad == {j \in Nat : j \in 0 .. last /\ at[j] # o[j]}
           Lt == OpToRel(<, Nat)
<1>0. last \in Nat
  BY Lru2Assumption DEF TypeOK
<1>1. /\ o \in [0 .. last + 1 -> 0 .. last] /\ o[0] = 0
      /\ \A j \in 0 .. last : dlnk[o[j]].n = o[j + 1]
  BY DEF Laid, IsOrder, Chained
<1>2. \A j \in 1 .. last : dlnk[o[j - 1]].n = o[j] /\ j - 1 \in 0 .. last
  <2> SUFFICES ASSUME NEW j \in 1 .. last PROVE dlnk[o[j - 1]].n = o[j] /\ j - 1 \in 0 .. last
    OBVIOUS
  <2>1. j - 1 \in 0 .. last /\ (j - 1) + 1 = j
    BY <1>0
  <2> QED
    BY <1>1, <2>1
<1>3. Follows(w)
  <2> DEFINE v == [j \in 0 .. last |-> IF j = 0 THEN 0 ELSE dlnk[w[j - 1]].n]
  <2>1. ASSUME NEW j \in 0 .. last PROVE w[j] = IF j = 0 THEN 0 ELSE dlnk[w[j - 1]].n
    <3>1. CASE j = 0
      BY <3>1, <1>1
    <3>2. CASE j # 0
      <4>1. j \in 1 .. last
        BY <3>2, <1>0
      <4>2. w[j - 1] = o[j - 1] /\ w[j] = o[j]
        BY <1>2, <4>1
      <4> HIDE DEF w
      <4> QED
        BY <1>2, <3>2, <4>1, <4>2
    <3> QED
      BY <3>1, <3>2
  <2>2. w = [j \in 0 .. last |-> w[j]]
    OBVIOUS
  <2> HIDE DEF w
  <2>3. w = [j \in 0 .. last |-> IF j = 0 THEN 0 ELSE dlnk[w[j - 1]].n]
    BY <2>1, <2>2
  <2> QED
    BY <2>3
<1>4. Follows(at)
  <2> HIDE DEF Follows, w
  <2> QED
    BY <1>3
<1>5. Order = [j \in 1 .. last |-> at[j]]
  BY Zenon DEF Order, Follows
<1>6. at[0] = 0 /\ \A j \in 1 .. last : at[j] = dlnk[at[j - 1]].n
  <2> HIDE DEF at
  <2>1. at = [j \in 0 .. last |-> IF j = 0 THEN 0 ELSE dlnk[at[j - 1]].n]
    BY <1>4
  <2>2. \A j \in 0 .. last : at[j] = IF j = 0 THEN 0 ELSE dlnk[at[j - 1]].n
    BY <2>1
  <2>3. 0 \in 0 .. last /\ \A j \in 1 .. last : j \in 0 .. last /\ j # 0
    BY <1>0
  <2> HIDE DEF Follows
  <2> QED
    BY <2>2, <2>3
<1> HIDE DEF at, Follows, w
<1>7. \A x, y \in Nat : y < x => <<y, x>> \in Lt
  BY DEF OpToRel
<1>8. IsWellFoundedOn(Lt, Nat)
  BY NatLessThanWellFounded
<1> HIDE DEF Lt
<1>9. ASSUME Bad # {} PROVE FALSE
  <2>1. PICK k \in Bad : \A y \in Bad : ~(<<y, k>> \in Lt)
    BY <1>8, <1>9, WFMin
  <2>2. k \in Nat /\ k \in 0 .. last /\ at[k] # o[k]
    OBVIOUS
  <2>3. k # 0
    BY <2>2, <1>1, <1>6
  <2>4. k - 1 \in Nat /\ k - 1 < k /\ k - 1 \in 0 .. last /\ k \in 1 .. last
    BY <1>0, <2>2, <2>3
  <2>5. at[k - 1] = o[k - 1]
    BY <2>1, <2>2, <2>4, <1>7
  <2> QED
    BY <1>2, <1>6, <2>2, <2>4, <2>5
<1>10. \A j \in 1 .. last : at[j] = o[j]
  <2>1. \A j \in 1 .. last : j \in Nat /\ j \in 0 .. last
    BY <1>0
  <2> QED
    BY <1>9, <2>1
<1> QED
  BY <1>5, <1>10

\* What the invariant is for.
LEMMA Lru2InvSound == Lru2Inv => WellFormed
<1> SUFFICES ASSUME Lru2Inv PROVE WellFormed
  OBVIOUS
<1>1. PICK o : Laid(o)
  BY DEF Lru2Inv
<1>2. last \in Nat /\ TypeOK
  <2>1. TypeOK
    BY DEF Lru2Inv
  <2>2. last \in 0 .. Cap
    BY <2>1 DEF TypeOK
  <2> QED
    BY <2>1, <2>2, Lru2Assumption
<1>3. /\ o \in [0 .. last + 1 -> 0 .. last] /\ o[0] = 0 /\ o[last + 1] = 0
      /\ \A j, k \in 0 .. last : o[j] = o[k] => j = k
      /\ \A x \in 1 .. last : \E j \in 1 .. last : o[j] = x
      /\ \A j \in 0 .. last : dlnk[o[j]].n = o[j + 1] /\ dlnk[o[j + 1]].p = o[j]
  BY <1>1 DEF Laid, IsOrder, Chained
<1>4. {Order[j] : j \in 1 .. last} = 1 .. last
  <2>1. Order = [j \in 1 .. last |-> o[j]]
    BY <1>1, <1>2, OrderIs
  <2>2. \A j \in 1 .. last : Order[j] = o[j]
    BY <2>1
  <2>3. \A j \in 1 .. last : o[j] \in 1 .. last
    <3> SUFFICES ASSUME NEW j \in 1 .. last PROVE o[j] \in 1 .. last
      OBVIOUS
    <3>1. j \in 0 .. last /\ j \in 0 .. last + 1 /\ 0 \in 0 .. last /\ j # 0
      BY <1>2
    <3>2. o[j] \in 0 .. last /\ o[j] # 0
      BY <1>3, <3>1
    <3> QED
      BY <1>2, <3>2
  <2>4. \A x \in 1 .. last : \E j \in 1 .. last : x = Order[j]
    <3> SUFFICES ASSUME NEW x \in 1 .. last PROVE \E j \in 1 .. last : x = Order[j]
      OBVIOUS
    <3>1. PICK j \in 1 .. last : o[j] = x
      BY <1>3
    <3> QED
      BY <2>2, <3>1
  <2>5. \A j \in 1 .. last : Order[j] \in 1 .. last
    BY <2>2, <2>3
  <2> HIDE DEF Order
  <2> QED
    BY <2>4, <2>5, Zenon
<1>5. ASSUME NEW i \in 0 .. last PROVE dlnk[dlnk[i].n].p = i /\ dlnk[dlnk[i].p].n = i
  <2>1. PICK j \in 0 .. last : o[j] = i
    <3>1. 0 \in 0 .. last /\ 1 .. last \subseteq 0 .. last /\ (i = 0 \/ i \in 1 .. last)
      BY <1>2
    <3> QED
      BY <1>3, <3>1
  <2>2. dlnk[dlnk[i].n].p = i
    BY <1>3, <2>1
  <2>3. PICK k \in 0 .. last : o[k + 1] = i
    <3>1. CASE j = 0
      <4>1. last \in 0 .. last
        BY <1>2
      <4> QED
        BY <1>3, <2>1, <3>1, <4>1
    <3>2. CASE j # 0
      <4>1. j - 1 \in 0 .. last /\ (j - 1) + 1 = j
        BY <1>2, <3>2
      <4> QED
        BY <2>1, <4>1
    <3> QED
      BY <3>1, <3>2
  <2>4. dlnk[dlnk[i].p].n = i
    BY <1>3, <2>3
  <2> QED
    BY <2>2, <2>4
<1> QED
  BY <1>2, <1>4, <1>5 DEF WellFormed, LinkedList, Lru2Inv

\* A slot that is in use goes to the head.
LEMMA ToHead ==
  ASSUME NEW d \in Links, NEW n \in 1 .. Cap, NEW o, IsOrder(o, n), Chained(d, n, o, "p", "n"),
         NEW idx \in 1 .. n
  PROVE  /\ Adjust(d, idx, "p", "n") \in Links
         /\ \E i \in 1 .. n : /\ o[i] = idx
                              /\ IsOrder(Moved(o, n, i), n)
                              /\ Chained(Adjust(d, idx, "p", "n"), n, Moved(o, n, i), "p", "n")
<1>1. PICK i \in 1 .. n : o[i] = idx
  BY DEF IsOrder
<1>2. "p" \in Ways /\ "n" \in Ways /\ "p" # "n" /\ n \in Nat
  BY Lru2Assumption DEF Ways
<1>3. /\ Adjust(d, o[i], "p", "n") \in Links
      /\ Chained(Adjust(d, o[i], "p", "n"), n, Moved(o, n, i), "p", "n")
  BY <1>2, AdjustMoves
<1>4. IsOrder(Moved(o, n, i), n)
  BY <1>2, MovedIsOrder
<1> QED
  BY <1>1, <1>3, <1>4

\* And to the tail: the same, read from the other end.
Sunk(o, n, i) == Reversed(Moved(Reversed(o, n), n, (n + 1) - i), n)

LEMMA ToTail ==
  ASSUME NEW d \in Links, NEW n \in 1 .. Cap, NEW o, IsOrder(o, n), Chained(d, n, o, "p", "n"),
         NEW idx \in 1 .. n
  PROVE  /\ Adjust(d, idx, "n", "p") \in Links
         /\ \E i \in 1 .. n : /\ o[i] = idx
                              /\ IsOrder(Sunk(o, n, i), n)
                              /\ Chained(Adjust(d, idx, "n", "p"), n, Sunk(o, n, i), "p", "n")
<1>1. PICK i \in 1 .. n : o[i] = idx
  BY DEF IsOrder
<1>2. "p" \in Ways /\ "n" \in Ways /\ "n" # "p" /\ n \in Nat
  BY Lru2Assumption DEF Ways
<1>3. PICK k : k = (n + 1) - i
  OBVIOUS
<1>4. k \in 1 .. n /\ k \in 0 .. n + 1 /\ (n + 1) - k = i
  BY <1>2, <1>3
<1>5. PICK r : r = Reversed(o, n)
  OBVIOUS
<1>6. r[k] = idx
  BY <1>1, <1>4, <1>5 DEF Reversed
<1>7. IsOrder(r, n) /\ Chained(d, n, r, "n", "p")
  BY <1>2, <1>5, ReversedIs
<1>8. /\ Adjust(d, r[k], "n", "p") \in Links
      /\ Chained(Adjust(d, r[k], "n", "p"), n, Moved(r, n, k), "n", "p")
  BY <1>2, <1>4, <1>7, AdjustMoves
<1>9. IsOrder(Moved(r, n, k), n)
  BY <1>2, <1>4, <1>7, MovedIsOrder
<1>10. /\ IsOrder(Reversed(Moved(r, n, k), n), n)
       /\ Chained(Adjust(d, r[k], "n", "p"), n, Reversed(Moved(r, n, k), n), "p", "n")
  BY <1>2, <1>8, <1>9, ReversedIs
<1>11. Sunk(o, n, i) = Reversed(Moved(r, n, k), n)
  BY <1>3, <1>5, Zenon DEF Sunk
<1> QED
  BY <1>1, <1>6, <1>8, <1>10, <1>11

-----------------------------------------------------------------------------
\* What the invariant says, ready for use.
LEMMA Lru2Facts ==
  ASSUME Lru2Inv
  PROVE  /\ Cap \in Nat /\ last \in Nat /\ last \in 0 .. Cap /\ dlnk \in Links
         /\ m \in [Slots -> [k : Keys \cup {NoKey}, v : Values \cup {NoKey}, expireAt : Times \cup {0}]]
         /\ hmap \in [Keys -> 0 .. Cap]
         /\ \A k \in Keys : hmap[k] # 0 => hmap[k] \in 1 .. last /\ m[hmap[k]].k = k
         /\ \A i \in 1 .. last : m[i].k \in Keys /\ hmap[m[i].k] = i /\ i \in Slots
         /\ \E o : Laid(o)
<1>1. TypeOK /\ MapAgrees /\ (\A i \in 1 .. last : m[i].k \in Keys) /\ \E o : Laid(o)
  BY DEF Lru2Inv
<1>2. last \in 0 .. Cap /\ hmap \in [Keys -> 0 .. Cap] /\ dlnk \in Links
  BY <1>1 DEF TypeOK, Links
<1>3. Cap \in Nat /\ last \in Nat
  BY <1>2, Lru2Assumption
<1>4. ASSUME NEW k \in Keys, hmap[k] # 0 PROVE hmap[k] \in 1 .. last /\ m[hmap[k]].k = k
  <2>1. hmap[k] \in 0 .. Cap /\ hmap[k] <= last /\ m[hmap[k]].k = k
    BY <1>1, <1>2, <1>4 DEF MapAgrees
  <2> QED
    BY <2>1, <1>3, <1>4
<1>5. ASSUME NEW i \in 1 .. last PROVE hmap[m[i].k] = i /\ i \in Slots
  <2>1. hmap[m[i].k] = i
    BY <1>1 DEF MapAgrees
  <2> QED
    BY <2>1, <1>2, <1>3 DEF Slots
<1> QED
  BY <1>1, <1>2, <1>3, <1>4, <1>5 DEF TypeOK

\* The parts of the invariant after a step, put together.
LEMMA Lru2InvAfter ==
  ASSUME dlnk' \in Links,
         m' \in [Slots -> [k : Keys \cup {NoKey}, v : Values \cup {NoKey}, expireAt : Times \cup {0}]],
         hmap' \in [Keys -> 0 .. Cap], last' \in 0 .. Cap,
         \A k \in Keys : hmap'[k] # 0 => hmap'[k] <= last' /\ m'[hmap'[k]].k = k,
         \A i \in 1 .. last' : m'[i].k \in Keys /\ hmap'[m'[i].k] = i,
         \E o : IsOrder(o, last') /\ Chained(dlnk', last', o, "p", "n")
  PROVE  Lru2Inv'
<1>1. TypeOK'
  BY DEF TypeOK, Links
<1>2. MapAgrees'
  BY DEF MapAgrees
<1>3. (\E o : Laid(o))'
  BY DEF Laid
<1> QED
  BY <1>1, <1>2, <1>3 DEF Lru2Inv

\* adjust, to either end, keeps the list whole.
LEMMA AdjustKeeps ==
  ASSUME Lru2Inv, NEW idx \in 1 .. last,
         NEW e, e = Adjust(dlnk, idx, "p", "n") \/ e = Adjust(dlnk, idx, "n", "p")
  PROVE  e \in Links /\ \E q : IsOrder(q, last) /\ Chained(e, last, q, "p", "n")
<1>1. PICK o : Laid(o)
  BY Lru2Facts
<1>2. last \in 1 .. Cap /\ dlnk \in Links
  BY Lru2Facts
<1>3. IsOrder(o, last) /\ Chained(dlnk, last, o, "p", "n")
  BY <1>1 DEF Laid
<1>4. CASE e = Adjust(dlnk, idx, "p", "n")
  BY <1>2, <1>3, <1>4, ToHead
<1>5. CASE e = Adjust(dlnk, idx, "n", "p")
  BY <1>2, <1>3, <1>5, ToTail
<1> QED
  BY <1>4, <1>5

LEMMA PutUpdateKeeps ==
  ASSUME Lru2Inv, NEW k \in Keys, NEW v \in Values, NEW e \in Times, PutUpdate(k, v, e)
  PROVE  Lru2Inv'
<1>1. hmap[k] \in 1 .. last /\ m[hmap[k]].k = k /\ hmap[k] \in Slots
  BY Lru2Facts DEF PutUpdate
<1>2. dlnk' \in Links /\ \E q : IsOrder(q, last) /\ Chained(dlnk', last, q, "p", "n")
  BY <1>1, AdjustKeeps DEF PutUpdate
<1>3. hmap' = hmap /\ last' = last /\ m' = [m EXCEPT ![hmap[k]].v = v, ![hmap[k]].expireAt = e]
  BY DEF PutUpdate
<1>4. /\ m' \in [Slots -> [k : Keys \cup {NoKey}, v : Values \cup {NoKey}, expireAt : Times \cup {0}]]
      /\ \A i \in Slots : m'[i].k = m[i].k
  BY <1>1, <1>3, Lru2Facts
<1>5. /\ \A x \in Keys : hmap[x] # 0 => hmap[x] \in Slots /\ hmap[x] <= last
      /\ last \in 0 .. Cap
  BY Lru2Facts
<1> QED
  BY <1>2, <1>3, <1>4, <1>5, Lru2Facts, Lru2InvAfter

LEMMA GetKeeps ==
  ASSUME Lru2Inv, NEW k \in Keys, GetHit(k)
  PROVE  Lru2Inv'
<1>1. hmap[k] \in 1 .. last
  BY Lru2Facts DEF GetHit
<1>2. dlnk' \in Links /\ \E q : IsOrder(q, last) /\ Chained(dlnk', last, q, "p", "n")
  BY <1>1, AdjustKeeps DEF GetHit
<1>3. hmap' = hmap /\ last' = last /\ m' = m
  BY DEF GetHit
<1>4. \A x \in Keys : hmap[x] # 0 => hmap[x] <= last
  BY Lru2Facts
<1> QED
  BY <1>2, <1>3, <1>4, Lru2Facts, Lru2InvAfter

LEMMA DelKeeps ==
  ASSUME Lru2Inv, NEW k \in Keys, DelKey(k)
  PROVE  Lru2Inv'
<1>1. hmap[k] \in 1 .. last /\ m[hmap[k]].k = k /\ hmap[k] \in Slots
  BY Lru2Facts DEF DelKey
<1>2. dlnk' \in Links /\ \E q : IsOrder(q, last) /\ Chained(dlnk', last, q, "p", "n")
  BY <1>1, AdjustKeeps DEF DelKey
<1>3. hmap' = hmap /\ last' = last /\ m' = [m EXCEPT ![hmap[k]].expireAt = 0]
  BY DEF DelKey
<1>4. /\ m' \in [Slots -> [k : Keys \cup {NoKey}, v : Values \cup {NoKey}, expireAt : Times \cup {0}]]
      /\ \A i \in Slots : m'[i].k = m[i].k
  BY <1>1, <1>3, Lru2Facts
<1>5. /\ \A x \in Keys : hmap[x] # 0 => hmap[x] \in Slots /\ hmap[x] <= last
      /\ last \in 0 .. Cap
  BY Lru2Facts
<1> QED
  BY <1>2, <1>3, <1>4, <1>5, Lru2Facts, Lru2InvAfter

\* The slot before the sentinel is a slot in use: the one put reuses.
LEMMA TailIs ==
  ASSUME Lru2Inv, last # 0, NEW o, Laid(o)
  PROVE  dlnk[0].p = o[last] /\ dlnk[0].p \in 1 .. last
<1>1. last \in Nat /\ last \in 1 .. last /\ last \in 0 .. last /\ 0 \in 0 .. last
  BY Lru2Facts
<1>2. /\ o \in [0 .. last + 1 -> 0 .. last] /\ o[0] = 0 /\ o[last + 1] = 0
      /\ \A j, k \in 0 .. last : o[j] = o[k] => j = k
      /\ \A j \in 0 .. last : dlnk[o[j + 1]].p = o[j]
  BY DEF Laid, IsOrder, Chained
<1>3. dlnk[0].p = o[last]
  BY <1>1, <1>2
<1>4. o[last] # 0 /\ o[last] \in 0 .. last
  BY <1>1, <1>2
<1> QED
  BY <1>1, <1>3, <1>4

LEMMA PutEvictKeeps ==
  ASSUME Lru2Inv, NEW k \in Keys, NEW v \in Values, NEW e \in Times, PutEvict(k, v, e)
  PROVE  Lru2Inv'
<1>0. last = Cap /\ last # 0 /\ hmap[k] = 0
  BY Lru2Assumption DEF PutEvict
<1>1. PICK tail : tail = dlnk[0].p
  OBVIOUS
<1>2. tail \in 1 .. last /\ tail \in Slots /\ m[tail].k \in Keys /\ hmap[m[tail].k] = tail /\ tail # 0
  BY <1>0, <1>1, Lru2Facts, TailIs
<1>3. dlnk' \in Links /\ \E q : IsOrder(q, last) /\ Chained(dlnk', last, q, "p", "n")
  BY <1>1, <1>2, AdjustKeeps DEF PutEvict
<1>4. /\ last' = last
      /\ hmap' = [hmap EXCEPT ![m[tail].k] = 0, ![k] = tail]
      /\ m' = [m EXCEPT ![tail] = [k |-> k, v |-> v, expireAt |-> e]]
  BY <1>1 DEF PutEvict, SetNode
<1>5. /\ hmap' \in [Keys -> 0 .. Cap]
      /\ \A x \in Keys : hmap'[x] = IF x = k THEN tail ELSE IF x = m[tail].k THEN 0 ELSE hmap[x]
  BY <1>2, <1>4, Lru2Facts
<1>6. /\ m' \in [Slots -> [k : Keys \cup {NoKey}, v : Values \cup {NoKey}, expireAt : Times \cup {0}]]
      /\ \A i \in Slots : m'[i].k = IF i = tail THEN k ELSE m[i].k
  BY <1>2, <1>4, Lru2Facts
<1>7. ASSUME NEW x \in Keys, hmap'[x] # 0
      PROVE  hmap'[x] <= last /\ m'[hmap'[x]].k = x
  <2>1. CASE x = k
    BY <1>2, <1>5, <1>6, <2>1, Lru2Facts
  <2>2. CASE x # k
    <3>1. x # m[tail].k /\ hmap'[x] = hmap[x] /\ hmap[x] # 0
      BY <1>5, <1>7, <2>2
    <3>2. hmap[x] \in 1 .. last /\ m[hmap[x]].k = x /\ hmap[x] \in Slots
      BY <3>1, Lru2Facts
    <3> QED
      BY <1>6, <3>1, <3>2, Lru2Facts
  <2> QED
    BY <2>1, <2>2
<1>8. ASSUME NEW i \in 1 .. last
      PROVE  m'[i].k \in Keys /\ hmap'[m'[i].k] = i
  <2>0. i \in Slots /\ m[i].k \in Keys /\ hmap[m[i].k] = i /\ i # 0
    BY Lru2Facts
  <2>1. CASE i = tail
    BY <1>5, <1>6, <2>0, <2>1
  <2>2. CASE i # tail
    <3>1. m'[i].k = m[i].k /\ m[i].k # k /\ m[i].k # m[tail].k
      BY <1>0, <1>2, <1>6, <2>0, <2>2
    <3> QED
      BY <1>5, <2>0, <3>1
  <2> QED
    BY <2>1, <2>2
<1>9. last' \in 0 .. Cap
  BY <1>4, Lru2Facts
<1> QED
  BY <1>3, <1>4, <1>5, <1>6, <1>7, <1>8, <1>9, Lru2InvAfter

\* The links put leaves for a new slot, in both of its branches: with an empty map
\* the sentinel is its own successor.
LEMMA PushLinks ==
  ASSUME Lru2Inv, NEW k \in Keys, NEW v \in Values, NEW e \in Times, PutNew(k, v, e), NEW o, Laid(o)
  PROVE  /\ dlnk' \in Links
         /\ \A x \in 0 .. Cap :
              /\ dlnk'[x].p = IF x = last + 1 THEN 0 ELSE IF x = o[1] THEN last + 1 ELSE dlnk[x].p
              /\ dlnk'[x].n = IF x = last + 1 THEN o[1] ELSE IF x = 0 THEN last + 1 ELSE dlnk[x].n
<1>0. /\ last \in Nat /\ Cap \in Nat /\ last < Cap /\ last' = last + 1 /\ dlnk \in Links
      /\ 0 \in 0 .. last /\ 0 \in 0 .. Cap /\ last + 1 \in 0 .. Cap /\ last + 1 # 0
  BY Lru2Facts DEF PutNew
<1>1. /\ o \in [0 .. last + 1 -> 0 .. last] /\ o[0] = 0 /\ o[last + 1] = 0
      /\ \A j \in 0 .. last : dlnk[o[j]].n = o[j + 1]
  BY DEF Laid, IsOrder, Chained
<1>2. PICK h : h = o[1]
  OBVIOUS
<1>3. dlnk[0].n = h /\ h \in 0 .. Cap /\ h # last + 1
  <2>1. 0 + 1 = 1 /\ 1 \in 0 .. last + 1
    BY <1>0
  <2>2. dlnk[0].n = h /\ h \in 0 .. last
    BY <1>0, <1>1, <1>2, <2>1
  <2> QED
    BY <1>0, <2>2
<1>4. (\A x \in Keys : hmap[x] = 0) => h = 0
  <2> SUFFICES ASSUME \A x \in Keys : hmap[x] = 0 PROVE h = 0
    OBVIOUS
  <2>1. last = 0
    <3> SUFFICES ASSUME last # 0 PROVE FALSE
      OBVIOUS
    <3>1. 1 \in 1 .. last
      BY <1>0
    <3>2. m[1].k \in Keys /\ hmap[m[1].k] = 1
      BY <3>1, Lru2Facts
    <3> QED
      BY <3>2
  <2> QED
    BY <1>1, <1>2, <2>1
<1>5. PICK d1 : /\ d1 = IF \A x \in Keys : hmap[x] = 0 THEN [dlnk EXCEPT ![0].p = last + 1]
                                                      ELSE [dlnk EXCEPT ![h].p = last + 1]
               /\ dlnk' = [d1 EXCEPT ![last + 1] = [p |-> 0, n |-> d1[0].n], ![0].n = last + 1]
  BY <1>0, <1>3 DEF PutNew
<1>6. d1 = [dlnk EXCEPT ![h].p = last + 1]
  BY <1>4, <1>5
<1>7. /\ d1 \in Links
      /\ \A x \in 0 .. Cap : /\ d1[x].p = (IF x = h THEN last + 1 ELSE dlnk[x].p)
                             /\ d1[x].n = dlnk[x].n
  BY <1>0, <1>3, <1>6, SMTT(30) DEF Links
<1>8. d1[0].n = h
  BY <1>0, <1>3, <1>7
<1>9. dlnk' = [d1 EXCEPT ![last + 1] = [p |-> 0, n |-> h], ![0].n = last + 1]
  BY <1>5, <1>8
<1>10. PICK z : z = last + 1 /\ z \in 0 .. Cap /\ z # 0 /\ z # h
  BY <1>0, <1>3
<1>11. dlnk' = [d1 EXCEPT ![z] = [p |-> 0, n |-> h], ![0].n = z]
  BY <1>9, <1>10
<1>12. /\ dlnk' \in Links
       /\ \A x \in 0 .. Cap : /\ dlnk'[x].p = (IF x = z THEN 0 ELSE d1[x].p)
                              /\ dlnk'[x].n = (IF x = z THEN h ELSE IF x = 0 THEN z ELSE d1[x].n)
  <2>1. PICK d2 : d2 = [d1 EXCEPT ![z] = [p |-> 0, n |-> h]]
    OBVIOUS
  <2>2. /\ d2 \in Links
        /\ \A x \in 0 .. Cap : /\ d2[x].p = (IF x = z THEN 0 ELSE d1[x].p)
                               /\ d2[x].n = (IF x = z THEN h ELSE d1[x].n)
    <3>1. [p |-> 0, n |-> h] \in [p : 0 .. Cap, n : 0 .. Cap]
      BY <1>0, <1>3
    <3> QED
      BY <1>7, <1>10, <2>1, <3>1 DEF Links
  <2>3. dlnk' = Assigned(d2, 0, "n", z)
    BY <1>11, <2>1 DEF Assigned
  <2>4. /\ Assigned(d2, 0, "n", z) \in Links
        /\ \A x \in 0 .. Cap : /\ Assigned(d2, 0, "n", z)[x]["n"] = (IF x = 0 THEN z ELSE d2[x]["n"])
                               /\ Assigned(d2, 0, "n", z)[x]["p"] = d2[x]["p"]
    <3>1. "n" \in Ways /\ "p" \in Ways /\ "n" # "p"
      BY DEF Ways
    <3> QED
      BY <1>0, <1>10, <2>2, <3>1, SetLink
  <2> QED
    BY <1>10, <2>2, <2>3, <2>4
<1> QED
  BY <1>2, <1>7, <1>10, <1>12

LEMMA PutNewKeeps ==
  ASSUME Lru2Inv, NEW k \in Keys, NEW v \in Values, NEW e \in Times, PutNew(k, v, e)
  PROVE  Lru2Inv'
<1>0. /\ last \in Nat /\ Cap \in Nat /\ last < Cap /\ last' = last + 1 /\ hmap[k] = 0
      /\ hmap' = [hmap EXCEPT ![k] = last + 1]
      /\ m' = [m EXCEPT ![last + 1] = [k |-> k, v |-> v, expireAt |-> e]]
      /\ last + 1 \in Slots /\ last + 1 \in 0 .. Cap
  BY Lru2Facts DEF PutNew, SetNode, Slots
<1>1. PICK o : Laid(o)
  BY Lru2Facts
<1>2. /\ dlnk' \in Links
      /\ \A x \in 0 .. Cap :
           /\ dlnk'[x].p = IF x = last + 1 THEN 0 ELSE IF x = o[1] THEN last + 1 ELSE dlnk[x].p
           /\ dlnk'[x].n = IF x = last + 1 THEN o[1] ELSE IF x = 0 THEN last + 1 ELSE dlnk[x].n
  BY <1>1, PushLinks
<1>3. IsOrder(o, last) /\ Chained(dlnk, last, o, "p", "n")
  BY <1>1 DEF Laid
<1>4. IsOrder(Pushed(o, last), last + 1)
  BY <1>0, <1>3, PushedIsOrder
<1>5. Chained(dlnk', last + 1, Pushed(o, last), "p", "n")
  BY <1>0, <1>2, <1>3, PushedChained, ZenonT(40)
<1>6. \E q : IsOrder(q, last') /\ Chained(dlnk', last', q, "p", "n")
  BY <1>0, <1>4, <1>5
<1>7. /\ hmap' \in [Keys -> 0 .. Cap]
      /\ \A x \in Keys : hmap'[x] = IF x = k THEN last + 1 ELSE hmap[x]
  BY <1>0, Lru2Facts
<1>8. /\ m' \in [Slots -> [k : Keys \cup {NoKey}, v : Values \cup {NoKey}, expireAt : Times \cup {0}]]
      /\ \A i \in Slots : m'[i].k = IF i = last + 1 THEN k ELSE m[i].k
  <2>1. [k |-> k, v |-> v, expireAt |-> e]
          \in [k : Keys \cup {NoKey}, v : Values \cup {NoKey}, expireAt : Times \cup {0}]
    OBVIOUS
  <2>2. PICK z : z = last + 1
    OBVIOUS
  <2> QED
    BY <1>0, <2>1, <2>2, Lru2Facts
<1>9. ASSUME NEW x \in Keys, hmap'[x] # 0
      PROVE  hmap'[x] <= last' /\ m'[hmap'[x]].k = x
  <2>1. CASE x = k
    BY <1>0, <1>7, <1>8, <2>1
  <2>2. CASE x # k
    <3>1. hmap'[x] = hmap[x] /\ hmap[x] # 0
      BY <1>7, <1>9, <2>2
    <3>2. hmap[x] \in 1 .. last /\ m[hmap[x]].k = x /\ hmap[x] \in Slots
      BY <3>1, Lru2Facts
    <3>3. hmap[x] <= last' /\ hmap[x] # last + 1
      BY <1>0, <3>2
    <3> QED
      BY <1>8, <3>1, <3>2, <3>3
  <2> QED
    BY <2>1, <2>2
<1>10. ASSUME NEW i \in 1 .. last'
       PROVE  m'[i].k \in Keys /\ hmap'[m'[i].k] = i
  <2>1. CASE i = last + 1
    BY <1>0, <1>7, <1>8, <2>1
  <2>2. CASE i # last + 1
    <3>1. i \in 1 .. last /\ i # 0
      BY <1>0, <2>2
    <3>2. i \in Slots /\ m[i].k \in Keys /\ hmap[m[i].k] = i
      BY <3>1, Lru2Facts
    <3> QED
      BY <1>0, <1>7, <1>8, <2>2, <3>1, <3>2
  <2> QED
    BY <2>1, <2>2
<1> QED
  BY <1>0, <1>2, <1>6, <1>7, <1>8, <1>9, <1>10, Lru2InvAfter

LEMMA Lru2InvInit == Init => Lru2Inv
<1> SUFFICES ASSUME Init PROVE Lru2Inv
  OBVIOUS
<1>0. Cap \in Nat /\ last = 0 /\ last \in 0 .. Cap /\ 1 .. last = {} /\ 0 .. last = {0} /\ 0 .. last + 1 = {0, 1}
  BY Lru2Assumption DEF Init
<1>1. TypeOK
  BY <1>0 DEF TypeOK, Init
<1>2. MapAgrees
  BY <1>0 DEF MapAgrees, Init
<1>3. Laid([j \in {0, 1} |-> 0])
  <2>1. IsOrder([j \in {0, 1} |-> 0], last)
    BY <1>0 DEF IsOrder
  <2>2. dlnk[0].n = 0 /\ dlnk[0].p = 0
    BY <1>0 DEF Init
  <2>3. Chained(dlnk, last, [j \in {0, 1} |-> 0], "p", "n")
    BY <1>0, <2>2 DEF Chained
  <2> QED
    BY <2>1, <2>3 DEF Laid
<1> QED
  BY <1>0, <1>1, <1>2, <1>3 DEF Lru2Inv

LEMMA Lru2InvStep == Lru2Inv /\ [Next]_vars => Lru2Inv'
<1> SUFFICES ASSUME Lru2Inv, [Next]_vars PROVE Lru2Inv'
  OBVIOUS
<1>1. ASSUME UNCHANGED <<dlnk, m, hmap, last>> PROVE Lru2Inv'
  <2>1. \A x \in Keys : hmap[x] # 0 => hmap[x] <= last
    BY Lru2Facts
  <2>2. \E o : IsOrder(o, last) /\ Chained(dlnk, last, o, "p", "n")
    BY Lru2Facts DEF Laid
  <2> QED
    BY <1>1, <2>1, <2>2, Lru2Facts, Lru2InvAfter
<1>2. CASE UNCHANGED vars
  BY <1>1, <1>2 DEF vars
<1>3. ASSUME NEW k \in Keys, GetHit(k) PROVE Lru2Inv'
  BY <1>3, GetKeeps
<1>4. ASSUME NEW k \in Keys, GetMiss(k) PROVE Lru2Inv'
  BY <1>1, <1>4 DEF GetMiss
<1>5. ASSUME NEW k \in Keys, DelKey(k) PROVE Lru2Inv'
  BY <1>5, DelKeeps
<1>6. ASSUME NEW k \in Keys, DelMiss(k) PROVE Lru2Inv'
  BY <1>1, <1>6 DEF DelMiss
<1>7. ASSUME NEW k \in Keys, NEW v \in Values, NEW e \in Times, PutUpdate(k, v, e) PROVE Lru2Inv'
  BY <1>7, PutUpdateKeeps
<1>8. ASSUME NEW k \in Keys, NEW v \in Values, NEW e \in Times, PutEvict(k, v, e) PROVE Lru2Inv'
  BY <1>8, PutEvictKeeps
<1>9. ASSUME NEW k \in Keys, NEW v \in Values, NEW e \in Times, PutNew(k, v, e) PROVE Lru2Inv'
  BY <1>9, PutNewKeeps
<1> QED
  BY <1>2, <1>3, <1>4, <1>5, <1>6, <1>7, <1>8, <1>9 DEF Next

\* lru2.go keeps its structure whole for every capacity and every mix of put, get and
\* del: the indexes form one doubly linked list of exactly the slots in use, whose walk
\* meets each once, and the map and the slots lead to each other.
THEOREM Lru2WellFormedAlways == Spec => []WellFormed
<1>1. Init => Lru2Inv
  BY Lru2InvInit
<1>2. Lru2Inv /\ [Next]_vars => Lru2Inv'
  BY Lru2InvStep
<1>3. Lru2Inv => WellFormed
  BY Lru2InvSound
<1> QED
  BY <1>1, <1>2, <1>3, PTL DEF Spec

-----------------------------------------------------------------------------
\* The array-and-index list implements the list of Lru2List.  First what the list
\* operators do, position by position.
LEMMA FindAt ==
  ASSUME NEW l, NEW k, NEW i \in 1 .. Len(l), Len(l) \in Nat,
         l[i].k = k, \A j \in 1 .. Len(l) : l[j].k = k => j = i
  PROVE  List!Find(l, k) = i
<1> DEFINE I == {j \in 1 .. Len(l) : l[j].k = k}
<1>1. List!Find(l, k) = IF I # {} THEN List!Min(I) ELSE 0
  BY DEF List!Find, List!SelectInSeq
<1>2. I = {i}
  OBVIOUS
<1>3. List!Min({i}) = i
  BY DEF List!Min
<1> HIDE DEF I
<1> QED
  BY <1>1, <1>2, <1>3

LEMMA FindNone ==
  ASSUME NEW l, NEW k, \A j \in 1 .. Len(l) : l[j].k # k
  PROVE  List!Find(l, k) = 0
<1> DEFINE I == {j \in 1 .. Len(l) : l[j].k = k}
<1>1. List!Find(l, k) = IF I # {} THEN List!Min(I) ELSE 0
  BY DEF List!Find, List!SelectInSeq
<1>2. I = {}
  OBVIOUS
<1> HIDE DEF I
<1> QED
  BY <1>1, <1>2

LEMMA RemoveAtIs ==
  ASSUME NEW S, NEW l \in Seq(S), NEW i \in 1 .. Len(l)
  PROVE  /\ List!RemoveAt(l, i) \in Seq(S)
         /\ Len(List!RemoveAt(l, i)) = Len(l) - 1
         /\ \A j \in 1 .. Len(l) - 1 : List!RemoveAt(l, i)[j] = IF j < i THEN l[j] ELSE l[j + 1]
<1>0. Len(l) \in Nat /\ \A j \in 1 .. Len(l) : l[j] \in S
  BY LenProperties, ElementOfSeq
<1>1. PICK a : a = SubSeq(l, 1, i - 1)
  OBVIOUS
<1>2. PICK b : b = SubSeq(l, i + 1, Len(l))
  OBVIOUS
<1>3. a \in Seq(S) /\ Len(a) = i - 1 /\ \A j \in 1 .. i - 1 : a[j] = l[j]
  <2>1. \A j \in 1 .. i - 1 : l[j] \in S
    BY <1>0
  <2>2. /\ a \in Seq(S) /\ Len(a) = (IF 1 <= i - 1 THEN ((i - 1) - 1) + 1 ELSE 0)
        /\ \A j \in 1 .. ((i - 1) - 1) + 1 : a[j] = l[(1 + j) - 1]
    BY <1>0, <1>1, <2>1, SubSeqProperties
  <2> QED
    BY <1>0, <2>2
<1>4. b \in Seq(S) /\ Len(b) = Len(l) - i /\ \A j \in 1 .. Len(l) - i : b[j] = l[i + j]
  <2>1. \A j \in i + 1 .. Len(l) : l[j] \in S
    BY <1>0
  <2>2. /\ b \in Seq(S) /\ Len(b) = (IF i + 1 <= Len(l) THEN (Len(l) - (i + 1)) + 1 ELSE 0)
        /\ \A j \in 1 .. (Len(l) - (i + 1)) + 1 : b[j] = l[((i + 1) + j) - 1]
    <3>1. PICK c \in Int, n \in Int : c = i + 1 /\ n = Len(l)
      BY <1>0
    <3>2. \A j \in c .. n : l[j] \in S
      BY <2>1, <3>1
    <3>3. /\ SubSeq(l, c, n) \in Seq(S) /\ Len(SubSeq(l, c, n)) = (IF c <= n THEN (n - c) + 1 ELSE 0)
          /\ \A j \in 1 .. (n - c) + 1 : SubSeq(l, c, n)[j] = l[(c + j) - 1]
      BY <3>2, SubSeqProperties
    <3> QED
      BY <1>2, <3>1, <3>3
  <2>3. Len(b) = Len(l) - i
    BY <1>0, <2>2
  <2>4. ASSUME NEW j \in 1 .. Len(l) - i PROVE b[j] = l[i + j]
    <3>1. j \in 1 .. (Len(l) - (i + 1)) + 1 /\ ((i + 1) + j) - 1 = i + j
      BY <1>0
    <3> QED
      BY <2>2, <3>1
  <2> QED
    BY <2>2, <2>3, <2>4
<1>5. /\ a \o b \in Seq(S) /\ Len(a \o b) = Len(a) + Len(b)
      /\ \A j \in 1 .. Len(a) + Len(b) : (a \o b)[j] = IF j <= Len(a) THEN a[j] ELSE b[j - Len(a)]
  BY <1>3, <1>4, ConcatProperties
<1>6. List!RemoveAt(l, i) = a \o b
  BY <1>1, <1>2 DEF List!RemoveAt
<1>7. ASSUME NEW j \in 1 .. Len(l) - 1 PROVE (a \o b)[j] = IF j < i THEN l[j] ELSE l[j + 1]
  <2>1. j \in 1 .. Len(a) + Len(b)
    BY <1>0, <1>3, <1>4
  <2>2. CASE j < i
    BY <1>0, <1>3, <1>5, <2>1, <2>2
  <2>3. CASE ~(j < i)
    <3>1. j - (i - 1) \in 1 .. Len(l) - i /\ i + (j - (i - 1)) = j + 1 /\ ~(j <= i - 1)
      BY <1>0, <2>3
    <3>2. (a \o b)[j] = b[j - (i - 1)]
      BY <1>3, <1>5, <2>1, <3>1
    <3>3. b[j - (i - 1)] = l[j + 1]
      BY <1>4, <3>1
    <3> QED
      BY <2>3, <3>2, <3>3
  <2> QED
    BY <2>2, <2>3
<1>8. Len(a \o b) = Len(l) - 1
  BY <1>0, <1>3, <1>4, <1>5
<1> QED
  BY <1>5, <1>6, <1>7, <1>8

LEMMA ConsIs ==
  ASSUME NEW S, NEW l \in Seq(S), NEW x \in S
  PROVE  List!Cons(x, l) = [j \in 1 .. Len(l) + 1 |-> IF j = 1 THEN x ELSE l[j - 1]]
<1>0. Len(l) \in Nat
  BY LenProperties
<1>1. <<x>> \in Seq(S) /\ Len(<<x>>) = 1 /\ <<x>>[1] = x
  OBVIOUS
<1>2. PICK a : a = <<x>>
  OBVIOUS
<1>3. /\ a \o l \in Seq(S) /\ Len(a \o l) = Len(a) + Len(l)
      /\ \A j \in 1 .. Len(a) + Len(l) : (a \o l)[j] = IF j <= Len(a) THEN a[j] ELSE l[j - Len(a)]
  BY <1>1, <1>2, ConcatProperties
<1>4. PICK c : c = a \o l
  OBVIOUS
<1>5. c \in [1 .. Len(l) + 1 -> S]
  <2>1. c \in Seq(S) /\ Len(c) = Len(l) + 1
    BY <1>0, <1>1, <1>2, <1>3, <1>4
  <2>2. c \in [1 .. Len(c) -> S]
    BY <2>1, LenProperties
  <2> QED
    BY <2>1, <2>2
<1>6. \A j \in 1 .. Len(l) + 1 : c[j] = IF j = 1 THEN x ELSE l[j - 1]
  BY <1>0, <1>1, <1>2, <1>3, <1>4
<1> QED
  BY <1>2, <1>4, <1>5, <1>6 DEF List!Cons

\* A node goes to the front, or is replaced there.
LEMMA HeadedIs ==
  ASSUME NEW S, NEW l \in Seq(S), NEW i \in 1 .. Len(l), NEW x \in S
  PROVE  List!Cons(x, List!RemoveAt(l, i)) = [j \in 1 .. Len(l) |-> IF j = 1 THEN x ELSE l[Came(i, j)]]
<1>0. Len(l) \in Nat
  BY LenProperties
<1>1. PICK r : r = List!RemoveAt(l, i)
  OBVIOUS
<1>2. /\ r \in Seq(S) /\ Len(r) = Len(l) - 1
      /\ \A j \in 1 .. Len(l) - 1 : r[j] = IF j < i THEN l[j] ELSE l[j + 1]
  BY <1>1, RemoveAtIs
<1>3. List!Cons(x, r) = [j \in 1 .. Len(r) + 1 |-> IF j = 1 THEN x ELSE r[j - 1]]
  BY <1>2, ConsIs
<1>4. Len(r) + 1 = Len(l)
  BY <1>0, <1>2
<1>5. ASSUME NEW j \in 1 .. Len(l), j # 1 PROVE r[j - 1] = l[Came(i, j)]
  <2>1. j - 1 \in 1 .. Len(l) - 1 /\ (j - 1) + 1 = j /\ (j - 1 < i <=> j <= i) /\ 2 <= j
    BY <1>0, <1>5
  <2> QED
    BY <1>2, <1>5, <2>1 DEF Came
<1> QED
  BY <1>1, <1>3, <1>4, <1>5

\* The last node goes, a new one comes to the front.
LEMMA ReusedIs ==
  ASSUME NEW S, NEW l \in Seq(S), Len(l) # 0, NEW x \in S
  PROVE  List!Cons(x, List!Front(l)) = [j \in 1 .. Len(l) |-> IF j = 1 THEN x ELSE l[Came(Len(l), j)]]
<1>0. Len(l) \in Nat /\ \A j \in 1 .. Len(l) : l[j] \in S
  BY LenProperties, ElementOfSeq
<1>1. PICK r : r = SubSeq(l, 1, Len(l) - 1)
  OBVIOUS
<1>2. r \in Seq(S) /\ Len(r) = Len(l) - 1 /\ \A j \in 1 .. Len(l) - 1 : r[j] = l[j]
  <2>1. \A j \in 1 .. Len(l) - 1 : l[j] \in S
    BY <1>0
  <2>2. /\ r \in Seq(S) /\ Len(r) = (IF 1 <= Len(l) - 1 THEN ((Len(l) - 1) - 1) + 1 ELSE 0)
        /\ \A j \in 1 .. ((Len(l) - 1) - 1) + 1 : r[j] = l[(1 + j) - 1]
    BY <1>0, <1>1, <2>1, SubSeqProperties
  <2>3. Len(r) = Len(l) - 1
    <3>1. PICK n : n = Len(l)
      OBVIOUS
    <3>2. n \in Nat /\ n # 0 /\ Len(r) = IF 1 <= n - 1 THEN ((n - 1) - 1) + 1 ELSE 0
      BY <1>0, <2>2, <3>1, Zenon
    <3>3. CASE n = 1
      BY <3>1, <3>2, <3>3
    <3>4. CASE n # 1
      <4>1. 1 <= n - 1 /\ ((n - 1) - 1) + 1 = n - 1
        BY <3>2, <3>4
      <4> QED
        BY <3>1, <3>2, <4>1, Zenon
    <3> QED
      BY <3>3, <3>4
  <2>4. ASSUME NEW j \in 1 .. Len(l) - 1 PROVE r[j] = l[j]
    <3>1. j \in 1 .. ((Len(l) - 1) - 1) + 1 /\ (1 + j) - 1 = j
      BY <1>0
    <3> QED
      BY <2>2, <3>1
  <2> QED
    BY <2>2, <2>3, <2>4
<1>3. List!Cons(x, r) = [j \in 1 .. Len(r) + 1 |-> IF j = 1 THEN x ELSE r[j - 1]]
  BY <1>2, ConsIs
<1>4. Len(r) + 1 = Len(l)
  BY <1>0, <1>2
<1>5. ASSUME NEW j \in 1 .. Len(l), j # 1 PROVE r[j - 1] = l[Came(Len(l), j)]
  <2>1. j - 1 \in 1 .. Len(l) - 1 /\ j <= Len(l) /\ 2 <= j
    BY <1>0, <1>5
  <2> QED
    BY <1>2, <1>5, <2>1 DEF Came
<1>6. List!Front(l) = r
  BY <1>1 DEF List!Front
<1> QED
  BY <1>3, <1>4, <1>5, <1>6

\* A node goes to the end, or is replaced there.
LEMMA TailedIs ==
  ASSUME NEW S, NEW l \in Seq(S), NEW i \in 1 .. Len(l), NEW x \in S
  PROVE  Append(List!RemoveAt(l, i), x) =
           [j \in 1 .. Len(l) |-> IF j = Len(l) THEN x ELSE IF j < i THEN l[j] ELSE l[j + 1]]
<1>0. Len(l) \in Nat
  BY LenProperties
<1>1. PICK r : r = List!RemoveAt(l, i)
  OBVIOUS
<1>2. /\ r \in Seq(S) /\ Len(r) = Len(l) - 1
      /\ \A j \in 1 .. Len(l) - 1 : r[j] = IF j < i THEN l[j] ELSE l[j + 1]
  BY <1>1, RemoveAtIs
<1>3. PICK c : c = Append(r, x)
  OBVIOUS
<1>4. /\ c \in Seq(S) /\ Len(c) = Len(r) + 1
      /\ \A j \in 1 .. Len(r) : c[j] = r[j]
      /\ c[Len(r) + 1] = x
  BY <1>2, <1>3, AppendProperties
<1>5. Len(r) + 1 = Len(l) /\ Len(c) = Len(l)
  BY <1>0, <1>2, <1>4
<1>6. c \in [1 .. Len(l) -> S]
  BY <1>4, <1>5, LenProperties
<1>7. ASSUME NEW j \in 1 .. Len(l)
      PROVE  c[j] = IF j = Len(l) THEN x ELSE IF j < i THEN l[j] ELSE l[j + 1]
  <2>1. CASE j = Len(l)
    BY <1>4, <1>5, <2>1
  <2>2. CASE j # Len(l)
    <3>1. j \in 1 .. Len(l) - 1 /\ j \in 1 .. Len(r)
      BY <1>0, <1>2, <2>2
    <3> QED
      BY <1>2, <1>4, <2>2, <3>1
  <2> QED
    BY <2>1, <2>2
<1> QED
  BY <1>1, <1>3, <1>6, <1>7

\* The order that ToTail leaves, position by position.
LEMMA SunkIs ==
  ASSUME NEW n \in Nat, NEW i \in 1 .. n, NEW o, NEW j \in 1 .. n
  PROVE  Sunk(o, n, i)[j] = IF j = n THEN o[i] ELSE IF j < i THEN o[j] ELSE o[j + 1]
<1>1. PICK c : c = Came((n + 1) - i, (n + 1) - j)
  OBVIOUS
<1>2. /\ (n + 1) - j \in 0 .. n + 1 /\ j \in 0 .. n + 1 /\ c \in 0 .. n + 1
      /\ (n + 1) - c = IF j = n THEN i ELSE IF j < i THEN j ELSE j + 1
  BY <1>1 DEF Came
<1>3. Reversed(o, n)[c] = o[(n + 1) - c]
  BY <1>2 DEF Reversed
<1>4. Moved(Reversed(o, n), n, (n + 1) - i)[(n + 1) - j] = Reversed(o, n)[c]
  BY <1>1, <1>2 DEF Moved
<1>5. PICK q : q = Moved(Reversed(o, n), n, (n + 1) - i)
  OBVIOUS
<1>6. Reversed(q, n)[j] = q[(n + 1) - j]
  BY <1>2 DEF Reversed
<1>7. Sunk(o, n, i) = Reversed(q, n)
  BY <1>5, Zenon DEF Sunk
<1> QED
  BY <1>2, <1>3, <1>4, <1>5, <1>6, <1>7

\* The nodes, and the list that the refinement reads off the array.
NodeSet == [k : Keys \cup {NoKey}, v : Values \cup {NoKey}, expireAt : Times \cup {0}]
AbsList == [j \in 1 .. last |-> m[Order[j]]]

\* That list is the one of any order that the links follow.
ListFollows == \A o : Laid(o) => AbsList = [j \in 1 .. last |-> m[o[j]]]

LEMMA ListFollowsOrder == Lru2Inv => ListFollows
<1> SUFFICES ASSUME Lru2Inv, NEW o, Laid(o) PROVE AbsList = [j \in 1 .. last |-> m[o[j]]]
  BY DEF ListFollows
<1>1. TypeOK
  BY DEF Lru2Inv
<1>2. Order = [j \in 1 .. last |-> o[j]]
  BY <1>1, OrderIs
<1>3. \A j \in 1 .. last : Order[j] = o[j]
  BY <1>2
<1> HIDE DEF Order
<1> QED
  BY <1>3 DEF AbsList

\* Where the list has a key.
LEMMA FindInList ==
  ASSUME Lru2Inv, NEW o, Laid(o), NEW k \in Keys, NEW l, l = [j \in 1 .. last |-> m[o[j]]]
  PROVE  /\ l \in Seq(NodeSet) /\ Len(l) = last
         /\ \A j \in 1 .. last : o[j] \in 1 .. last /\ l[j] = m[o[j]]
         /\ hmap[k] = 0 => List!Find(l, k) = 0
         /\ \A i \in 1 .. last : o[i] = hmap[k] => List!Find(l, k) = i
<1>0. last \in Nat /\ (\A i \in 1 .. last : i \in Slots /\ hmap[m[i].k] = i /\ i # 0) /\ m \in [Slots -> NodeSet]
  BY Lru2Facts DEF NodeSet
<1>1. /\ o \in [0 .. last + 1 -> 0 .. last] /\ o[0] = 0
      /\ \A i, j \in 0 .. last : o[i] = o[j] => i = j
  BY DEF Laid, IsOrder
<1>2. \A j \in 1 .. last : j \in 0 .. last /\ o[j] \in 1 .. last /\ l[j] = m[o[j]]
  <2> SUFFICES ASSUME NEW j \in 1 .. last PROVE j \in 0 .. last /\ o[j] \in 1 .. last /\ l[j] = m[o[j]]
    OBVIOUS
  <2>1. j \in 0 .. last /\ j \in 0 .. last + 1 /\ j # 0 /\ 0 \in 0 .. last
    BY <1>0
  <2>2. o[j] \in 0 .. last /\ o[j] # 0
    BY <1>1, <2>1
  <2> QED
    BY <1>0, <2>1, <2>2
<1>3. \A j \in 1 .. last : m[o[j]] \in NodeSet
  BY <1>0, <1>2
<1>4. l \in Seq(NodeSet) /\ Len(l) = last
  BY <1>0, <1>3
<1>5. \A j \in 1 .. last : hmap[l[j].k] = o[j] /\ o[j] # 0
  BY <1>0, <1>2
<1>6. ASSUME hmap[k] = 0 PROVE List!Find(l, k) = 0
  <2>1. \A j \in 1 .. Len(l) : l[j].k # k
    <3> SUFFICES ASSUME NEW j \in 1 .. last, l[j].k = k PROVE FALSE
      BY <1>4
    <3> QED
      BY <1>5, <1>6
  <2> QED
    BY <2>1, FindNone
<1>7. ASSUME NEW i \in 1 .. last, o[i] = hmap[k] PROVE List!Find(l, k) = i
  <2>1. l[i].k = k
    <3>1. hmap[k] # 0 /\ m[hmap[k]].k = k
      BY <1>5, <1>7, Lru2Facts
    <3> QED
      BY <1>2, <1>7, <3>1
  <2>2. \A j \in 1 .. Len(l) : l[j].k = k => j = i
    <3> SUFFICES ASSUME NEW j \in 1 .. last, l[j].k = k PROVE j = i
      BY <1>4
    <3>1. hmap[k] = o[j]
      BY <1>5
    <3>2. i \in 0 .. last /\ j \in 0 .. last
      BY <1>2
    <3> QED
      BY <1>1, <1>7, <3>1, <3>2
  <2>3. i \in 1 .. Len(l) /\ Len(l) \in Nat
    BY <1>0, <1>4
  <2> QED
    BY <2>1, <2>2, <2>3, FindAt, ZenonT(40)
<1> QED
  BY <1>2, <1>4, <1>6, <1>7

\* A move to the head, seen in the list; what the node then holds is free.
LEMMA ListToHead ==
  ASSUME Lru2Inv, NEW o, Laid(o), NEW idx \in 1 .. last, last' = last,
         dlnk' = Adjust(dlnk, idx, "p", "n"), ListFollows',
         \A x \in Slots : x # idx => m'[x] = m[x]
  PROVE  \E i \in 1 .. last :
           /\ o[i] = idx
           /\ AbsList' = [j \in 1 .. last |-> IF j = 1 THEN m'[idx] ELSE m[o[Came(i, j)]]]
<1>0. last \in Nat /\ last \in 1 .. Cap /\ dlnk \in Links
  BY Lru2Facts
<1>1. IsOrder(o, last) /\ Chained(dlnk, last, o, "p", "n")
  BY DEF Laid
<1>2. PICK i \in 1 .. last : /\ o[i] = idx
                            /\ IsOrder(Moved(o, last, i), last)
                            /\ Chained(dlnk', last, Moved(o, last, i), "p", "n")
  BY <1>0, <1>1, ToHead
<1>3. PICK q : q = Moved(o, last, i)
  OBVIOUS
<1>4. Laid(q)'
  BY <1>2, <1>3 DEF Laid
<1>5. AbsList' = [j \in 1 .. last |-> m'[q[j]]]
  BY <1>4 DEF ListFollows
<1>6. ASSUME NEW j \in 1 .. last PROVE m'[q[j]] = IF j = 1 THEN m'[idx] ELSE m[o[Came(i, j)]]
  <2>1. q[j] = o[Came(i, j)]
    BY <1>0, <1>3 DEF Moved
  <2>2. CASE j = 1
    BY <1>2, <2>1, <2>2 DEF Came
  <2>3. CASE j # 1
    <3>1. Came(i, j) \in 1 .. last /\ Came(i, j) # i /\ i \in 0 .. last /\ Came(i, j) \in 0 .. last
      BY <1>0, <2>3 DEF Came
    <3>2. o[Came(i, j)] # idx /\ o[Came(i, j)] \in Slots
      <4>1. o[Came(i, j)] # o[i]
        BY <1>1, <3>1 DEF IsOrder
      <4>2. PICK c : c = Came(i, j) /\ c \in 0 .. last /\ c \in 0 .. last + 1 /\ c # 0 /\ 0 \in 0 .. last
        BY <1>0, <3>1
      <4>3. o[c] \in 0 .. last /\ o[c] # 0
        BY <1>1, <4>2 DEF IsOrder
      <4>4. o[c] \in 1 .. Cap
        <5>1. \A y \in 0 .. last : y # 0 => y \in 1 .. Cap
          BY <1>0, Lru2Assumption
        <5> QED
          BY <4>3, <5>1
      <4>5. o[Came(i, j)] # idx
        BY <1>2, <4>1
      <4>6. o[Came(i, j)] \in Slots
        BY <4>2, <4>4, Zenon DEF Slots
      <4> QED
        BY <4>5, <4>6
    <3> QED
      BY <2>1, <2>3, <3>2
  <2> QED
    BY <2>2, <2>3
<1> QED
  BY <1>2, <1>5, <1>6

\* The abstract list has the position of the key's node.
LEMMA AbsListIs ==
  ASSUME Lru2Inv, NEW k \in Keys
  PROVE  \E o, l :
           /\ Laid(o) /\ l = AbsList /\ l = [j \in 1 .. last |-> m[o[j]]]
           /\ l \in Seq(NodeSet) /\ Len(l) = last
           /\ \A j \in 1 .. last : o[j] \in 1 .. last /\ l[j] = m[o[j]]
           /\ hmap[k] = 0 => List!Find(l, k) = 0
           /\ \A i \in 1 .. last : o[i] = hmap[k] => List!Find(l, k) = i
<1>1. PICK o : Laid(o)
  BY Lru2Facts
<1>2. PICK l : l = [j \in 1 .. last |-> m[o[j]]]
  OBVIOUS
<1>3. l = AbsList
  BY <1>1, <1>2, ListFollowsOrder DEF ListFollows
<1> QED
  BY <1>1, <1>2, <1>3, FindInList

LEMMA GetRefines ==
  ASSUME Lru2Inv, ListFollows', NEW k \in Keys, GetHit(k)
  PROVE  List!LGet(k)
<1>1. PICK o, l :
        /\ Laid(o) /\ l = AbsList
        /\ l \in Seq(NodeSet) /\ Len(l) = last
        /\ \A j \in 1 .. last : o[j] \in 1 .. last /\ l[j] = m[o[j]]
        /\ \A i \in 1 .. last : o[i] = hmap[k] => List!Find(l, k) = i
  BY AbsListIs
<1>2. PICK idx \in 1 .. last : idx = hmap[k]
  BY Lru2Facts DEF GetHit
<1>3. dlnk' = Adjust(dlnk, idx, "p", "n") /\ last' = last /\ m' = m /\ out' = Returns("get", 1, {})
  BY <1>2 DEF GetHit
<1>4. PICK i \in 1 .. last :
        /\ o[i] = idx
        /\ AbsList' = [j \in 1 .. last |-> IF j = 1 THEN m'[idx] ELSE m[o[Came(i, j)]]]
  BY <1>1, <1>2, <1>3, ListToHead
<1>5. List!Find(l, k) = i /\ i # 0 /\ l[i] = m[idx] /\ i \in 1 .. Len(l) /\ l[i] \in NodeSet
  <2>1. List!Find(l, k) = i /\ l[i] = m[idx] /\ i \in 1 .. Len(l)
    BY <1>1, <1>2, <1>4
  <2>2. i # 0
    BY Lru2Facts
  <2> QED
    BY <1>1, <2>1, <2>2, ElementOfSeq
<1>6. List!Cons(l[i], List!RemoveAt(l, i)) = [j \in 1 .. Len(l) |-> IF j = 1 THEN l[i] ELSE l[Came(i, j)]]
  <2>1. PICK x \in NodeSet : x = l[i]
    BY <1>5
  <2>2. List!Cons(x, List!RemoveAt(l, i)) = [j \in 1 .. Len(l) |-> IF j = 1 THEN x ELSE l[Came(i, j)]]
    <3>1. l \in Seq(NodeSet) /\ i \in 1 .. Len(l)
      BY <1>1, <1>5
    <3> QED
      BY <3>1, <2>1, HeadedIs, SMT
  <2> QED
    BY <2>1, <2>2
<1>7. \A j \in 1 .. last : Came(i, j) \in 1 .. last
  BY Lru2Facts, CameIs
<1>8. AbsList' = List!Cons(l[i], List!RemoveAt(l, i))
  BY <1>1, <1>3, <1>4, <1>5, <1>6, <1>7, SMTT(30)
<1>9. AbsList' = List!Touch(l, k)
  BY <1>5, <1>8, Zenon DEF List!Touch
<1>10. out' = List!Returns("get", IF List!Find(l, k) = 0 THEN 0 ELSE 1, {})
  BY <1>3, <1>5 DEF Returns, List!Returns
<1> QED
  BY <1>1, <1>9, <1>10, Zenon DEF List!LGet, AbsList

LEMMA UnmovedRefines ==
  ASSUME Lru2Inv, ListFollows', UNCHANGED <<dlnk, m, hmap, last>>
  PROVE  AbsList' = AbsList
<1>1. PICK o : Laid(o)
  BY Lru2Facts
<1>2. Laid(o)'
  BY <1>1 DEF Laid
<1>3. AbsList = [j \in 1 .. last |-> m[o[j]]]
  BY <1>1, ListFollowsOrder DEF ListFollows
<1>4. AbsList' = [j \in 1 .. last' |-> m'[o[j]]]
  BY <1>2 DEF ListFollows
<1> QED
  BY <1>3, <1>4

LEMMA GetMissRefines ==
  ASSUME Lru2Inv, ListFollows', NEW k \in Keys, GetMiss(k)
  PROVE  List!LGet(k)
<1>1. PICK l : l = AbsList /\ List!Find(l, k) = 0
  BY AbsListIs DEF GetMiss
<1>2. AbsList' = l
  BY <1>1, UnmovedRefines DEF GetMiss
<1>3. AbsList' = List!Touch(l, k)
  BY <1>1, <1>2, Zenon DEF List!Touch
<1>4. out' = List!Returns("get", IF List!Find(l, k) = 0 THEN 0 ELSE 1, {})
  BY <1>1 DEF GetMiss, Returns, List!Returns
<1> QED
  BY <1>1, <1>3, <1>4, Zenon DEF List!LGet, AbsList

LEMMA DelMissRefines ==
  ASSUME Lru2Inv, ListFollows', NEW k \in Keys, DelMiss(k)
  PROVE  List!LDel(k)
<1>1. PICK o, l :
        /\ Laid(o) /\ l = AbsList
        /\ \A j \in 1 .. last : o[j] \in 1 .. last /\ l[j] = m[o[j]]
        /\ hmap[k] = 0 => List!Find(l, k) = 0
        /\ \A i \in 1 .. last : o[i] = hmap[k] => List!Find(l, k) = i
  BY AbsListIs
<1>2. ~List!Live(l, k)
  <2>1. CASE hmap[k] = 0
    BY <1>1, <2>1 DEF List!Live
  <2>2. CASE hmap[k] # 0
    <3>1. hmap[k] \in 1 .. last /\ ~(m[hmap[k]].expireAt > 0)
      BY <2>2, Lru2Facts DEF DelMiss
    <3>2. PICK i \in 1 .. last : o[i] = hmap[k]
      BY <1>1, <3>1 DEF Laid, IsOrder
    <3>3. List!Find(l, k) = i /\ l[i] = m[hmap[k]]
      BY <1>1, <3>2
    <3> QED
      BY <3>1, <3>3 DEF List!Live
  <2> QED
    BY <2>1, <2>2
<1>3. AbsList' = l
  BY <1>1, UnmovedRefines DEF DelMiss
<1>4. AbsList' = List!Del(l, k)
  BY <1>2, <1>3, Zenon DEF List!Del
<1>5. out' = List!Returns("del", IF List!Live(l, k) THEN 1 ELSE 0, {})
  BY <1>2 DEF DelMiss, Returns, List!Returns
<1> QED
  BY <1>1, <1>4, <1>5, Zenon DEF List!LDel, AbsList

LEMMA DelRefines ==
  ASSUME Lru2Inv, ListFollows', NEW k \in Keys, DelKey(k)
  PROVE  List!LDel(k)
<1>0. last \in Nat /\ last \in 0 .. Cap /\ dlnk \in Links /\ m \in [Slots -> NodeSet]
  BY Lru2Facts DEF NodeSet
<1>1. PICK o, l :
        /\ Laid(o) /\ l = AbsList
        /\ l \in Seq(NodeSet) /\ Len(l) = last
        /\ \A j \in 1 .. last : o[j] \in 1 .. last /\ l[j] = m[o[j]]
        /\ \A i \in 1 .. last : o[i] = hmap[k] => List!Find(l, k) = i
  BY AbsListIs
<1>2. PICK idx \in 1 .. last : idx = hmap[k] /\ idx \in Slots
  BY Lru2Facts DEF DelKey
<1>3. /\ dlnk' = Adjust(dlnk, idx, "n", "p") /\ last' = last /\ out' = Returns("del", 1, {})
      /\ m' = [m EXCEPT ![idx].expireAt = 0] /\ m[idx].expireAt > 0
  BY <1>2 DEF DelKey
<1>4. last \in 1 .. Cap /\ IsOrder(o, last) /\ Chained(dlnk, last, o, "p", "n")
  BY <1>0, <1>1, <1>2 DEF Laid
<1>5. PICK i \in 1 .. last :
        o[i] = idx /\ IsOrder(Sunk(o, last, i), last) /\ Chained(dlnk', last, Sunk(o, last, i), "p", "n")
  <2>1. \E i \in 1 .. last : /\ o[i] = idx /\ IsOrder(Sunk(o, last, i), last)
                           /\ Chained(Adjust(dlnk, idx, "n", "p"), last, Sunk(o, last, i), "p", "n")
    BY <1>0, <1>4, ToTail
  <2> QED
    BY <1>3, <2>1
<1>6. PICK q : q = Sunk(o, last, i)
  OBVIOUS
<1>7. AbsList' = [j \in 1 .. last |-> m'[q[j]]]
  <2>1. Laid(q)'
    BY <1>3, <1>5, <1>6 DEF Laid
  <2> QED
    BY <1>3, <2>1 DEF ListFollows
<1>8. \A j \in 1 .. last : q[j] = IF j = last THEN o[i] ELSE IF j < i THEN o[j] ELSE o[j + 1]
  BY <1>0, <1>6, SunkIs
<1>9. List!Find(l, k) = i /\ i # 0 /\ l[i] = m[idx] /\ i \in 1 .. Len(l)
  BY <1>0, <1>1, <1>2, <1>5
<1>10. PICK x : x = [l[i] EXCEPT !.expireAt = 0]
  OBVIOUS
<1>11. x \in NodeSet /\ x = m'[idx] /\ \A y \in Slots : y # idx => m'[y] = m[y]
  BY <1>0, <1>2, <1>3, <1>9, <1>10 DEF NodeSet
<1>12. Append(List!RemoveAt(l, i), x) =
         [j \in 1 .. Len(l) |-> IF j = Len(l) THEN x ELSE IF j < i THEN l[j] ELSE l[j + 1]]
  <2>1. l \in Seq(NodeSet) /\ i \in 1 .. Len(l) /\ x \in NodeSet
    BY <1>1, <1>9, <1>11
  <2> QED
    BY <2>1, TailedIs
<1>13. ASSUME NEW j \in 1 .. last
       PROVE  m'[q[j]] = IF j = last THEN x ELSE IF j < i THEN l[j] ELSE l[j + 1]
  <2>1. CASE j = last
    BY <1>5, <1>8, <1>11, <2>1
  <2>2. CASE j # last
    <3>1. PICK c : c = IF j < i THEN j ELSE j + 1
      OBVIOUS
    <3>2. c \in 1 .. last /\ c # i /\ c \in 0 .. last /\ i \in 0 .. last
      BY <1>0, <2>2, <3>1
    <3>3. o[c] \in Slots /\ o[c] # idx /\ l[c] = m[o[c]]
      <4>1. o[c] # o[i] /\ o[c] \in 1 .. last /\ l[c] = m[o[c]]
        BY <1>1, <1>4, <3>2 DEF IsOrder
      <4>2. \A y \in 1 .. last : y \in Slots
        BY Lru2Facts
      <4> QED
        BY <1>5, <4>1, <4>2
    <3>4. q[j] = o[c]
      BY <1>8, <2>2, <3>1
    <3> QED
      BY <1>11, <2>2, <3>1, <3>3, <3>4
  <2> QED
    BY <2>1, <2>2
<1>14. AbsList' = Append(List!RemoveAt(l, i), x)
  BY <1>1, <1>7, <1>12, <1>13
<1>15. List!Live(l, k)
  BY <1>3, <1>9 DEF List!Live
<1>16. AbsList' = List!Del(l, k)
  BY <1>9, <1>10, <1>14, <1>15, Zenon DEF List!Del
<1>17. out' = List!Returns("del", IF List!Live(l, k) THEN 1 ELSE 0, {})
  BY <1>3, <1>15 DEF Returns, List!Returns
<1> QED
  BY <1>1, <1>16, <1>17, Zenon DEF List!LDel, AbsList

LEMMA PutUpdateRefines ==
  ASSUME Lru2Inv, ListFollows', NEW k \in Keys, NEW v \in Values, NEW e \in Times, PutUpdate(k, v, e)
  PROVE  List!LPut(k, v, e)
<1>0. last \in Nat /\ m \in [Slots -> NodeSet]
  BY Lru2Facts DEF NodeSet
<1>1. PICK o, l :
        /\ Laid(o) /\ l = AbsList
        /\ l \in Seq(NodeSet) /\ Len(l) = last
        /\ \A j \in 1 .. last : o[j] \in 1 .. last /\ l[j] = m[o[j]]
        /\ \A i \in 1 .. last : o[i] = hmap[k] => List!Find(l, k) = i
  BY AbsListIs
<1>2. PICK idx \in 1 .. last : idx = hmap[k] /\ idx \in Slots /\ m[idx].k = k
  BY Lru2Facts DEF PutUpdate
<1>3. /\ dlnk' = Adjust(dlnk, idx, "p", "n") /\ last' = last /\ out' = Returns("put", 0, {})
      /\ m' = [m EXCEPT ![idx].v = v, ![idx].expireAt = e]
  BY <1>2 DEF PutUpdate
<1>4. PICK x : x = List!Node(k, v, e)
  OBVIOUS
<1>5. x \in NodeSet /\ x = [k |-> k, v |-> v, expireAt |-> e]
  BY <1>4 DEF List!Node, NodeSet
<1>6. (\A y \in Slots : y # idx => m'[y] = m[y]) /\ m'[idx] = x
  BY <1>0, <1>2, <1>3, <1>5 DEF NodeSet
<1>7. PICK i \in 1 .. last :
        /\ o[i] = idx
        /\ AbsList' = [j \in 1 .. last |-> IF j = 1 THEN m'[idx] ELSE m[o[Came(i, j)]]]
  <2>1. Laid(o) /\ last' = last /\ dlnk' = Adjust(dlnk, idx, "p", "n")
    BY <1>1, <1>3
  <2>2. \A y \in Slots : y # idx => m'[y] = m[y]
    BY <1>6
  <2> QED
    BY <2>1, <2>2, ListToHead
<1>8. List!Find(l, k) = i /\ i # 0 /\ i \in 1 .. Len(l)
  BY <1>0, <1>1, <1>2, <1>7
<1>9. List!Cons(x, List!RemoveAt(l, i)) = [j \in 1 .. Len(l) |-> IF j = 1 THEN x ELSE l[Came(i, j)]]
  <2>1. l \in Seq(NodeSet) /\ i \in 1 .. Len(l) /\ x \in NodeSet
    BY <1>1, <1>5, <1>8
  <2> QED
    BY <2>1, HeadedIs
<1>10. \A j \in 1 .. last : Came(i, j) \in 1 .. last
  BY <1>0, CameIs
<1>11. AbsList' = List!Cons(x, List!RemoveAt(l, i))
  BY <1>1, <1>6, <1>7, <1>9, <1>10, SMTT(30)
<1>12. AbsList' = List!Put(l, Cap, k, v, e)
  BY <1>4, <1>8, <1>11, Zenon DEF List!Put
<1>13. List!Evicts(l, Cap, k) = {}
  BY <1>8 DEF List!Evicts
<1>14. out' = List!Returns("put", IF List!Find(l, k) = 0 THEN 1 ELSE 0, List!Evicts(l, Cap, k))
  BY <1>3, <1>8, <1>13 DEF Returns, List!Returns
<1> QED
  BY <1>1, <1>12, <1>14, Zenon DEF List!LPut, AbsList

LEMMA PutEvictRefines ==
  ASSUME Lru2Inv, ListFollows', NEW k \in Keys, NEW v \in Values, NEW e \in Times, PutEvict(k, v, e)
  PROVE  List!LPut(k, v, e)
<1>0. last \in Nat /\ m \in [Slots -> NodeSet] /\ last = Cap /\ last # 0 /\ hmap[k] = 0 /\ last \in 1 .. last
  BY Lru2Facts, Lru2Assumption DEF NodeSet, PutEvict
<1>1. PICK o, l :
        /\ Laid(o) /\ l = AbsList
        /\ l \in Seq(NodeSet) /\ Len(l) = last
        /\ \A j \in 1 .. last : o[j] \in 1 .. last /\ l[j] = m[o[j]]
        /\ hmap[k] = 0 => List!Find(l, k) = 0
  BY AbsListIs
<1>2. PICK idx \in 1 .. last : idx = dlnk[0].p /\ idx = o[last] /\ idx \in Slots
  BY <1>0, <1>1, TailIs, Lru2Facts
<1>3. /\ dlnk' = Adjust(dlnk, idx, "p", "n") /\ last' = last
      /\ out' = Returns("put", 1, IF m[idx].expireAt > 0 THEN {m[idx]} ELSE {})
      /\ m' = [m EXCEPT ![idx] = [k |-> k, v |-> v, expireAt |-> e]]
  BY <1>2 DEF PutEvict, SetNode
<1>4. PICK x : x = List!Node(k, v, e)
  OBVIOUS
<1>5. x \in NodeSet /\ x = [k |-> k, v |-> v, expireAt |-> e]
  BY <1>4 DEF List!Node, NodeSet
<1>6. (\A y \in Slots : y # idx => m'[y] = m[y]) /\ m'[idx] = x
  BY <1>0, <1>2, <1>3, <1>5
<1>7. AbsList' = [j \in 1 .. last |-> IF j = 1 THEN m'[idx] ELSE m[o[Came(last, j)]]]
  <2>1. Laid(o) /\ last' = last /\ dlnk' = Adjust(dlnk, idx, "p", "n")
    BY <1>1, <1>3
  <2>2. \A y \in Slots : y # idx => m'[y] = m[y]
    BY <1>6
  <2>3. PICK i \in 1 .. last :
          /\ o[i] = idx
          /\ AbsList' = [j \in 1 .. last |-> IF j = 1 THEN m'[idx] ELSE m[o[Came(i, j)]]]
    BY <2>1, <2>2, ListToHead
  <2>4. i \in 0 .. last /\ last \in 0 .. last
    BY <1>0
  <2>5. i = last
    BY <1>2, <2>1, <2>3, <2>4 DEF Laid, IsOrder
  <2> QED
    BY <2>3, <2>5
<1>8. List!Find(l, k) = 0 /\ Len(l) = Cap /\ Len(l) # 0
  BY <1>0, <1>1
<1>9. List!Cons(x, List!Front(l)) = [j \in 1 .. Len(l) |-> IF j = 1 THEN x ELSE l[Came(Len(l), j)]]
  <2>1. l \in Seq(NodeSet) /\ Len(l) # 0 /\ x \in NodeSet
    BY <1>1, <1>5, <1>8
  <2> QED
    BY <2>1, ReusedIs
<1>10. \A j \in 1 .. last : Came(last, j) \in 1 .. last
  BY <1>0, CameIs
<1>11. AbsList' = List!Cons(x, List!Front(l))
  BY <1>1, <1>6, <1>7, <1>9, <1>10
<1>12. AbsList' = List!Put(l, Cap, k, v, e)
  BY <1>4, <1>8, <1>11, Zenon DEF List!Put
<1>13. List!Last(l) = m[idx]
  BY <1>0, <1>1, <1>2 DEF List!Last
<1>14. List!Evicts(l, Cap, k) = IF m[idx].expireAt > 0 THEN {m[idx]} ELSE {}
  BY <1>8, <1>13 DEF List!Evicts
<1>15. out' = List!Returns("put", IF List!Find(l, k) = 0 THEN 1 ELSE 0, List!Evicts(l, Cap, k))
  BY <1>3, <1>8, <1>14 DEF Returns, List!Returns
<1> QED
  BY <1>1, <1>12, <1>15, Zenon DEF List!LPut, AbsList

LEMMA PutNewRefines ==
  ASSUME Lru2Inv, ListFollows', NEW k \in Keys, NEW v \in Values, NEW e \in Times, PutNew(k, v, e)
  PROVE  List!LPut(k, v, e)
<1>0. /\ last \in Nat /\ Cap \in Nat /\ m \in [Slots -> NodeSet] /\ last < Cap /\ last' = last + 1
      /\ hmap[k] = 0 /\ last + 1 \in Slots /\ out' = Returns("put", 1, {})
      /\ m' = [m EXCEPT ![last + 1] = [k |-> k, v |-> v, expireAt |-> e]]
  BY Lru2Facts DEF NodeSet, PutNew, SetNode, Slots
<1>1. PICK o, l :
        /\ Laid(o) /\ l = AbsList
        /\ l \in Seq(NodeSet) /\ Len(l) = last
        /\ \A j \in 1 .. last : o[j] \in 1 .. last /\ l[j] = m[o[j]]
        /\ hmap[k] = 0 => List!Find(l, k) = 0
  BY AbsListIs
<1>2. PICK q : q = Pushed(o, last)
  OBVIOUS
<1>3. Laid(q)'
  <2>1. /\ \A x \in 0 .. Cap :
             /\ dlnk'[x].p = IF x = last + 1 THEN 0 ELSE IF x = o[1] THEN last + 1 ELSE dlnk[x].p
             /\ dlnk'[x].n = IF x = last + 1 THEN o[1] ELSE IF x = 0 THEN last + 1 ELSE dlnk[x].n
    BY <1>1, PushLinks
  <2>2. IsOrder(o, last) /\ Chained(dlnk, last, o, "p", "n")
    BY <1>1 DEF Laid
  <2>3. IsOrder(q, last + 1)
    BY <1>0, <1>2, <2>2, PushedIsOrder
  <2>4. Chained(dlnk', last + 1, q, "p", "n")
    BY <1>0, <1>2, <2>1, <2>2, PushedChained, ZenonT(40)
  <2> QED
    BY <1>0, <2>3, <2>4 DEF Laid
<1>4. AbsList' = [j \in 1 .. last + 1 |-> m'[q[j]]]
  BY <1>0, <1>3 DEF ListFollows
<1>5. PICK x : x = List!Node(k, v, e)
  OBVIOUS
<1>6. x \in NodeSet /\ x = [k |-> k, v |-> v, expireAt |-> e]
  BY <1>5 DEF List!Node, NodeSet
<1>7. (\A y \in Slots : y # last + 1 => m'[y] = m[y]) /\ m'[last + 1] = x
  BY <1>0, <1>6
<1>8. ASSUME NEW j \in 1 .. last + 1 PROVE m'[q[j]] = IF j = 1 THEN x ELSE l[j - 1]
  <2>1. CASE j = 1
    <3>1. q[j] = last + 1
      BY <1>0, <1>2, <2>1 DEF Pushed
    <3> QED
      BY <1>7, <2>1, <3>1
  <2>2. CASE j # 1
    <3>1. q[j] = o[j - 1] /\ j - 1 \in 1 .. last
      BY <1>0, <1>2, <2>2 DEF Pushed
    <3>2. o[j - 1] \in 1 .. last /\ l[j - 1] = m[o[j - 1]]
      BY <1>1, <3>1
    <3>3. o[j - 1] # last + 1 /\ o[j - 1] \in Slots
      <4>1. \A y \in 1 .. last : y # last + 1 /\ y \in Slots
        BY <1>0, Lru2Facts
      <4> QED
        BY <3>2, <4>1
    <3> QED
      BY <1>7, <2>2, <3>1, <3>2, <3>3
  <2> QED
    BY <2>1, <2>2
<1>9. List!Cons(x, l) = [j \in 1 .. Len(l) + 1 |-> IF j = 1 THEN x ELSE l[j - 1]]
  <2>1. l \in Seq(NodeSet) /\ x \in NodeSet
    BY <1>1, <1>6
  <2> QED
    BY <2>1, ConsIs
<1>10. AbsList' = List!Cons(x, l)
  BY <1>1, <1>4, <1>8, <1>9
<1>11. List!Find(l, k) = 0 /\ Len(l) # Cap
  BY <1>0, <1>1
<1>12. AbsList' = List!Put(l, Cap, k, v, e)
  BY <1>5, <1>10, <1>11, Zenon DEF List!Put
<1>13. List!Evicts(l, Cap, k) = {}
  BY <1>11 DEF List!Evicts
<1>14. out' = List!Returns("put", IF List!Find(l, k) = 0 THEN 1 ELSE 0, List!Evicts(l, Cap, k))
  BY <1>0, <1>11, <1>13 DEF Returns, List!Returns
<1> QED
  BY <1>1, <1>12, <1>14, Zenon DEF List!LPut, AbsList

LEMMA InitRefines == Init => List!LInit
<1> SUFFICES ASSUME Init PROVE List!LInit
  OBVIOUS
<1>1. last = 0 /\ 1 .. last = {}
  BY DEF Init
<1>2. [j \in 1 .. last |-> m[Order[j]]] = <<>>
  <2> HIDE DEF Order
  <2> QED
    BY <1>1
<1>3. out = List!Returns("create", 0, {})
  BY DEF Init, Returns, List!Returns
<1> QED
  BY <1>2, <1>3 DEF List!LInit

LEMMA StepRefines == Lru2Inv /\ ListFollows /\ ListFollows' /\ [Next]_vars => [List!LNext]_<<AbsList, out>>
<1> SUFFICES ASSUME Lru2Inv, ListFollows', [Next]_vars PROVE List!LNext \/ UNCHANGED <<AbsList, out>>
  OBVIOUS
<1>1. CASE UNCHANGED vars
  BY <1>1, UnmovedRefines DEF vars
<1>2. ASSUME NEW k \in Keys, GetHit(k) PROVE List!LNext
  BY <1>2, GetRefines DEF List!LNext
<1>3. ASSUME NEW k \in Keys, GetMiss(k) PROVE List!LNext
  BY <1>3, GetMissRefines DEF List!LNext
<1>4. ASSUME NEW k \in Keys, DelKey(k) PROVE List!LNext
  BY <1>4, DelRefines DEF List!LNext
<1>5. ASSUME NEW k \in Keys, DelMiss(k) PROVE List!LNext
  BY <1>5, DelMissRefines DEF List!LNext
<1>6. ASSUME NEW k \in Keys, NEW v \in Values, NEW e \in Times, PutUpdate(k, v, e) PROVE List!LNext
  BY <1>6, PutUpdateRefines DEF List!LNext
<1>7. ASSUME NEW k \in Keys, NEW v \in Values, NEW e \in Times, PutEvict(k, v, e) PROVE List!LNext
  BY <1>7, PutEvictRefines DEF List!LNext
<1>8. ASSUME NEW k \in Keys, NEW v \in Values, NEW e \in Times, PutNew(k, v, e) PROVE List!LNext
  BY <1>8, PutNewRefines DEF List!LNext
<1> QED
  BY <1>1, <1>2, <1>3, <1>4, <1>5, <1>6, <1>7, <1>8 DEF Next

\* The array-and-index implementation of lru2.go implements the bounded list of
\* Lru2List: each put, get and del changes the order, answers and evicts as the
\* abstract operation does, for every capacity.
THEOREM Lru2ImplementsList == Spec => ImplementsList
<1>1. Init => Lru2Inv
  BY Lru2InvInit
<1>2. Lru2Inv /\ [Next]_vars => Lru2Inv'
  BY Lru2InvStep
<1>3. Lru2Inv => ListFollows
  BY ListFollowsOrder
<1>4. Init => List!LInit
  BY InitRefines
<1>5. Lru2Inv /\ ListFollows /\ ListFollows' /\ [Next]_vars => [List!LNext]_<<AbsList, out>>
  BY StepRefines
<1> QED
  BY <1>1, <1>2, <1>3, <1>4, <1>5, PTL DEF Spec, ImplementsList, List!LSpec, AbsList

-----------------------------------------------------------------------------
\* The cache in front of the LRU store of lru.go, until it is closed.
\* With nothing under way when the cache was closed, only Gets that have their element
\* in hand remain; they keep the store from being dropped until they are done, and
\* nobody begins anything any more.
CloseInv ==
  /\ pc = [p \in Procs |-> pc[p]]
  /\ closing => closed
  /\ closed /\ ~raced => ~crashed /\ \A p \in Procs : pc[p].at \in {"idle", "touch"}
  /\ closed /\ ~raced /\ ~closing => store = None /\ \A p \in Procs : pc[p].at = "idle"

LEMMA GotoIs ==
  ASSUME pc = [p \in Procs |-> pc[p]], NEW p \in Procs, NEW to, Goto(p, to)
  PROVE  pc' = [q \in Procs |-> pc'[q]] /\ pc'[p] = to /\ \A q \in Procs : q # p => pc'[q] = pc[q]
BY DEF Goto

\* Whoever is not between two steps of an operation cannot be where a step of one begins.
LEMMA CallKeepsClosed ==
  ASSUME CloseInv, NEW p \in Procs, Call(p)
  PROVE  CloseInv'
<1>1. ASSUME NEW call, Begin(p, call) PROVE CloseInv'
  <2>1. ~closed /\ Goto(p, call) /\ UNCHANGED <<store, closed, crashed, closing, raced>>
    BY <1>1 DEF Begin, Open, cacheVars
  <2>2. pc' = [q \in Procs |-> pc'[q]]
    BY <2>1, GotoIs DEF CloseInv
  <2> QED
    BY <2>1, <2>2 DEF CloseInv
<1>2. ASSUME NEW to, Goto(p, to), pc[p].at \notin {"idle", "touch"},
             UNCHANGED <<closed, closing, raced>>
      PROVE  CloseInv'
  <2>1. ~(closed /\ ~raced)
    BY <1>2 DEF CloseInv
  <2>2. pc' = [q \in Procs |-> pc'[q]]
    BY <1>2, GotoIs DEF CloseInv
  <2> QED
    BY <1>2, <2>1, <2>2 DEF CloseInv
<1>3. CASE Ensure(p)
  BY <1>2, <1>3 DEF Ensure, At, cacheVars
<1>4. CASE Create(p)
  BY <1>2, <1>4 DEF Create, At
<1>5. CASE Set(p)
  BY <1>2, <1>5 DEF Set, At
<1>6. CASE Look(p)
  BY <1>2, <1>6 DEF Look, At
<1>7. CASE DeleteKey(p)
  BY <1>2, <1>7 DEF DeleteKey, At
<1>8. CASE ClearAll(p)
  BY <1>2, <1>8 DEF ClearAll, At
<1>9. CASE NilStore(p)
  BY <1>2, <1>9 DEF NilStore, cacheVars
<1>10. CASE Touched(p)
  <2>1. pc[p].at = "touch" /\ Goto(p, Idle) /\ UNCHANGED <<closed, crashed, closing, raced>>
    BY <1>10 DEF Touched, At
  <2>2. closed /\ ~raced => closing
    BY <2>1 DEF CloseInv
  <2>3. Idle.at = "idle"
    BY DEF Idle
  <2>4. pc' = [q \in Procs |-> pc'[q]] /\ pc'[p] = Idle /\ \A q \in Procs : q # p => pc'[q] = pc[q]
    BY <2>1, GotoIs DEF CloseInv
  <2> QED
    BY <2>1, <2>2, <2>3, <2>4 DEF CloseInv
<1> QED
  BY <1>1, <1>3, <1>4, <1>5, <1>6, <1>7, <1>8, <1>9, <1>10 DEF Call

LEMMA CloseInvStep == CloseInv /\ [CacheNext]_nodeVars => CloseInv'
<1> SUFFICES ASSUME CloseInv, [CacheNext]_nodeVars PROVE CloseInv'
  OBVIOUS
<1>1. CASE UNCHANGED nodeVars
  BY <1>1 DEF CloseInv, nodeVars, cacheVars
<1>2. ASSUME NEW p \in Procs, Call(p) PROVE CloseInv'
  BY <1>2, CallKeepsClosed
<1>3. ASSUME store # None, UNCHANGED <<closed, pc, crashed, closing, raced>> PROVE CloseInv'
  BY <1>3 DEF CloseInv
<1>4. ASSUME NEW i, LateDelete(i) PROVE CloseInv'
  BY <1>3, <1>4 DEF LateDelete
<1>5. ASSUME NEW k, Expire(k) PROVE CloseInv'
  BY <1>3, <1>5 DEF Expire
<1>6. CASE Sweep
  BY <1>3, <1>6 DEF Sweep
<1>7. CASE Close
  BY <1>7 DEF Close, CloseInv
<1>8. CASE DropStore
  BY <1>8 DEF DropStore, Readers, CloseInv
<1> QED
  BY <1>1, <1>2, <1>4, <1>5, <1>6, <1>7, <1>8 DEF CacheNext

\* A cache that nobody was using when it was closed stays closed: no later call panics
\* or brings the store back, for any number of goroutines and any calls.
THEOREM CloseIsFinalAlways == CacheSpec => []CloseIsFinal
<1>1. CacheInit => CloseInv
  BY DEF CacheInit, CloseInv
<1>2. CloseInv /\ [CacheNext]_nodeVars => CloseInv'
  BY CloseInvStep
<1>3. CloseInv => CloseIsFinal
  BY DEF CloseInv, CloseIsFinal
<1> QED
  BY <1>1, <1>2, <1>3, PTL DEF CacheSpec

-----------------------------------------------------------------------------
\* Of finite sets of which one is bad, there is a bad one without a smaller bad one.
LEMMA LeastSet ==
  ASSUME NEW E, IsFiniteSet(E), NEW B, B \subseteq SUBSET E, B # {}
  PROVE  \E s \in B : \A r \in B : r \subseteq s => r = s
<1>1. PICK R : R = StrictSubsetOrdering(E)
  OBVIOUS
<1>2. IsWellFoundedOn(R, SUBSET E)
  BY <1>1, FS_StrictSubsetOrderingWellFounded, FS_FiniteSubsetsOfFinite
<1>3. PICK s \in B : \A r \in B : ~(<<r, s>> \in R)
  BY <1>2, WFMin
<1>4. ASSUME NEW r \in B, r \subseteq s, r # s PROVE FALSE
  <2>1. <<r, s>> \in R
    BY <1>1, <1>4 DEF StrictSubsetOrdering
  <2> QED
    BY <1>3, <2>1
<1> QED
  BY <1>4

\* The bytes of a set of elements.
Bytes(size, A) == MapThenSumSet(LAMBDA e : size[e], A)
One(s) == CHOOSE x \in s : TRUE
BytesTable(size, A, f) == f = [s \in SUBSET A |-> IF s = {} THEN 0 ELSE size[One(s)] + f[s \ {One(s)}]]

LEMMA OneIn == \A s : s # {} => One(s) \in s
  BY DEF One

LEMMA BytesIs ==
  ASSUME NEW size, NEW A
  PROVE  Bytes(size, A) = (CHOOSE f : BytesTable(size, A, f))[A]
  BY DEF Bytes, MapThenSumSet, MapThenFoldSet, BytesTable, One

\* Two tables give a set that both have the same bytes.
LEMMA BytesTablesAgree ==
  ASSUME NEW size, NEW A, IsFiniteSet(A), NEW E, A \subseteq E,
         NEW f, BytesTable(size, A, f), NEW g, BytesTable(size, E, g)
  PROVE  \A s \in SUBSET A : f[s] = g[s]
<1> DEFINE Bad == {s \in SUBSET A : f[s] # g[s]}
<1>1. \A s \in SUBSET A : f[s] = IF s = {} THEN 0 ELSE size[One(s)] + f[s \ {One(s)}]
  BY DEF BytesTable
<1>2. \A s \in SUBSET A : g[s] = IF s = {} THEN 0 ELSE size[One(s)] + g[s \ {One(s)}]
  BY DEF BytesTable
<1>3. ASSUME Bad # {} PROVE FALSE
  <2>0. PICK B : B = Bad /\ B \subseteq SUBSET A /\ B # {}
    BY <1>3
  <2>1. PICK s \in Bad : \A r \in Bad : r \subseteq s => r = s
    BY <2>0, LeastSet
  <2>2. s \in SUBSET A /\ f[s] # g[s] /\ s # {}
    BY <1>1, <1>2
  <2>3. PICK r : r = s \ {One(s)}
    OBVIOUS
  <2>4. r \in SUBSET A /\ r \subseteq s /\ r # s
    BY <2>2, <2>3, OneIn
  <2>5. f[r] = g[r]
    BY <2>1, <2>4
  <2> QED
    BY <1>1, <1>2, <2>2, <2>3, <2>5
<1> QED
  BY <1>3

LEMMA BytesTableExists ==
  ASSUME NEW size, NEW A, IsFiniteSet(A)
  PROVE  \E f : BytesTable(size, A, f)
<1> DEFINE Bad == {s \in SUBSET A : ~\E f : BytesTable(size, s, f)}
           G(s) == CHOOSE f : BytesTable(size, s, f)
<1>0. Bad \subseteq SUBSET A
  OBVIOUS
<1>1. ASSUME Bad # {} PROVE FALSE
  <2> HIDE DEF Bad
  <2>1. PICK T \in Bad : \A r \in Bad : r \subseteq T => r = T
    BY <1>0, <1>1, LeastSet
  <2> USE DEF Bad
  <2>2. \A r \in SUBSET T : r # T => BytesTable(size, r, G(r))
    BY <2>1
  <2>3. \A r \in SUBSET A : IsFiniteSet(r)
    BY FS_Subset
  <2> HIDE DEF G
  <2>4. ASSUME NEW r \in SUBSET T, r # T, NEW q \in SUBSET r PROVE G(r)[q] = G(q)[q]
    <3>1. q # T /\ q \in SUBSET T /\ IsFiniteSet(q) /\ q \in SUBSET q
      BY <2>3, <2>4
    <3>2. BytesTable(size, q, G(q)) /\ BytesTable(size, r, G(r))
      BY <2>2, <2>4, <3>1
    <3> QED
      BY <3>1, <3>2, BytesTablesAgree
  <2> DEFINE Less(s) == s \ {One(s)}
             f == [s \in SUBSET T |-> IF s = {} THEN 0 ELSE size[One(s)] + G(Less(s))[Less(s)]]
  <2>5. ASSUME NEW s \in SUBSET T, s # {} PROVE Less(s) \in SUBSET T /\ Less(s) # T
    BY <2>5, OneIn
  <2> HIDE DEF Less
  <2>6. ASSUME NEW s \in SUBSET T, s # T PROVE f[s] = G(s)[s]
    <3>1. G(s)[s] = IF s = {} THEN 0 ELSE size[One(s)] + G(s)[s \ {One(s)}]
      BY <2>2, <2>6 DEF BytesTable
    <3>2. CASE s = {}
      BY <3>1, <3>2
    <3>3. CASE s # {}
      <4>1. Less(s) \in SUBSET s
        BY DEF Less
      <4>2. G(s)[Less(s)] = G(Less(s))[Less(s)]
        BY <2>4, <2>6, <4>1
      <4> QED
        BY <3>1, <3>3, <4>2 DEF Less
    <3> QED
      BY <3>2, <3>3
  <2>7. ASSUME NEW s \in SUBSET T PROVE f[s] = IF s = {} THEN 0 ELSE size[One(s)] + f[s \ {One(s)}]
    <3>1. CASE s = {}
      BY <3>1
    <3>2. CASE s # {}
      <4>1. f[s] = size[One(s)] + G(Less(s))[Less(s)]
        BY <3>2
      <4>2. f[Less(s)] = G(Less(s))[Less(s)]
        BY <2>5, <2>6, <3>2
      <4> HIDE DEF f
      <4> QED
        BY <3>2, <4>1, <4>2 DEF Less
    <3> QED
      BY <3>1, <3>2
  <2>8. BytesTable(size, T, f)
    <3> DEFINE h == [s \in SUBSET T |-> IF s = {} THEN 0 ELSE size[One(s)] + f[s \ {One(s)}]]
    <3>1. \A s \in SUBSET T : f[s] = h[s]
      BY <2>7
    <3>2. f = [s \in SUBSET T |-> f[s]] /\ h = [s \in SUBSET T |-> h[s]]
      OBVIOUS
    <3> HIDE DEF f, h
    <3>3. f = h
      BY <3>1, <3>2
    <3> QED
      BY <3>3 DEF h, BytesTable
  <2> QED
    BY <2>1, <2>8
<1>2. A \in SUBSET A
  OBVIOUS
<1> QED
  BY <1>1, <1>2

\* Some element may be counted last...
LEMMA BytesOne ==
  ASSUME NEW size, NEW A, IsFiniteSet(A)
  PROVE  Bytes(size, A) = IF A = {} THEN 0 ELSE size[One(A)] + Bytes(size, A \ {One(A)})
<1> DEFINE F(s) == CHOOSE f : BytesTable(size, s, f)
           r == A \ {One(A)}
<1>1. IsFiniteSet(r) /\ r \subseteq A
  BY FS_Subset
<1>2. BytesTable(size, A, F(A)) /\ BytesTable(size, r, F(r))
  <2>1. (\E f : BytesTable(size, A, f)) /\ (\E f : BytesTable(size, r, f))
    BY <1>1, BytesTableExists
  <2> QED
    BY <2>1
<1>3. Bytes(size, A) = F(A)[A] /\ Bytes(size, r) = F(r)[r]
  BY BytesIs
<1> HIDE DEF F
<1>4. F(A)[A] = IF A = {} THEN 0 ELSE size[One(A)] + F(A)[r]
  BY <1>2 DEF BytesTable
<1>5. F(r)[r] = F(A)[r]
  <2>1. PICK f, g, w : f = F(r) /\ g = F(A) /\ w = r
    OBVIOUS
  <2>2. IsFiniteSet(w) /\ w \subseteq A /\ BytesTable(size, w, f) /\ BytesTable(size, A, g)
    BY <1>1, <1>2, <2>1
  <2>3. \A s \in SUBSET w : f[s] = g[s]
    BY <2>2, BytesTablesAgree, SMTT(30)
  <2> QED
    BY <2>1, <2>3
<1> QED
  BY <1>3, <1>4, <1>5

\* ...or any.
LEMMA BytesWithout ==
  ASSUME NEW size, NEW A, IsFiniteSet(A), \A e \in A : size[e] \in Nat
  PROVE  Bytes(size, A) \in Nat /\ \A e \in A : Bytes(size, A) = Bytes(size, A \ {e}) + size[e]
<1> DEFINE Good(s) == Bytes(size, s) \in Nat /\ \A e \in s : Bytes(size, s) = Bytes(size, s \ {e}) + size[e]
           Bad == {s \in SUBSET A : ~Good(s)}
<1>0. Bad \subseteq SUBSET A
  OBVIOUS
<1>1. ASSUME Bad # {} PROVE FALSE
  <2> HIDE DEF Bad
  <2>1. PICK s \in Bad : \A r \in Bad : r \subseteq s => r = s
    BY <1>0, <1>1, LeastSet
  <2> USE DEF Bad
  <2>2. ASSUME NEW r \in SUBSET s, r # s PROVE Good(r)
    BY <2>1, <2>2
  <2>3. \A r \in SUBSET s : IsFiniteSet(r)
    BY FS_Subset
  <2>4. s \in SUBSET s /\ s \in SUBSET A /\ ~Good(s)
    OBVIOUS
  <2>5. s # {}
    <3>1. CASE s = {}
      <4>1. Bytes(size, s) = 0
        BY <2>3, <2>4, <3>1, BytesOne
      <4> QED
        BY <2>4, <3>1, <4>1
    <3> QED
      BY <3>1
  <2>6. PICK x \in s : x = One(s)
    BY <2>5, OneIn
  <2>7. Bytes(size, s) = size[x] + Bytes(size, s \ {x})
    BY <2>3, <2>4, <2>5, <2>6, BytesOne
  <2>8. Bytes(size, s \ {x}) \in Nat /\ size[x] \in Nat
    <3>1. Good(s \ {x})
      BY <2>2
    <3> QED
      BY <3>1
  <2>9. ASSUME NEW e \in s PROVE Bytes(size, s) = Bytes(size, s \ {e}) + size[e]
    <3>1. CASE e = x
      BY <2>7, <2>8, <3>1
    <3>2. CASE e # x
      <4>1. PICK r, q, t : r = s \ {x} /\ q = s \ {e} /\ t = (s \ {x}) \ {e}
        OBVIOUS
      <4>2. t = q \ {x} /\ t = r \ {e} /\ e \in r /\ x \in q
        BY <3>2, <4>1
      <4>3. Good(r) /\ Good(q) /\ Good(t)
        <5>1. r # s /\ q # s /\ t # s /\ r \in SUBSET s /\ q \in SUBSET s /\ t \in SUBSET s
          BY <4>1
        <5> QED
          BY <2>2, <5>1
      <4>4. Bytes(size, r) = Bytes(size, t) + size[e] /\ Bytes(size, q) = Bytes(size, t) + size[x]
        BY <4>2, <4>3
      <4>5. Bytes(size, t) \in Nat /\ size[e] \in Nat
        BY <4>3
      <4> QED
        BY <2>7, <2>8, <4>1, <4>4, <4>5
    <3> QED
      BY <3>1, <3>2
  <2> QED
    BY <2>4, <2>7, <2>8, <2>9
<1>2. A \in SUBSET A
  OBVIOUS
<1>3. Good(A)
  BY <1>1, <1>2
<1> QED
  BY <1>3

LEMMA BytesSame ==
  ASSUME NEW size, NEW other, NEW A, IsFiniteSet(A), \A e \in A : size[e] = other[e]
  PROVE  Bytes(size, A) = Bytes(other, A)
<1> DEFINE Bad == {s \in SUBSET A : Bytes(size, s) # Bytes(other, s)}
<1>1. ASSUME Bad # {} PROVE FALSE
  <2>0. PICK B : B = Bad /\ B \subseteq SUBSET A /\ B # {}
    BY <1>1
  <2>1. PICK s \in Bad : \A r \in Bad : r \subseteq s => r = s
    BY <2>0, LeastSet
  <2>2. s \in SUBSET A /\ Bytes(size, s) # Bytes(other, s) /\ IsFiniteSet(s)
    BY FS_Subset
  <2>3. s # {}
    BY <2>2, BytesOne
  <2>4. PICK x \in s : x = One(s)
    BY <2>3, OneIn
  <2>5. Bytes(size, s) = size[x] + Bytes(size, s \ {x}) /\ Bytes(other, s) = other[x] + Bytes(other, s \ {x})
    BY <2>2, <2>3, <2>4, BytesOne
  <2>6. Bytes(size, s \ {x}) = Bytes(other, s \ {x})
    BY <2>1, <2>2
  <2> QED
    BY <2>2, <2>5, <2>6
<1>2. A \in SUBSET A
  OBVIOUS
<1> QED
  BY <1>1, <1>2
-----------------------------------------------------------------------------
\* The elements A in the order o in which the list leads from the root back to it.
Circle(nx, pv, A, n, o) ==
  /\ n \in Nat /\ o[0] = Root /\ o[n + 1] = Root
  /\ \A j \in 1 .. n : o[j] \in A
  /\ \A i, j \in 1 .. n : o[i] = o[j] => i = j
  /\ \A e \in A : \E j \in 1 .. n : o[j] = e
  /\ \A j \in 0 .. n : nx[o[j]] = o[j + 1] /\ pv[o[j + 1]] = o[j]

Round(nx, pv, A, n, o) ==
  /\ n \in Nat /\ o[0] = Root /\ o[n + 1] = Root /\ pv[Root] = o[n] /\ nx[Root] = o[1]
  /\ \A j \in 0 .. n + 1 : o[j] \in A \cup {Root}
  /\ \A i, j \in 0 .. n : o[i] = o[j] => i = j
  /\ \A i, j \in 1 .. n + 1 : o[i] = o[j] => i = j

LEMMA CircleFacts ==
  ASSUME NEW nx, NEW pv, NEW A, Root \notin A, NEW n, NEW o, Circle(nx, pv, A, n, o)
  PROVE  Round(nx, pv, A, n, o)
<1>1. /\ n \in Nat /\ o[0] = Root /\ o[n + 1] = Root
      /\ \A j \in 1 .. n : o[j] \in A
      /\ \A i, j \in 1 .. n : o[i] = o[j] => i = j
      /\ \A j \in 0 .. n : nx[o[j]] = o[j + 1] /\ pv[o[j + 1]] = o[j]
  BY DEF Circle
<1>2. 0 \in 0 .. n /\ n \in 0 .. n /\ 0 + 1 = 1
  BY <1>1
<1>3. pv[Root] = o[n] /\ nx[Root] = o[1]
  BY <1>1, <1>2
<1>4. \A j \in 0 .. n + 1 : j = 0 \/ j = n + 1 \/ j \in 1 .. n
  BY <1>1
<1>5. \A j \in 0 .. n + 1 : o[j] \in A \cup {Root}
  BY <1>1, <1>4
<1>6. \A j \in 0 .. n : j = 0 \/ j \in 1 .. n
  BY <1>1
<1>7. \A j \in 1 .. n + 1 : j = n + 1 \/ j \in 1 .. n
  BY <1>1
<1>8. \A i, j \in 0 .. n : o[i] = o[j] => i = j
  BY <1>1, <1>6
<1>9. \A i, j \in 1 .. n + 1 : o[i] = o[j] => i = j
  BY <1>1, <1>7
<1> QED
  BY <1>1, <1>3, <1>5, <1>8, <1>9 DEF Round

\* Links N, P that leave e out of A, and links that have it after the last of A.
Untied(nx, pv, A, e, N, P) ==
  \A x \in (A \cup {Root}) \ {e} :
     N[x] = (IF x = pv[e] THEN nx[e] ELSE nx[x]) /\ P[x] = (IF x = nx[e] THEN pv[e] ELSE pv[x])
Tied(nx, pv, A, e, N, P) ==
  \A x \in A \cup {Root, e} :
     /\ N[x] = IF x = e THEN Root ELSE IF x = pv[Root] THEN e ELSE nx[x]
     /\ P[x] = IF x = e THEN pv[Root] ELSE IF x = Root THEN e ELSE pv[x]

\* list.Remove: the neighbours of an element are tied to each other.
LEMMA CircleWithout ==
  ASSUME NEW nx, NEW pv, NEW A, Root \notin A, NEW n, NEW o, Circle(nx, pv, A, n, o), NEW e \in A,
         NEW N, NEW P, Untied(nx, pv, A, e, N, P)
  PROVE  n # 0 /\ \E q : Circle(N, P, A \ {e}, n - 1, q)
<1>1. /\ n \in Nat /\ o[0] = Root /\ o[n + 1] = Root
      /\ \A j \in 0 .. n + 1 : o[j] \in A \cup {Root}
      /\ \A i, j \in 0 .. n : o[i] = o[j] => i = j
      /\ \A i, j \in 1 .. n + 1 : o[i] = o[j] => i = j
  <2>1. Round(nx, pv, A, n, o)
    BY CircleFacts
  <2> QED
    BY <2>1 DEF Round
<1>2. /\ \A j \in 1 .. n : o[j] \in A
      /\ \A x \in A : \E j \in 1 .. n : o[j] = x
      /\ \A j \in 0 .. n : nx[o[j]] = o[j + 1] /\ pv[o[j + 1]] = o[j]
  BY DEF Circle
<1>3. PICK i \in 1 .. n : o[i] = e
  BY <1>2
<1>4. n # 0 /\ i - 1 \in 0 .. n /\ (i - 1) + 1 = i /\ i \in 0 .. n /\ i + 1 \in 1 .. n + 1 /\ i \in 1 .. n + 1
  BY <1>1
<1>5. nx[e] = o[i + 1] /\ pv[e] = o[i - 1]
  <2>1. pv[o[(i - 1) + 1]] = o[i - 1]
    BY <1>2, <1>4
  <2> QED
    BY <1>2, <1>3, <1>4, <2>1
<1> DEFINE c(j) == IF j < i THEN j ELSE j + 1
           q == [j \in 0 .. n |-> o[c(j)]]
<1>6. \A j \in 0 .. n : c(j) \in 0 .. n + 1 /\ c(j) # i
  BY <1>1
<1>7. \A j \in 1 .. n - 1 : c(j) \in 1 .. n
  BY <1>1
<1>8. ASSUME NEW j \in 0 .. n, NEW k \in 0 .. n, c(j) = c(k) PROVE j = k
  <2>1. j \in Int /\ k \in Int /\ i \in Int
    BY <1>1
  <2> QED
    BY <1>8, <2>1
<1>9. ASSUME NEW j \in 0 .. n - 1
      PROVE  /\ c(j) \in 0 .. n /\ c(j + 1) \in 1 .. n + 1 /\ c(j) # i /\ c(j + 1) # i /\ j \in 0 .. n /\ j + 1 \in 0 .. n
             /\ \/ c(j) = i - 1 /\ c(j + 1) = i + 1
                \/ c(j) # i - 1 /\ c(j + 1) # i + 1 /\ c(j + 1) = c(j) + 1
  BY <1>1
<1>10. ASSUME NEW j \in 1 .. n, j # i PROVE \E k \in 1 .. n - 1 : c(k) = j
  <2>1. CASE j < i
    <3>1. j \in 1 .. n - 1 /\ c(j) = j
      BY <1>1, <2>1
    <3> QED
      BY <3>1
  <2>2. CASE ~(j < i)
    <3>1. j - 1 \in 1 .. n - 1 /\ c(j - 1) = j
      BY <1>1, <1>10, <2>2
    <3> QED
      BY <3>1
  <2> QED
    BY <2>1, <2>2
<1>11. c(0) = 0 /\ c(n) = n + 1 /\ 0 \in 0 .. n /\ n \in 0 .. n /\ (n - 1) + 1 = n /\ n - 1 \in Nat
  BY <1>1, <1>4
<1> HIDE DEF c
<1>12. \A j \in 0 .. n : q[j] = o[c(j)]
  OBVIOUS
<1> HIDE DEF q
<1>13. q[0] = Root /\ q[(n - 1) + 1] = Root
  BY <1>1, <1>11, <1>12
<1>14. ASSUME NEW j \in 1 .. n - 1 PROVE q[j] \in A \ {e}
  <2>1. j \in 0 .. n /\ c(j) \in 1 .. n /\ c(j) # i /\ c(j) \in 0 .. n
    BY <1>1, <1>6, <1>7
  <2>2. o[c(j)] \in A /\ o[c(j)] # o[i]
    BY <1>1, <1>2, <1>4, <2>1
  <2> QED
    BY <1>3, <1>12, <2>1, <2>2
<1>15. ASSUME NEW j \in 1 .. n - 1, NEW k \in 1 .. n - 1, q[j] = q[k] PROVE j = k
  <2>1. j \in 0 .. n /\ k \in 0 .. n /\ c(j) \in 0 .. n /\ c(k) \in 0 .. n
    BY <1>1, <1>7
  <2>2. c(j) = c(k)
    BY <1>1, <1>12, <1>15, <2>1
  <2> QED
    BY <1>8, <2>1, <2>2
<1>16. ASSUME NEW x \in A \ {e} PROVE \E k \in 1 .. n - 1 : q[k] = x
  <2>1. PICK j \in 1 .. n : o[j] = x
    BY <1>2
  <2>2. PICK k \in 1 .. n - 1 : c(k) = j
    BY <1>3, <1>10, <2>1
  <2>3. k \in 0 .. n
    BY <1>1
  <2> QED
    BY <1>12, <2>1, <2>2, <2>3
<1>17. ASSUME NEW j \in 0 .. n - 1 PROVE N[q[j]] = q[j + 1] /\ P[q[j + 1]] = q[j]
  <2>0. PICK a \in 0 .. n, b \in 1 .. n + 1 : a = c(j) /\ b = c(j + 1)
    BY <1>9
  <2>1. q[j] = o[a] /\ q[j + 1] = o[b]
    BY <1>9, <1>12, <2>0
  <2>2. a # i /\ b # i /\ ((a = i - 1 /\ b = i + 1) \/ (a # i - 1 /\ b # i + 1 /\ b = a + 1))
    BY <1>9, <2>0
  <2>3. o[a] # e /\ o[b] # e /\ o[a] \in A \cup {Root} /\ o[b] \in A \cup {Root}
    <3>1. a \in 0 .. n + 1 /\ b \in 0 .. n + 1
      BY <1>1
    <3>2. o[a] # o[i] /\ o[b] # o[i]
      BY <1>1, <1>4, <2>2
    <3> QED
      BY <1>1, <1>3, <3>1, <3>2
  <2>4. /\ N[o[a]] = IF o[a] = pv[e] THEN nx[e] ELSE nx[o[a]]
        /\ P[o[b]] = IF o[b] = nx[e] THEN pv[e] ELSE pv[o[b]]
    BY <2>3 DEF Untied
  <2>5. CASE a = i - 1 /\ b = i + 1
    BY <1>5, <2>1, <2>4, <2>5
  <2>6. CASE a # i - 1 /\ b # i + 1 /\ b = a + 1
    <3>1. o[a] # pv[e] /\ o[b] # nx[e]
      BY <1>1, <1>4, <1>5, <2>6
    <3>2. nx[o[a]] = o[b] /\ pv[o[b]] = o[a]
      BY <1>2, <2>6
    <3> QED
      BY <2>1, <2>4, <3>1, <3>2
  <2> QED
    BY <2>2, <2>5, <2>6
<1>18. Circle(N, P, A \ {e}, n - 1, q)
  BY <1>11, <1>13, <1>14, <1>15, <1>16, <1>17 DEF Circle
<1> QED
  BY <1>4, <1>18

\* list.PushBack: a new element between the last one and the root.
LEMMA CircleWith ==
  ASSUME NEW nx, NEW pv, NEW A, Root \notin A, NEW n, NEW o, Circle(nx, pv, A, n, o), NEW e, e \notin A, e # Root,
         NEW N, NEW P, Tied(nx, pv, A, e, N, P)
  PROVE  \E q : Circle(N, P, A \cup {e}, n + 1, q)
<1>1. /\ n \in Nat /\ o[0] = Root /\ o[n + 1] = Root /\ pv[Root] = o[n]
      /\ \A j \in 0 .. n + 1 : o[j] \in A \cup {Root}
      /\ \A i, j \in 0 .. n : o[i] = o[j] => i = j
  <2>1. Round(nx, pv, A, n, o)
    BY CircleFacts
  <2> QED
    BY <2>1 DEF Round
<1>2. /\ \A j \in 1 .. n : o[j] \in A
      /\ \A i, j \in 1 .. n : o[i] = o[j] => i = j
      /\ \A x \in A : \E j \in 1 .. n : o[j] = x
      /\ \A j \in 0 .. n : nx[o[j]] = o[j + 1] /\ pv[o[j + 1]] = o[j]
  BY DEF Circle
<1> DEFINE q == [j \in 0 .. n + 2 |-> IF j <= n THEN o[j] ELSE IF j = n + 1 THEN e ELSE Root]
<1>3. \A j \in 0 .. n : q[j] = o[j]
  BY <1>1
<1>4. q[n + 1] = e /\ q[(n + 1) + 1] = Root
  BY <1>1
<1> HIDE DEF q
<1>5. \A j \in 1 .. n + 1 : j = n + 1 \/ (j \in 1 .. n /\ j \in 0 .. n)
  BY <1>1
<1>6. q[0] = Root /\ n + 1 \in Nat /\ n + 1 \in 1 .. n + 1 /\ n \in 0 .. n
  BY <1>1, <1>3
<1>7. \A j \in 1 .. n + 1 : q[j] \in A \cup {e}
  BY <1>2, <1>3, <1>4, <1>5
<1>8. ASSUME NEW i \in 1 .. n + 1, NEW j \in 1 .. n + 1, q[i] = q[j] PROVE i = j
  BY <1>2, <1>3, <1>4, <1>5, <1>8
<1>9. ASSUME NEW x \in A \cup {e} PROVE \E j \in 1 .. n + 1 : q[j] = x
  <2>1. CASE x = e
    BY <1>4, <1>6, <2>1
  <2>2. CASE x \in A
    <3>1. PICK j \in 1 .. n : o[j] = x
      BY <1>2, <2>2
    <3>2. j \in 1 .. n + 1 /\ j \in 0 .. n
      BY <1>1
    <3> QED
      BY <1>3, <3>1, <3>2
  <2> QED
    BY <2>1, <2>2
<1>10. ASSUME NEW j \in 0 .. n + 1 PROVE N[q[j]] = q[j + 1] /\ P[q[j + 1]] = q[j]
  <2>1. CASE j = n + 1
    <3>1. N[e] = Root /\ P[Root] = e
      BY DEF Tied
    <3> QED
      BY <1>4, <2>1, <3>1
  <2>2. CASE j = n
    <3>1. q[j] = o[n] /\ q[j + 1] = e /\ o[n] \in A \cup {Root} /\ o[n] # e
      BY <1>1, <1>3, <1>4, <1>6, <2>2
    <3>2. N[o[n]] = e /\ P[e] = o[n]
      BY <1>1, <3>1 DEF Tied
    <3> QED
      BY <3>1, <3>2
  <2>3. CASE j # n /\ j # n + 1
    <3>1. j \in 0 .. n /\ j + 1 \in 0 .. n /\ j + 1 \in 1 .. n /\ j \in 0 .. n + 1 /\ j + 1 \in 0 .. n + 1
      BY <1>1, <2>3
    <3>2. q[j] = o[j] /\ q[j + 1] = o[j + 1]
      BY <1>3, <3>1
    <3>3. /\ o[j] \in A \cup {Root} /\ o[j] # e /\ o[j] # pv[Root]
          /\ o[j + 1] \in A /\ o[j + 1] # e /\ o[j + 1] # Root
      BY <1>1, <1>2, <1>6, <2>3, <3>1
    <3>4. N[o[j]] = nx[o[j]] /\ P[o[j + 1]] = pv[o[j + 1]]
      BY <3>3 DEF Tied
    <3> QED
      BY <1>2, <3>1, <3>2, <3>4
  <2> QED
    BY <2>1, <2>2, <2>3
<1>11. Circle(N, P, A \cup {e}, n + 1, q)
  BY <1>4, <1>6, <1>7, <1>8, <1>9, <1>10 DEF Circle
<1> QED
  BY <1>11

\* As many elements as places.
LEMMA CircleSize ==
  ASSUME NEW nx, NEW pv, NEW A, NEW n, NEW o, Circle(nx, pv, A, n, o)
  PROVE  IsFiniteSet(A) /\ Cardinality(A) = n
<1>1. /\ n \in Nat
      /\ \A j \in 1 .. n : o[j] \in A
      /\ \A i, j \in 1 .. n : o[i] = o[j] => i = j
      /\ \A e \in A : \E j \in 1 .. n : o[j] = e
  BY DEF Circle
<1>2. PICK S : S = 1 .. n
  OBVIOUS
<1>3. IsFiniteSet(S) /\ Cardinality(S) = n
  BY <1>1, <1>2, FS_Interval
<1> DEFINE f == [j \in S |-> o[j]]
<1>4. f \in [S -> A] /\ (\A i, j \in S : f[i] = f[j] => i = j) /\ \A e \in A : \E j \in S : f[j] = e
  BY <1>1, <1>2
<1> HIDE DEF f
<1>5. f \in Bijection(S, A)
  BY <1>4 DEF Bijection, Injection, Surjection, IsInjective
<1>6. ExistsBijection(S, A)
  BY <1>5 DEF ExistsBijection
<1> QED
  BY <1>3, <1>6, FS_Bijection

\* Following the links from the root meets the elements in their order.
ChainTable(f, top, c) == c = [j \in 0 .. top |-> IF j = 0 THEN Root ELSE f[c[j - 1]]]

LEMMA ChainFollows ==
  ASSUME NEW f, NEW n \in Nat, NEW o, o[0] = Root, \A j \in 0 .. n : f[o[j]] = o[j + 1]
  PROVE  \A j \in 0 .. n + 1 : (CHOOSE c : ChainTable(f, n + 1, c))[j] = o[j]
<1> DEFINE top == n + 1
           c == CHOOSE c : ChainTable(f, top, c)
           w == [j \in 0 .. top |-> o[j]]
           v == [j \in 0 .. top |-> IF j = 0 THEN Root ELSE f[w[j - 1]]]
           Bad == {j \in Nat : j \in 0 .. top /\ c[j] # o[j]}
           R == OpToRel(<, Nat)
<1>1. ASSUME NEW j \in 0 .. top PROVE w[j] = v[j]
  <2>1. CASE j = 0
    BY <2>1
  <2>2. CASE j # 0
    <3>1. j - 1 \in 0 .. n /\ j - 1 \in 0 .. top /\ (j - 1) + 1 = j
      BY <2>2
    <3>2. w[j - 1] = o[j - 1]
      BY <3>1
    <3>3. f[o[j - 1]] = o[j]
      BY <3>1
    <3> QED
      BY <2>2, <3>2, <3>3
  <2> QED
    BY <2>1, <2>2
<1>2. w = v
  <2>1. w = [j \in 0 .. top |-> w[j]] /\ v = [j \in 0 .. top |-> v[j]]
    OBVIOUS
  <2> HIDE DEF w, v
  <2> QED
    BY <1>1, <2>1
<1>3. ChainTable(f, top, w)
  <2> HIDE DEF w
  <2> QED
    BY <1>2 DEF ChainTable, v
<1>4. ChainTable(f, top, c)
  <2> HIDE DEF w, top
  <2> QED
    BY <1>3
<1> HIDE DEF c
<1>5. \A j \in 0 .. top : c[j] = IF j = 0 THEN Root ELSE f[c[j - 1]]
  BY <1>4 DEF ChainTable
<1>6. \A x, y \in Nat : y < x => <<y, x>> \in R
  BY DEF OpToRel
<1>7. IsWellFoundedOn(R, Nat)
  BY NatLessThanWellFounded
<1> HIDE DEF R, w, v
<1>8. ASSUME Bad # {} PROVE FALSE
  <2>1. PICK j \in Bad : \A y \in Bad : ~(<<y, j>> \in R)
    BY <1>7, <1>8, WFMin
  <2>2. j \in Nat /\ j \in 0 .. top /\ c[j] # o[j]
    OBVIOUS
  <2>3. j # 0
    BY <1>5, <2>2
  <2>4. j - 1 \in Nat /\ j - 1 \in 0 .. top /\ j - 1 < j /\ j - 1 \in 0 .. n /\ (j - 1) + 1 = j
    BY <2>2, <2>3
  <2>5. c[j - 1] = o[j - 1]
    BY <1>6, <2>1, <2>2, <2>4
  <2>6. f[o[j - 1]] = o[j]
    BY <2>4
  <2> QED
    BY <1>5, <2>2, <2>3, <2>5, <2>6
<1>9. \A j \in 0 .. top : c[j] = o[j]
  BY <1>8
<1> QED
  BY <1>9 DEF c
-----------------------------------------------------------------------------
StoreType ==
  [next : [Nodes -> Nodes \cup {None}], prev : [Nodes -> Nodes \cup {None}], own : SUBSET Elems, len : Nat,
   items : [EntryKeys -> Elems \cup {None}], key : [Elems -> EntryKeys \cup {None}], size : [Elems -> Nat],
   expires : [EntryKeys -> {"never", "later", "past"}], used : Int]

\* What the list, the map, the times and the account of a store have to do with each other.
ItemsFit(items, key, own, expires) ==
  /\ own = {items[k] : k \in EntryKeys} \ {None}
  /\ \A k \in EntryKeys : items[k] # None => key[items[k]] = k
  /\ \A k \in EntryKeys : expires[k] # "never" => items[k] # None
StoreFits(s) ==
  /\ s \in StoreType
  /\ \E o : Circle(s.next, s.prev, s.own, s.len, o)
  /\ ItemsFit(s.items, s.key, s.own, s.expires)
  /\ s.used = Bytes(s.size, s.own)

\* The fields that unlinking and removing an element change.
LEMMA UnlinkedIs ==
  ASSUME NEW s \in StoreType, NEW e \in Elems, s.prev[e] \in Nodes, s.next[e] \in Nodes
  PROVE  /\ Unlinked(s, e) \in StoreType
         /\ Unlinked(s, e).next = [s.next EXCEPT ![s.prev[e]] = s.next[e]]
         /\ Unlinked(s, e).prev = [s.prev EXCEPT ![s.next[e]] = s.prev[e]]
         /\ Unlinked(s, e) = [s EXCEPT !.next = Unlinked(s, e).next, !.prev = Unlinked(s, e).prev]
  BY DEF Unlinked, StoreType

LEMMA RemovedIs ==
  ASSUME NEW s \in StoreType, NEW e \in s.own, s.prev[e] \in Nodes, s.next[e] \in Nodes, s.key[e] \in EntryKeys, s.len # 0
  PROVE  /\ removeElement(s, e) \in StoreType
         /\ removeElement(s, e).next = [[s.next EXCEPT ![s.prev[e]] = s.next[e]] EXCEPT ![e] = None]
         /\ removeElement(s, e).prev = [[s.prev EXCEPT ![s.next[e]] = s.prev[e]] EXCEPT ![e] = None]
         /\ removeElement(s, e).own = s.own \ {e} /\ removeElement(s, e).len = s.len - 1
         /\ removeElement(s, e).items = [s.items EXCEPT ![s.key[e]] = None]
         /\ removeElement(s, e).expires = [s.expires EXCEPT ![s.key[e]] = "never"]
         /\ removeElement(s, e).key = s.key /\ removeElement(s, e).size = s.size
         /\ removeElement(s, e).used = s.used - s.size[e]
<1>1. PICK u : u = Unlinked(s, e)
  OBVIOUS
<1>2. u \in StoreType /\ u.next = [s.next EXCEPT ![s.prev[e]] = s.next[e]]
      /\ u.prev = [s.prev EXCEPT ![s.next[e]] = s.prev[e]]
      /\ u.own = s.own /\ u.len = s.len /\ u.items = s.items /\ u.expires = s.expires /\ u.key = s.key /\ u.size = s.size
      /\ u.used = s.used
  BY <1>1 DEF Unlinked, StoreType
<1>3. PICK t : t = [u EXCEPT !.next[e] = None, !.prev[e] = None, !.own = @ \ {e}, !.len = @ - 1]
  OBVIOUS
<1>4. t = ListRemove(s, e)
  BY <1>1, <1>3 DEF ListRemove
<1>5. t \in StoreType /\ t.next = [u.next EXCEPT ![e] = None] /\ t.prev = [u.prev EXCEPT ![e] = None]
      /\ t.own = s.own \ {e} /\ t.len = s.len - 1 /\ t.items = s.items /\ t.expires = s.expires /\ t.key = s.key
      /\ t.size = s.size /\ t.used = s.used
  <2>1. /\ t.next = [u.next EXCEPT ![e] = None] /\ t.prev = [u.prev EXCEPT ![e] = None]
        /\ t.own = u.own \ {e} /\ t.len = u.len - 1 /\ t.items = u.items /\ t.expires = u.expires /\ t.key = u.key
        /\ t.size = u.size /\ t.used = u.used
    BY <1>2, <1>3 DEF StoreType
  <2>2. t = [next |-> t.next, prev |-> t.prev, own |-> t.own, len |-> t.len, items |-> t.items, key |-> t.key,
             size |-> t.size, expires |-> t.expires, used |-> t.used]
    BY <1>2, <1>3 DEF StoreType
  <2>3. /\ t.next \in [Nodes -> Nodes \cup {None}] /\ t.prev \in [Nodes -> Nodes \cup {None}]
        /\ t.own \in SUBSET Elems /\ t.len \in Nat
    <3>1. /\ u.next \in [Nodes -> Nodes \cup {None}] /\ u.prev \in [Nodes -> Nodes \cup {None}]
          /\ u.own \in SUBSET Elems /\ u.len \in Nat
      BY <1>2 DEF StoreType
    <3>2. PICK a, b, V : a = u.next /\ b = u.prev /\ V = Nodes \cup {None}
      OBVIOUS
    <3>3. [a EXCEPT ![e] = None] \in [Nodes -> V] /\ [b EXCEPT ![e] = None] \in [Nodes -> V]
      BY <3>1, <3>2
    <3>4. u.len - 1 \in Nat
      BY <1>2, <3>1
    <3> QED
      BY <2>1, <3>1, <3>2, <3>3, <3>4
  <2>4. t \in StoreType
    BY <1>2, <2>1, <2>2, <2>3 DEF StoreType
  <2> QED
    BY <1>2, <2>1, <2>4
<1>6. removeElement(s, e) = [t EXCEPT !.items[s.key[e]] = None, !.expires[s.key[e]] = "never", !.used = @ - s.size[e]]
  BY <1>4 DEF removeElement
<1>7. PICK r : r = removeElement(s, e)
  OBVIOUS
<1>8. /\ r.next = t.next /\ r.prev = t.prev /\ r.own = t.own /\ r.len = t.len /\ r.key = t.key /\ r.size = t.size
      /\ r.items = [t.items EXCEPT ![s.key[e]] = None] /\ r.expires = [t.expires EXCEPT ![s.key[e]] = "never"]
      /\ r.used = t.used - s.size[e]
  BY <1>5, <1>6, <1>7 DEF StoreType
<1>9. r = [next |-> r.next, prev |-> r.prev, own |-> r.own, len |-> r.len, items |-> r.items, key |-> r.key,
           size |-> r.size, expires |-> r.expires, used |-> r.used]
  BY <1>5, <1>6, <1>7 DEF StoreType
<1>10. /\ r.items \in [EntryKeys -> Elems \cup {None}] /\ r.expires \in [EntryKeys -> {"never", "later", "past"}]
       /\ r.used \in Int
  BY <1>5, <1>8 DEF StoreType
<1>11. r \in StoreType
  BY <1>5, <1>8, <1>9, <1>10 DEF StoreType
<1> QED
  BY <1>2, <1>5, <1>7, <1>8, <1>11

\* What a store that fits says of each element.
LEMMA StoreFacts ==
  ASSUME NEW s, StoreFits(s)
  PROVE  /\ s \in StoreType /\ s.own \subseteq Elems /\ Root \notin s.own /\ None \notin s.own /\ IsFiniteSet(s.own)
         /\ s.size \in [Elems -> Nat] /\ \A e \in s.own : s.size[e] \in Nat
         /\ \A e \in s.own : /\ s.prev[e] \in s.own \cup {Root} /\ s.next[e] \in s.own \cup {Root}
                             /\ s.key[e] \in EntryKeys /\ s.items[s.key[e]] = e /\ s.len # 0
         /\ \A k \in EntryKeys : s.items[k] # None => s.items[k] \in s.own /\ s.key[s.items[k]] = k
         /\ s.len \in Nat /\ s.prev[Root] \in s.own \cup {Root} /\ s.next[Root] \in s.own \cup {Root}
         /\ s.next[s.prev[Root]] = Root /\ (s.len # 0 => s.next[Root] \in s.own)
         /\ \A e \in s.own : s.next[e] = Root => s.prev[Root] = e
<1>1. s \in StoreType /\ s.own \subseteq Elems /\ s.len \in Nat /\ s.size \in [Elems -> Nat]
  BY DEF StoreFits, StoreType
<1>2. Root \notin s.own /\ None \notin s.own /\ IsFiniteSet(s.own) /\ \A e \in s.own : s.size[e] \in Nat
  BY <1>1, CacheAssumption, FS_Subset
<1>3. PICK o : Circle(s.next, s.prev, s.own, s.len, o)
  BY DEF StoreFits
<1>4. PICK n \in Nat : n = s.len
  BY <1>1
<1>5. /\ o[0] = Root /\ o[n + 1] = Root /\ s.prev[Root] = o[n] /\ s.next[Root] = o[1]
      /\ \A j \in 0 .. n + 1 : o[j] \in s.own \cup {Root}
  <2>1. PICK nx, pv, A : nx = s.next /\ pv = s.prev /\ A = s.own
    OBVIOUS
  <2>0. PICK top : top = s.len
    OBVIOUS
  <2>2. Circle(nx, pv, A, top, o) /\ Root \notin A
    BY <1>2, <1>3, <2>0, <2>1
  <2>3. /\ o[0] = Root /\ o[top + 1] = Root /\ pv[Root] = o[top] /\ nx[Root] = o[1]
        /\ \A j \in 0 .. top + 1 : o[j] \in A \cup {Root}
    <3>1. Round(nx, pv, A, top, o)
      BY <2>2, CircleFacts
    <3> QED
      BY <3>1 DEF Round
  <2>4. top = n
    BY <1>4, <2>0
  <2> QED
    BY <2>1, <2>3, <2>4
<1>6. /\ \A j \in 1 .. n : o[j] \in s.own
      /\ \A e \in s.own : \E j \in 1 .. n : o[j] = e
      /\ \A j \in 0 .. n : s.next[o[j]] = o[j + 1] /\ s.prev[o[j + 1]] = o[j]
  BY <1>3, <1>4 DEF Circle
<1>7. ASSUME NEW e \in s.own PROVE /\ s.prev[e] \in s.own \cup {Root} /\ s.next[e] \in s.own \cup {Root} /\ n # 0
                                   /\ s.next[e] = Root => s.prev[Root] = e
  <2>1. PICK j \in 1 .. n : o[j] = e
    BY <1>6
  <2>2. /\ j \in 0 .. n /\ j + 1 \in 0 .. n + 1 /\ j - 1 \in 0 .. n /\ j - 1 \in 0 .. n + 1 /\ (j - 1) + 1 = j /\ n # 0
        /\ (j + 1 \in 1 .. n \/ j = n)
    OBVIOUS
  <2>3. s.next[e] = o[j + 1] /\ s.prev[e] = o[j - 1]
    <3>1. s.next[o[j]] = o[j + 1] /\ s.prev[o[(j - 1) + 1]] = o[j - 1]
      BY <1>6, <2>2
    <3> QED
      BY <2>1, <2>2, <3>1
  <2>4. s.next[e] = Root => j = n
    <3>1. j + 1 \in 1 .. n => o[j + 1] \in s.own
      BY <1>6
    <3> QED
      BY <1>2, <2>2, <2>3, <3>1
  <2> QED
    BY <1>5, <2>1, <2>2, <2>3, <2>4
<1>8. /\ s.own = {s.items[k] : k \in EntryKeys} \ {None}
      /\ \A k \in EntryKeys : s.items[k] # None => s.key[s.items[k]] = k
  BY DEF StoreFits, ItemsFit
<1>9. \A e \in s.own : s.key[e] \in EntryKeys /\ s.items[s.key[e]] = e
  BY <1>8
<1>10. \A k \in EntryKeys : s.items[k] # None => s.items[k] \in s.own /\ s.key[s.items[k]] = k
  BY <1>8
<1>11. /\ s.prev[Root] \in s.own \cup {Root} /\ s.next[Root] \in s.own \cup {Root}
       /\ s.next[s.prev[Root]] = Root /\ (n # 0 => s.next[Root] \in s.own)
  <2>1. n \in 0 .. n + 1 /\ n \in 0 .. n /\ 1 \in 0 .. n + 1 /\ (n # 0 => 1 \in 1 .. n)
    OBVIOUS
  <2> QED
    BY <1>5, <1>6, <2>1
<1> QED
  BY <1>1, <1>2, <1>4, <1>7, <1>9, <1>10, <1>11

\* The map and the times without one item.
LEMMA ItemsWithout ==
  ASSUME NEW items \in [EntryKeys -> Elems \cup {None}], NEW key, NEW own,
         NEW expires \in [EntryKeys -> {"never", "later", "past"}], ItemsFit(items, key, own, expires),
         NEW k \in EntryKeys, items[k] # None
  PROVE  ItemsFit([items EXCEPT ![k] = None], key, own \ {items[k]}, [expires EXCEPT ![k] = "never"])
<1> DEFINE I == [items EXCEPT ![k] = None]
           X == [expires EXCEPT ![k] = "never"]
<1>1. /\ own = {items[j] : j \in EntryKeys} \ {None}
      /\ \A j \in EntryKeys : items[j] # None => key[items[j]] = j
      /\ \A j \in EntryKeys : expires[j] # "never" => items[j] # None
  BY DEF ItemsFit
<1>2. I[k] = None /\ X[k] = "never" /\ \A j \in EntryKeys : j # k => I[j] = items[j] /\ X[j] = expires[j]
  OBVIOUS
<1> HIDE DEF I, X
<1>3. \A j \in EntryKeys : j # k => items[j] # items[k]
  BY <1>1
<1>4. own \ {items[k]} = {I[j] : j \in EntryKeys} \ {None}
  BY <1>1, <1>2, <1>3
<1>5. \A j \in EntryKeys : I[j] # None => key[I[j]] = j
  BY <1>1, <1>2
<1>6. \A j \in EntryKeys : X[j] # "never" => I[j] # None
  BY <1>1, <1>2
<1>7. ItemsFit(I, key, own \ {items[k]}, X)
  BY <1>4, <1>5, <1>6 DEF ItemsFit
<1> QED
  BY <1>7 DEF I, X

\* removeElement (lru.go:173-183) takes one item out of list, map, times and account.
LEMMA RemoveFits ==
  ASSUME NEW s, StoreFits(s), NEW e \in s.own
  PROVE  StoreFits(removeElement(s, e))
<1>1. /\ s \in StoreType /\ s.own \subseteq Elems /\ Root \notin s.own /\ None \notin s.own /\ IsFiniteSet(s.own)
      /\ s.prev[e] \in s.own \cup {Root} /\ s.next[e] \in s.own \cup {Root}
      /\ s.key[e] \in EntryKeys /\ s.items[s.key[e]] = e /\ s.len # 0 /\ s.len \in Nat /\ \A x \in s.own : s.size[x] \in Nat
  BY StoreFacts
<1>2. s.prev[e] \in Nodes /\ s.next[e] \in Nodes
  BY <1>1 DEF Nodes
<1>3. PICK r : r = removeElement(s, e)
  OBVIOUS
<1>4. /\ r \in StoreType
      /\ r.next = [[s.next EXCEPT ![s.prev[e]] = s.next[e]] EXCEPT ![e] = None]
      /\ r.prev = [[s.prev EXCEPT ![s.next[e]] = s.prev[e]] EXCEPT ![e] = None]
      /\ r.own = s.own \ {e} /\ r.len = s.len - 1
      /\ r.items = [s.items EXCEPT ![s.key[e]] = None]
      /\ r.expires = [s.expires EXCEPT ![s.key[e]] = "never"]
      /\ r.key = s.key /\ r.size = s.size
      /\ r.used = s.used - s.size[e]
  BY <1>1, <1>2, <1>3, RemovedIs, Zenon
<1>5. \E o : Circle(r.next, r.prev, r.own, r.len, o)
  <2>1. PICK o : Circle(s.next, s.prev, s.own, s.len, o)
    BY DEF StoreFits
  <2>2. s.next \in [Nodes -> Nodes \cup {None}] /\ s.prev \in [Nodes -> Nodes \cup {None}]
    BY <1>1 DEF StoreType
  <2>3. PICK nx, pv, N, P : nx = s.next /\ pv = s.prev /\ N = r.next /\ P = r.prev
    OBVIOUS
  <2>4. \A x \in (s.own \cup {Root}) \ {e} : x \in Nodes
    BY <1>1 DEF Nodes
  <2>5. \A x \in (s.own \cup {Root}) \ {e} : /\ N[x] = IF x = pv[e] THEN nx[e] ELSE nx[x]
                                             /\ P[x] = IF x = nx[e] THEN pv[e] ELSE pv[x]
    BY <1>4, <2>2, <2>3, <2>4
  <2>6. \E q : Circle(N, P, s.own \ {e}, s.len - 1, q)
    <3>1. PICK A, n : A = s.own /\ n = s.len
      OBVIOUS
    <3>2. Circle(nx, pv, A, n, o) /\ Root \notin A /\ e \in A
      BY <1>1, <2>1, <2>3, <3>1
    <3>3. Untied(nx, pv, A, e, N, P)
      BY <2>5, <3>1 DEF Untied
    <3>4. \E q : Circle(N, P, A \ {e}, n - 1, q)
      BY <3>2, <3>3, CircleWithout
    <3> QED
      BY <3>1, <3>4
  <2> QED
    BY <1>4, <2>3, <2>6
<1>6. ItemsFit(r.items, r.key, r.own, r.expires)
  <2>1. /\ s.items \in [EntryKeys -> Elems \cup {None}] /\ s.expires \in [EntryKeys -> {"never", "later", "past"}]
        /\ ItemsFit(s.items, s.key, s.own, s.expires) /\ s.items[s.key[e]] # None
    BY <1>1 DEF StoreType, StoreFits
  <2>2. ItemsFit([s.items EXCEPT ![s.key[e]] = None], s.key, s.own \ {s.items[s.key[e]]}, [s.expires EXCEPT ![s.key[e]] = "never"])
    BY <1>1, <2>1, ItemsWithout
  <2> QED
    BY <1>1, <1>4, <2>2
<1>7. r.used = Bytes(r.size, r.own)
  <2>1. PICK z, A : z = s.size /\ A = s.own
    OBVIOUS
  <2>2. Bytes(z, A) = Bytes(z, A \ {e}) + z[e]
    BY <1>1, <2>1, BytesWithout
  <2>3. Bytes(z, A \ {e}) \in Nat
    <3>1. IsFiniteSet(A \ {e}) /\ \A x \in A \ {e} : z[x] \in Nat
      BY <1>1, <2>1, FS_Subset
    <3> QED
      BY <3>1, BytesWithout
  <2>4. s.used = Bytes(z, A) /\ z[e] \in Nat
    BY <1>1, <2>1 DEF StoreFits
  <2>5. (Bytes(z, A \ {e}) + z[e]) - z[e] = Bytes(z, A \ {e})
    BY <2>3, <2>4
  <2> QED
    BY <1>4, <2>1, <2>2, <2>4, <2>5
<1>8. StoreFits(r)
  BY <1>4, <1>5, <1>6, <1>7 DEF StoreFits
<1> QED
  BY <1>3, <1>8

\* evict (lru.go:186-204), element by element.
LEMMA EvictOneFits ==
  ASSUME NEW s, StoreFits(s)
  PROVE  StoreFits(evictOne(s))
<1> DEFINE old == {k \in EntryKeys : s.expires[k] = "past" /\ s.items[k] # None}
<1>1. CASE old # {}
  <2>1. PICK k \in old : k = CHOOSE j \in old : TRUE
    BY <1>1
  <2>2. s.items[k] \in s.own
    BY StoreFacts
  <2>3. evictOne(s) = removeElement(s, s.items[k])
    BY <1>1, <2>1 DEF evictOne
  <2> QED
    BY <2>2, <2>3, RemoveFits
<1>2. CASE old = {} /\ (MaxBytes > 0 /\ s.used > MaxBytes /\ s.len > 0)
  <2>1. s.next[Root] \in s.own
    BY <1>2, StoreFacts
  <2>2. evictOne(s) = removeElement(s, s.next[Root])
    BY <1>2 DEF evictOne
  <2> QED
    BY <2>1, <2>2, RemoveFits
<1>3. CASE old = {} /\ ~(MaxBytes > 0 /\ s.used > MaxBytes /\ s.len > 0)
  BY <1>3 DEF evictOne
<1> QED
  BY <1>1, <1>2, <1>3

\* The stores that evict goes through.
EvictTable(s, k, f) == f = [i \in 0 .. k |-> IF i = 0 THEN s ELSE evictOne(f[i - 1])]

LEMMA EvictTableExists ==
  ASSUME NEW s, NEW k \in Nat
  PROVE  \E f : EvictTable(s, k, f)
<1> DEFINE Bad == {i \in Nat : ~\E f : EvictTable(s, i, f)}
           R == OpToRel(<, Nat)
<1>1. \A x, y \in Nat : y < x => <<y, x>> \in R
  BY DEF OpToRel
<1>2. IsWellFoundedOn(R, Nat)
  BY NatLessThanWellFounded
<1> HIDE DEF R
<1>3. ASSUME Bad # {} PROVE FALSE
  <2>1. PICK w \in Bad : \A y \in Bad : ~(<<y, w>> \in R)
    BY <1>2, <1>3, WFMin
  <2>2. w \in Nat /\ ~\E f : EvictTable(s, w, f)
    OBVIOUS
  <2>3. CASE w = 0
    <3> DEFINE f == [i \in 0 .. 0 |-> s]
    <3>1. \A i \in 0 .. 0 : i = 0
      OBVIOUS
    <3>2. [i \in 0 .. 0 |-> IF i = 0 THEN s ELSE evictOne(f[i - 1])] = f
      BY <3>1
    <3>3. EvictTable(s, 0, f)
      BY <3>2, Zenon DEF EvictTable
    <3> QED
      BY <2>2, <2>3, <3>3
  <2>4. CASE w # 0
    <3>1. w - 1 \in Nat /\ w - 1 < w
      BY <2>2, <2>4
    <3>2. PICK g : EvictTable(s, w - 1, g)
      <4>1. w - 1 \notin Bad
        BY <2>1, <2>2, <3>1, <1>1
      <4> QED
        BY <3>1, <4>1
    <3> DEFINE f == [i \in 0 .. w |-> IF i = w THEN evictOne(g[w - 1]) ELSE g[i]]
               h == [i \in 0 .. w |-> IF i = 0 THEN s ELSE evictOne(f[i - 1])]
    <3>3. \A i \in 0 .. w - 1 : g[i] = IF i = 0 THEN s ELSE evictOne(g[i - 1])
      BY <3>2 DEF EvictTable
    <3>4. ASSUME NEW i \in 0 .. w PROVE f[i] = IF i = 0 THEN s ELSE evictOne(f[i - 1])
      <4>1. CASE i = w
        <5>1. w \in 0 .. w /\ w - 1 \in 0 .. w /\ w - 1 # w
          BY <3>1
        <5>2. f[w - 1] = g[w - 1] /\ f[w] = evictOne(g[w - 1])
          BY <5>1
        <5> HIDE DEF f
        <5> QED
          BY <4>1, <5>2, <2>4
      <4>2. CASE i = 0
        <5>1. 0 \in 0 .. w /\ 0 # w /\ 0 \in 0 .. w - 1
          BY <3>1, <2>4
        <5>2. f[0] = g[0] /\ g[0] = s
          BY <5>1, <3>3
        <5> HIDE DEF f
        <5> QED
          BY <4>2, <5>2
      <4>3. CASE i # w /\ i # 0
        <5>1. i \in 0 .. w /\ i \in 0 .. w - 1 /\ i - 1 \in 0 .. w /\ i - 1 # w
          BY <4>3, <2>2
        <5>2. f[i] = g[i] /\ f[i - 1] = g[i - 1]
          BY <4>3, <5>1
        <5>3. g[i] = IF i = 0 THEN s ELSE evictOne(g[i - 1])
          BY <3>3, <5>1
        <5> HIDE DEF f
        <5> QED
          BY <5>2, <5>3
      <4> QED
        BY <4>1, <4>2, <4>3
    <3>5. f = h
      <4>1. DOMAIN f = 0 .. w /\ DOMAIN h = 0 .. w /\ \A i \in 0 .. w : f[i] = h[i]
        BY <3>4
      <4>2. f = [i \in 0 .. w |-> f[i]] /\ h = [i \in 0 .. w |-> h[i]]
        OBVIOUS
      <4> HIDE DEF f, h
      <4> QED
        BY <4>1, <4>2
    <3>6. EvictTable(s, w, f)
      BY <3>5, Zenon DEF EvictTable
    <3> QED
      BY <2>2, <3>6
  <2> QED
    BY <2>3, <2>4
<1> QED
  BY <1>3

LEMMA EvictFits ==
  ASSUME NEW s, StoreFits(s)
  PROVE  StoreFits(evict(s))
<1>0. PICK k \in Nat : k = s.len
  BY StoreFacts
<1> DEFINE D == CHOOSE f : EvictTable(s, k, f)
           Bad == {i \in Nat : i \in 0 .. k /\ ~StoreFits(D[i])}
           R == OpToRel(<, Nat)
<1>1. EvictTable(s, k, D)
  BY EvictTableExists
<1>2. evict(s) = D[k]
  BY <1>0 DEF evict, EvictTable
<1> HIDE DEF D
<1>3. D[0] = s /\ \A i \in 1 .. k : D[i] = evictOne(D[i - 1])
  BY <1>1 DEF EvictTable
<1>4. \A x, y \in Nat : y < x => <<y, x>> \in R
  BY DEF OpToRel
<1>5. IsWellFoundedOn(R, Nat)
  BY NatLessThanWellFounded
<1> HIDE DEF R
<1>6. ASSUME NEW i \in 1 .. k, StoreFits(D[i - 1]) PROVE StoreFits(D[i])
  <2>1. PICK t : t = D[i - 1]
    OBVIOUS
  <2>2. StoreFits(evictOne(t))
    BY <1>6, <2>1, EvictOneFits
  <2> QED
    BY <1>3, <2>1, <2>2
<1>7. ASSUME Bad # {} PROVE FALSE
  <2>1. PICK i \in Bad : \A y \in Bad : ~(<<y, i>> \in R)
    BY <1>5, <1>7, WFMin
  <2>2. i \in Nat /\ i \in 0 .. k /\ ~StoreFits(D[i])
    OBVIOUS
  <2>3. i # 0
    BY <1>3, <2>2
  <2>4. i \in 1 .. k /\ i - 1 \in Nat /\ i - 1 \in 0 .. k /\ i - 1 < i
    BY <2>2, <2>3
  <2>5. StoreFits(D[i - 1])
    BY <1>4, <2>1, <2>2, <2>4
  <2> QED
    BY <1>6, <2>2, <2>4, <2>5
<1>8. k \in 0 .. k /\ k \in Nat
  OBVIOUS
<1> QED
  BY <1>2, <1>7, <1>8
-----------------------------------------------------------------------------
\* Where the list ends.
LEMMA CircleEnd ==
  ASSUME NEW nx, NEW pv, NEW A, Root \notin A, NEW n, NEW o, Circle(nx, pv, A, n, o)
  PROVE  pv[Root] \in A \cup {Root} /\ nx[pv[Root]] = Root
<1>1. Round(nx, pv, A, n, o)
  BY CircleFacts
<1>2. n \in Nat /\ o[n + 1] = Root /\ pv[Root] = o[n] /\ \A j \in 0 .. n + 1 : o[j] \in A \cup {Root}
  BY <1>1 DEF Round
<1>3. n \in 0 .. n /\ n \in 0 .. n + 1
  BY <1>2
<1>4. nx[o[n]] = o[n + 1]
  BY <1>3 DEF Circle
<1> QED
  BY <1>2, <1>3, <1>4

LinkedAs(s, e, at, r) ==
  /\ r \in StoreType /\ r = [s EXCEPT !.next = r.next, !.prev = r.prev]
  /\ r.next = [[s.next EXCEPT ![e] = Root] EXCEPT ![at] = e]
  /\ r.prev = [[s.prev EXCEPT ![e] = at] EXCEPT ![Root] = e]

LEMMA LinkedIs ==
  ASSUME NEW s \in StoreType, NEW e \in Elems, NEW at \in Nodes, s.next[at] = Root, at # e
  PROVE  LinkedAs(s, e, at, Linked(s, e, at))
<1>1. PICK r : r = Linked(s, e, at)
  OBVIOUS
<1>2. r = [s EXCEPT !.next = [[@ EXCEPT ![e] = Root] EXCEPT ![at] = e], !.prev = [[@ EXCEPT ![e] = at] EXCEPT ![Root] = e]]
  BY <1>1 DEF Linked
<1>3. r.next = [[s.next EXCEPT ![e] = Root] EXCEPT ![at] = e] /\ r.prev = [[s.prev EXCEPT ![e] = at] EXCEPT ![Root] = e]
  BY <1>2 DEF StoreType
<1>4. r = [s EXCEPT !.next = r.next, !.prev = r.prev]
  BY <1>2, <1>3
<1>5. r.next \in [Nodes -> Nodes \cup {None}] /\ r.prev \in [Nodes -> Nodes \cup {None}]
  <2>1. PICK a, b, V : a = s.next /\ b = s.prev /\ V = Nodes \cup {None}
    OBVIOUS
  <2>2. a \in [Nodes -> V] /\ b \in [Nodes -> V] /\ e \in V /\ at \in V /\ Root \in V
    BY <2>1 DEF StoreType, Nodes
  <2>3. [[a EXCEPT ![e] = Root] EXCEPT ![at] = e] \in [Nodes -> V] /\ [[b EXCEPT ![e] = at] EXCEPT ![Root] = e] \in [Nodes -> V]
    BY <2>2
  <2> QED
    BY <1>3, <2>1, <2>3
<1>6. r \in StoreType
  BY <1>4, <1>5 DEF StoreType
<1> QED
  BY <1>1, <1>3, <1>4, <1>6 DEF LinkedAs

\* An element that is not in the list, at its back.
AtBack(s, A, n, e, r) ==
  /\ r \in StoreType /\ r = [s EXCEPT !.next = r.next, !.prev = r.prev]
  /\ \E q : Circle(r.next, r.prev, A \cup {e}, n + 1, q)

LEMMA LinkedTied ==
  ASSUME NEW s \in StoreType, NEW A, A \subseteq Elems, NEW e \in Elems, e \notin A,
         NEW n, NEW o, Circle(s.next, s.prev, A, n, o)
  PROVE  AtBack(s, A, n, e, Linked(s, e, s.prev[Root]))
<1>1. PICK nx, pv : nx = s.next /\ pv = s.prev
  OBVIOUS
<1>2. Circle(nx, pv, A, n, o) /\ Root \notin A /\ e # Root /\ Root \notin Elems
  BY <1>1, CacheAssumption
<1>3. pv[Root] \in A \cup {Root} /\ nx[pv[Root]] = Root
  BY <1>2, CircleEnd
<1>4. PICK at : at = s.prev[Root]
  OBVIOUS
<1>5. at \in Nodes /\ s.next[at] = Root /\ at # e
  BY <1>1, <1>2, <1>3, <1>4 DEF Nodes
<1>6. PICK r : r = Linked(s, e, at)
  OBVIOUS
<1>7. /\ r \in StoreType
      /\ r.next = [[s.next EXCEPT ![e] = Root] EXCEPT ![at] = e]
      /\ r.prev = [[s.prev EXCEPT ![e] = at] EXCEPT ![Root] = e]
      /\ r = [s EXCEPT !.next = r.next, !.prev = r.prev]
  <2>1. LinkedAs(s, e, at, r)
    BY <1>5, <1>6, LinkedIs
  <2> QED
    BY <2>1 DEF LinkedAs
<1>8. PICK N, P : N = r.next /\ P = r.prev
  OBVIOUS
<1>9. Tied(nx, pv, A, e, N, P)
  <2>1. nx \in [Nodes -> Nodes \cup {None}] /\ pv \in [Nodes -> Nodes \cup {None}]
    BY <1>1 DEF StoreType
  <2>2. \A x \in A \cup {Root, e} : x \in Nodes
    BY DEF Nodes
  <2>3. N = [[nx EXCEPT ![e] = Root] EXCEPT ![at] = e] /\ P = [[pv EXCEPT ![e] = at] EXCEPT ![Root] = e] /\ at = pv[Root]
    BY <1>1, <1>4, <1>7, <1>8
  <2> QED
    BY <1>2, <1>5, <2>1, <2>2, <2>3 DEF Tied
<1>10. \E q : Circle(N, P, A \cup {e}, n + 1, q)
  BY <1>2, <1>9, CircleWith
<1>11. AtBack(s, A, n, e, r)
  BY <1>7, <1>8, <1>10 DEF AtBack
<1> QED
  BY <1>4, <1>6, <1>11

\* MoveToBack (container/list, from lru.go:82 and 118).
LEMMA MoveFits ==
  ASSUME NEW s, StoreFits(s), NEW e
  PROVE  StoreFits(MoveToBack(s, e))
<1>1. CASE e \notin s.own \/ s.prev[Root] = e
  BY <1>1 DEF MoveToBack
<1>2. CASE ~(e \notin s.own \/ s.prev[Root] = e)
  <2>1. /\ s \in StoreType /\ s.own \subseteq Elems /\ Root \notin s.own /\ e \in s.own /\ s.len \in Nat
        /\ s.prev[e] \in s.own \cup {Root} /\ s.next[e] \in s.own \cup {Root} /\ s.next[e] # Root /\ s.prev[Root] # e
    BY <1>2, StoreFacts
  <2>2. e \in Elems /\ e \in Nodes /\ s.prev[e] \in Nodes /\ s.next[e] \in Nodes /\ Root \in Nodes
    BY <2>1 DEF Nodes
  <2>3. PICK t : t = Unlinked(s, e)
    OBVIOUS
  <2>4. /\ t \in StoreType /\ t.next = [s.next EXCEPT ![s.prev[e]] = s.next[e]]
        /\ t.prev = [s.prev EXCEPT ![s.next[e]] = s.prev[e]] /\ t = [s EXCEPT !.next = t.next, !.prev = t.prev]
    BY <2>1, <2>2, <2>3, UnlinkedIs
  <2>5. PICK o : Circle(s.next, s.prev, s.own, s.len, o)
    BY DEF StoreFits
  <2>6. s.next \in [Nodes -> Nodes \cup {None}] /\ s.prev \in [Nodes -> Nodes \cup {None}]
    BY <2>1 DEF StoreType
  <2>7. PICK nx, pv, N, P, A, n : nx = s.next /\ pv = s.prev /\ N = t.next /\ P = t.prev /\ A = s.own /\ n = s.len
    OBVIOUS
  <2>8. PICK q : Circle(N, P, A \ {e}, n - 1, q)
    <3>1. \A x \in (A \cup {Root}) \ {e} : x \in Nodes
      BY <2>1, <2>7 DEF Nodes
    <3>2. \A x \in (A \cup {Root}) \ {e} : /\ N[x] = IF x = pv[e] THEN nx[e] ELSE nx[x]
                                           /\ P[x] = IF x = nx[e] THEN pv[e] ELSE pv[x]
      BY <2>4, <2>6, <2>7, <3>1
    <3>3. Untied(nx, pv, A, e, N, P)
      BY <3>2 DEF Untied
    <3>4. Circle(nx, pv, A, n, o) /\ Root \notin A /\ e \in A
      BY <2>1, <2>5, <2>7
    <3> QED
      BY <3>3, <3>4, CircleWithout
  <2>9. t.prev[Root] = s.prev[Root]
    BY <2>1, <2>2, <2>4, <2>6
  <2>10. PICK r : r = Linked(t, e, t.prev[Root])
    OBVIOUS
  <2>11. MoveToBack(s, e) = r
    BY <1>2, <2>3, <2>9, <2>10 DEF MoveToBack
  <2>12. /\ r \in StoreType /\ r = [t EXCEPT !.next = r.next, !.prev = r.prev]
         /\ \E c : Circle(r.next, r.prev, (A \ {e}) \cup {e}, (n - 1) + 1, c)
    <3>1. PICK B, top : B = A \ {e} /\ top = n - 1
      OBVIOUS
    <3>2. B \subseteq Elems /\ e \notin B /\ Circle(t.next, t.prev, B, top, q)
      BY <2>1, <2>7, <2>8, <3>1
    <3>3. /\ r \in StoreType /\ r = [t EXCEPT !.next = r.next, !.prev = r.prev]
          /\ \E c : Circle(r.next, r.prev, B \cup {e}, top + 1, c)
      <4>1. AtBack(t, B, top, e, r)
        BY <2>2, <2>4, <2>10, <3>2, LinkedTied
      <4> QED
        BY <4>1 DEF AtBack
    <3> QED
      BY <3>1, <3>3
  <2>13. (A \ {e}) \cup {e} = A /\ (n - 1) + 1 = n
    BY <2>1, <2>7
  <2>14. r.own = s.own /\ r.len = s.len /\ r.items = s.items /\ r.key = s.key /\ r.expires = s.expires /\ r.size = s.size /\ r.used = s.used
    <3>1. t.own = s.own /\ t.len = s.len /\ t.items = s.items /\ t.key = s.key /\ t.expires = s.expires /\ t.size = s.size /\ t.used = s.used
      BY <2>1, <2>4 DEF StoreType
    <3>2. r.own = t.own /\ r.len = t.len /\ r.items = t.items /\ r.key = t.key /\ r.expires = t.expires /\ r.size = t.size /\ r.used = t.used
      BY <2>4, <2>12 DEF StoreType
    <3> QED
      BY <3>1, <3>2
  <2>15. \E c : Circle(r.next, r.prev, r.own, r.len, c)
    BY <2>7, <2>12, <2>13, <2>14
  <2>16. ItemsFit(s.items, s.key, s.own, s.expires) /\ s.used = Bytes(s.size, s.own)
    BY DEF StoreFits
  <2>17. ItemsFit(r.items, r.key, r.own, r.expires) /\ r.used = Bytes(r.size, r.own)
    BY <2>14, <2>16
  <2>18. StoreFits(r)
    BY <2>12, <2>15, <2>17 DEF StoreFits
  <2> QED
    BY <2>11, <2>18
<1> QED
  BY <1>1, <1>2
-----------------------------------------------------------------------------
\* The account when the size of one element is set to n.
Accounted(size, A, e, n) ==
  /\ e \in A => Bytes([size EXCEPT ![e] = n], A) = Bytes(size, A) + (n - size[e])
  /\ e \notin A => Bytes([size EXCEPT ![e] = n], A \cup {e}) = Bytes(size, A) + n

LEMMA BytesSet ==
  ASSUME NEW size \in [Elems -> Nat], NEW A, A \subseteq Elems, IsFiniteSet(A), NEW e \in Elems, NEW n \in Nat
  PROVE  Accounted(size, A, e, n)
<1>1. PICK z : z = [size EXCEPT ![e] = n]
  OBVIOUS
<1>2. z \in [Elems -> Nat] /\ z[e] = n /\ \A x \in Elems : x # e => z[x] = size[x]
  BY <1>1
<1>3. PICK B : B = A \ {e}
  OBVIOUS
<1>4. B \subseteq Elems /\ IsFiniteSet(B) /\ (\A x \in B : z[x] = size[x]) /\ (\A x \in B : size[x] \in Nat)
  <2>1. IsFiniteSet(B)
    BY <1>3, FS_Subset
  <2> QED
    BY <1>2, <1>3, <2>1
<1>5. Bytes(z, B) = Bytes(size, B) /\ Bytes(size, B) \in Nat
  <2>1. \A x \in B : size[x] = z[x]
    BY <1>4
  <2>2. Bytes(size, B) = Bytes(z, B)
    BY <1>4, <2>1, BytesSame
  <2> QED
    BY <1>4, <2>2, BytesWithout
<1>6. PICK W : W = B \cup {e}
  OBVIOUS
<1>7. IsFiniteSet(W) /\ (\A x \in W : z[x] \in Nat) /\ (\A x \in W : size[x] \in Nat) /\ e \in W /\ W \ {e} = B
  <2>1. IsFiniteSet(W)
    BY <1>4, <1>6, FS_AddElement
  <2> QED
    BY <1>2, <1>3, <1>4, <1>6, <2>1
<1>8. Bytes(z, W) = Bytes(z, W \ {e}) + z[e]
  BY <1>7, BytesWithout
<1>9. Bytes(size, W) = Bytes(size, W \ {e}) + size[e]
  BY <1>7, BytesWithout
<1>10. size[e] \in Nat
  OBVIOUS
<1>11. Bytes(z, W) = Bytes(size, B) + n /\ Bytes(size, W) = Bytes(size, B) + size[e]
  BY <1>2, <1>5, <1>7, <1>8, <1>9
<1>12. Bytes(z, W) = Bytes(size, W) + (n - size[e])
  BY <1>5, <1>10, <1>11
<1>13. (e \in A => W = A) /\ (e \notin A => B = A /\ W = A \cup {e})
  BY <1>3, <1>6
<1> QED
  BY <1>1, <1>11, <1>12, <1>13 DEF Accounted

\* A key that is there: its value, its time and the account (lru.go:113-120).
SetAgain(s, k, n, x) == [[s EXCEPT !.expires[k] = x] EXCEPT !.used = @ + n - s.size[s.items[k]], !.size[s.items[k]] = n]

LEMMA SetAgainFits ==
  ASSUME NEW s, StoreFits(s), NEW k \in EntryKeys, s.items[k] # None, NEW n \in Nat, NEW x \in {"never", "later", "past"}
  PROVE  StoreFits(SetAgain(s, k, n, x))
<1>1. PICK e : e = s.items[k]
  OBVIOUS
<1>2. s \in StoreType /\ s.own \subseteq Elems /\ IsFiniteSet(s.own) /\ e \in s.own /\ s.size \in [Elems -> Nat]
  BY <1>1, StoreFacts
<1>3. e \in Elems /\ s.size[e] \in Nat /\ s.used \in Int
  BY <1>2 DEF StoreType
<1>4. PICK r : r = SetAgain(s, k, n, x)
  OBVIOUS
<1>5. r = [[s EXCEPT !.expires[k] = x] EXCEPT !.used = @ + (n - s.size[e]), !.size[e] = n]
  BY <1>1, <1>3, <1>4 DEF SetAgain
<1>6. /\ r.next = s.next /\ r.prev = s.prev /\ r.own = s.own /\ r.len = s.len /\ r.items = s.items /\ r.key = s.key
      /\ r.expires = [s.expires EXCEPT ![k] = x] /\ r.used = s.used + (n - s.size[e]) /\ r.size = [s.size EXCEPT ![e] = n]
  BY <1>2, <1>5 DEF StoreType
<1>7. r = [next |-> r.next, prev |-> r.prev, own |-> r.own, len |-> r.len, items |-> r.items, key |-> r.key,
           size |-> r.size, expires |-> r.expires, used |-> r.used]
  BY <1>2, <1>5 DEF StoreType
<1>8. r.expires \in [EntryKeys -> {"never", "later", "past"}] /\ r.size \in [Elems -> Nat] /\ r.used \in Int
  <2>1. s.expires \in [EntryKeys -> {"never", "later", "past"}]
    BY <1>2 DEF StoreType
  <2>2. n - s.size[e] \in Int /\ s.used + (n - s.size[e]) \in Int
    BY <1>3
  <2> QED
    BY <1>2, <1>3, <1>6, <2>1, <2>2
<1>9. r \in StoreType
  BY <1>2, <1>6, <1>7, <1>8 DEF StoreType
<1>10. \E o : Circle(r.next, r.prev, r.own, r.len, o)
  BY <1>6 DEF StoreFits
<1>11. ItemsFit(r.items, r.key, r.own, r.expires)
  <2>1. /\ s.own = {s.items[j] : j \in EntryKeys} \ {None}
        /\ \A j \in EntryKeys : s.items[j] # None => s.key[s.items[j]] = j
        /\ \A j \in EntryKeys : s.expires[j] # "never" => s.items[j] # None
    BY DEF StoreFits, ItemsFit
  <2>2. \A j \in EntryKeys : r.expires[j] # "never" => r.items[j] # None
    <3>1. s.expires \in [EntryKeys -> {"never", "later", "past"}]
      BY <1>2 DEF StoreType
    <3>2. \A j \in EntryKeys : j # k => r.expires[j] = s.expires[j]
      BY <1>6, <3>1
    <3> QED
      BY <1>6, <2>1, <3>2
  <2> QED
    BY <1>6, <2>1, <2>2 DEF ItemsFit
<1>12. r.used = Bytes(r.size, r.own)
  <2>1. s.used = Bytes(s.size, s.own)
    BY DEF StoreFits
  <2>2. Bytes([s.size EXCEPT ![e] = n], s.own) = Bytes(s.size, s.own) + (n - s.size[e])
    BY <1>2, <1>3, BytesSet DEF Accounted
  <2> QED
    BY <1>6, <2>1, <2>2
<1>13. StoreFits(r)
  BY <1>9, <1>10, <1>11, <1>12 DEF StoreFits
<1> QED
  BY <1>4, <1>13

\* A key that is not there: a new element at the back (lru.go:122-126).
SetFirst(s, k, n, x, e) ==
  [PushBack([[s EXCEPT !.expires[k] = x] EXCEPT !.key[e] = k, !.size[e] = n], e) EXCEPT !.items[k] = e, !.used = @ + n]

LEMMA SetFirstFits ==
  ASSUME NEW s, StoreFits(s), NEW k \in EntryKeys, s.items[k] = None, NEW n \in Nat, NEW x \in {"never", "later", "past"},
         NEW e \in Elems, e \notin s.own
  PROVE  StoreFits(SetFirst(s, k, n, x, e))
<1>1. s \in StoreType /\ s.own \subseteq Elems /\ IsFiniteSet(s.own) /\ s.size \in [Elems -> Nat] /\ s.len \in Nat
  BY StoreFacts
<1>2. PICK u : u = [[s EXCEPT !.expires[k] = x] EXCEPT !.key[e] = k, !.size[e] = n]
  OBVIOUS
<1>3. /\ u.next = s.next /\ u.prev = s.prev /\ u.own = s.own /\ u.len = s.len /\ u.items = s.items
      /\ u.key = [s.key EXCEPT ![e] = k] /\ u.size = [s.size EXCEPT ![e] = n]
      /\ u.expires = [s.expires EXCEPT ![k] = x] /\ u.used = s.used
  BY <1>1, <1>2 DEF StoreType
<1>4. u \in StoreType
  <2>1. u = [next |-> u.next, prev |-> u.prev, own |-> u.own, len |-> u.len, items |-> u.items, key |-> u.key,
             size |-> u.size, expires |-> u.expires, used |-> u.used]
    BY <1>1, <1>2 DEF StoreType
  <2>2. s.key \in [Elems -> EntryKeys \cup {None}] /\ s.expires \in [EntryKeys -> {"never", "later", "past"}]
    BY <1>1 DEF StoreType
  <2>3. u.key \in [Elems -> EntryKeys \cup {None}]
    BY <1>3, <2>2
  <2>4. u.size \in [Elems -> Nat] /\ u.expires \in [EntryKeys -> {"never", "later", "past"}]
    BY <1>1, <1>3, <2>2
  <2> QED
    BY <1>1, <1>3, <2>1, <2>3, <2>4 DEF StoreType
<1>5. PICK v : v = Linked(u, e, u.prev[Root])
  OBVIOUS
<1>6. /\ v \in StoreType /\ v = [u EXCEPT !.next = v.next, !.prev = v.prev]
      /\ \E q : Circle(v.next, v.prev, s.own \cup {e}, s.len + 1, q)
  <2>1. PICK o : Circle(s.next, s.prev, s.own, s.len, o)
    BY DEF StoreFits
  <2>2. PICK A, top : A = s.own /\ top = s.len
    OBVIOUS
  <2>3. A \subseteq Elems /\ e \notin A /\ Circle(u.next, u.prev, A, top, o)
    BY <1>1, <1>3, <2>1, <2>2
  <2>4. AtBack(u, A, top, e, v)
    BY <1>4, <1>5, <2>3, LinkedTied
  <2> QED
    BY <2>2, <2>4 DEF AtBack
<1>7. /\ v.own = s.own /\ v.len = s.len /\ v.items = s.items /\ v.key = u.key /\ v.size = u.size /\ v.expires = u.expires
      /\ v.used = s.used
  BY <1>3, <1>4, <1>6 DEF StoreType
<1>8. PICK w : w = [v EXCEPT !.own = @ \cup {e}, !.len = @ + 1]
  OBVIOUS
<1>9. w = PushBack(u, e)
  BY <1>5, <1>8 DEF PushBack
<1>10. PICK r : r = [w EXCEPT !.items[k] = e, !.used = @ + n]
  OBVIOUS
<1>11. r = SetFirst(s, k, n, x, e)
  BY <1>2, <1>9, <1>10 DEF SetFirst
<1>12. /\ r.next = v.next /\ r.prev = v.prev /\ r.own = s.own \cup {e} /\ r.len = s.len + 1 /\ r.key = u.key /\ r.size = u.size
       /\ r.expires = u.expires /\ r.items = [s.items EXCEPT ![k] = e] /\ r.used = s.used + n
       /\ r = [next |-> r.next, prev |-> r.prev, own |-> r.own, len |-> r.len, items |-> r.items, key |-> r.key,
               size |-> r.size, expires |-> r.expires, used |-> r.used]
  <2>1. /\ w.next = v.next /\ w.prev = v.prev /\ w.own = v.own \cup {e} /\ w.len = v.len + 1 /\ w.key = v.key
        /\ w.size = v.size /\ w.expires = v.expires /\ w.items = v.items /\ w.used = v.used
        /\ w = [next |-> w.next, prev |-> w.prev, own |-> w.own, len |-> w.len, items |-> w.items, key |-> w.key,
                size |-> w.size, expires |-> w.expires, used |-> w.used]
    BY <1>6, <1>8 DEF StoreType
  <2>2. /\ r.next = w.next /\ r.prev = w.prev /\ r.own = w.own /\ r.len = w.len /\ r.key = w.key
        /\ r.size = w.size /\ r.expires = w.expires /\ r.items = [w.items EXCEPT ![k] = e] /\ r.used = w.used + n
        /\ r = [next |-> r.next, prev |-> r.prev, own |-> r.own, len |-> r.len, items |-> r.items, key |-> r.key,
                size |-> r.size, expires |-> r.expires, used |-> r.used]
    BY <1>10, <2>1
  <2> QED
    BY <1>7, <2>1, <2>2
<1>13. r \in StoreType
  <2>1. /\ v.next \in [Nodes -> Nodes \cup {None}] /\ v.prev \in [Nodes -> Nodes \cup {None}]
        /\ u.key \in [Elems -> EntryKeys \cup {None}] /\ u.size \in [Elems -> Nat]
        /\ u.expires \in [EntryKeys -> {"never", "later", "past"}]
        /\ s.items \in [EntryKeys -> Elems \cup {None}] /\ s.used \in Int
    BY <1>1, <1>4, <1>6 DEF StoreType
  <2>2. r.items \in [EntryKeys -> Elems \cup {None}]
    BY <1>12, <2>1
  <2>3. r.used \in Int /\ r.len \in Nat
    <3>1. s.used + n \in Int /\ s.len + 1 \in Nat
      BY <1>1, <2>1
    <3> QED
      BY <1>12, <3>1
  <2>4. r.own \in SUBSET Elems
    BY <1>1, <1>12
  <2> QED
    BY <1>12, <2>1, <2>2, <2>3, <2>4 DEF StoreType
<1>14. \E q : Circle(r.next, r.prev, r.own, r.len, q)
  BY <1>6, <1>12
<1>15. ItemsFit(r.items, r.key, r.own, r.expires)
  <2>1. /\ s.own = {s.items[j] : j \in EntryKeys} \ {None}
        /\ \A j \in EntryKeys : s.items[j] # None => s.key[s.items[j]] = j
        /\ \A j \in EntryKeys : s.expires[j] # "never" => s.items[j] # None
    BY DEF StoreFits, ItemsFit
  <2>2. /\ s.items \in [EntryKeys -> Elems \cup {None}] /\ s.key \in [Elems -> EntryKeys \cup {None}]
        /\ s.expires \in [EntryKeys -> {"never", "later", "past"}]
    BY <1>1 DEF StoreType
  <2>3. PICK I, K, X : I = r.items /\ K = r.key /\ X = r.expires
    OBVIOUS
  <2>4. I[k] = e /\ (\A j \in EntryKeys : j # k => I[j] = s.items[j])
    BY <1>12, <2>2, <2>3
  <2>5. K[e] = k /\ (\A y \in Elems : y # e => K[y] = s.key[y])
    BY <1>3, <1>12, <2>2, <2>3
  <2>6. \A j \in EntryKeys : j # k => X[j] = s.expires[j]
    BY <1>3, <1>12, <2>2, <2>3
  <2>7. e # None /\ None \notin Elems
    BY CacheAssumption
  <2>8. s.own \cup {e} = {I[j] : j \in EntryKeys} \ {None}
    BY <2>1, <2>4, <2>7
  <2>9. \A j \in EntryKeys : I[j] # None => K[I[j]] = j
    <3>1. ASSUME NEW j \in EntryKeys, j # k, I[j] # None PROVE K[I[j]] = j
      <4>1. I[j] = s.items[j] /\ s.items[j] \in s.own /\ s.items[j] # e /\ s.items[j] \in Elems /\ s.key[s.items[j]] = j
        BY <1>1, <2>1, <2>4, <3>1
      <4> QED
        BY <2>5, <4>1
    <3> QED
      BY <2>4, <2>5, <3>1
  <2>10. \A j \in EntryKeys : X[j] # "never" => I[j] # None
    BY <2>1, <2>4, <2>6, <2>7
  <2> QED
    BY <1>12, <2>3, <2>8, <2>9, <2>10 DEF ItemsFit
<1>16. r.used = Bytes(r.size, r.own)
  <2>1. s.used = Bytes(s.size, s.own)
    BY DEF StoreFits
  <2>2. PICK z, A : z = s.size /\ A = s.own
    OBVIOUS
  <2>3. Bytes([z EXCEPT ![e] = n], A \cup {e}) = Bytes(z, A) + n
    <3>1. z \in [Elems -> Nat] /\ A \subseteq Elems /\ IsFiniteSet(A) /\ e \notin A
      BY <1>1, <2>2
    <3>2. Accounted(z, A, e, n)
      BY <3>1, BytesSet
    <3> QED
      BY <3>1, <3>2 DEF Accounted
  <2>4. PICK y, B : y = [z EXCEPT ![e] = n] /\ B = A \cup {e}
    OBVIOUS
  <2>5. r.size = y /\ r.own = B /\ Bytes(y, B) = Bytes(z, A) + n
    BY <1>3, <1>12, <2>2, <2>3, <2>4
  <2> QED
    BY <1>12, <2>1, <2>2, <2>5
<1>17. StoreFits(r)
  BY <1>13, <1>14, <1>15, <1>16 DEF StoreFits
<1> QED
  BY <1>11, <1>17
-----------------------------------------------------------------------------
\* The operations of the store.
LEMMA SetFits ==
  ASSUME NEW s, StoreFits(s), NEW k \in EntryKeys, NEW n \in Nat, NEW ttl \in BOOLEAN, NEW e \in Elems, e \notin s.own
  PROVE  StoreFits(SetWithExpiration(s, k, n, ttl, e))
<1>1. PICK x \in {"never", "later", "past"} : x = IF ttl THEN "later" ELSE "never"
  OBVIOUS
<1>2. CASE s.items[k] # None
  <2>1. SetWithExpiration(s, k, n, ttl, e) = MoveToBack(SetAgain(s, k, n, x), s.items[k])
    BY <1>1, <1>2 DEF SetWithExpiration, SetAgain
  <2>2. PICK t, f : t = SetAgain(s, k, n, x) /\ f = s.items[k]
    OBVIOUS
  <2>3. StoreFits(t)
    BY <1>2, <2>2, SetAgainFits
  <2>4. StoreFits(MoveToBack(t, f))
    BY <2>3, MoveFits
  <2> QED
    BY <2>1, <2>2, <2>4
<1>3. CASE s.items[k] = None
  <2>1. SetWithExpiration(s, k, n, ttl, e) = evict(SetFirst(s, k, n, x, e))
    BY <1>1, <1>3 DEF SetWithExpiration, SetFirst
  <2>2. PICK t : t = SetFirst(s, k, n, x, e)
    OBVIOUS
  <2>3. StoreFits(t)
    BY <1>3, <2>2, SetFirstFits
  <2>4. StoreFits(evict(t))
    BY <2>3, EvictFits
  <2> QED
    BY <2>1, <2>2, <2>4
<1> QED
  BY <1>2, <1>3

\* Delete, the second half of Get, and the passing of time.
LEMMA DeleteFits ==
  ASSUME NEW s, StoreFits(s), NEW k \in EntryKeys
  PROVE  StoreFits(Delete(s, k))
<1>1. CASE s.items[k] # None
  <2>1. PICK e : e = s.items[k]
    OBVIOUS
  <2>2. e \in s.own
    BY <1>1, <2>1, StoreFacts
  <2>3. StoreFits(removeElement(s, e))
    BY <2>2, RemoveFits
  <2> QED
    BY <1>1, <2>1, <2>3 DEF Delete
<1>2. CASE s.items[k] = None
  BY <1>2 DEF Delete
<1> QED
  BY <1>1, <1>2

LEMMA TouchFits ==
  ASSUME NEW s, StoreFits(s), NEW k, NEW e
  PROVE  StoreFits(Touch(s, k, e))
  BY MoveFits DEF Touch

LEMMA ExpireFits ==
  ASSUME NEW s, StoreFits(s), NEW k \in EntryKeys, s.expires[k] = "later"
  PROVE  StoreFits([s EXCEPT !.expires[k] = "past"])
<1>1. s \in StoreType
  BY StoreFacts
<1>2. PICK r : r = [s EXCEPT !.expires[k] = "past"]
  OBVIOUS
<1>3. /\ r.next = s.next /\ r.prev = s.prev /\ r.own = s.own /\ r.len = s.len /\ r.items = s.items /\ r.key = s.key
      /\ r.expires = [s.expires EXCEPT ![k] = "past"] /\ r.used = s.used /\ r.size = s.size /\ r \in StoreType
  BY <1>1, <1>2 DEF StoreType
<1>4. /\ s.own = {s.items[j] : j \in EntryKeys} \ {None}
      /\ \A j \in EntryKeys : s.items[j] # None => s.key[s.items[j]] = j
      /\ \A j \in EntryKeys : s.expires[j] # "never" => s.items[j] # None
  BY DEF StoreFits, ItemsFit
<1>5. \A j \in EntryKeys : r.expires[j] # "never" => r.items[j] # None
  <2>1. s.expires \in [EntryKeys -> {"never", "later", "past"}]
    BY <1>1 DEF StoreType
  <2>2. \A j \in EntryKeys : j # k => r.expires[j] = s.expires[j]
    BY <1>3, <2>1
  <2> QED
    BY <1>3, <1>4, <2>2
<1>6. ItemsFit(r.items, r.key, r.own, r.expires)
  BY <1>3, <1>4, <1>5 DEF ItemsFit
<1>7. StoreFits(r)
  BY <1>3, <1>6 DEF StoreFits
<1> QED
  BY <1>2, <1>7

\* What only the owned elements and the root determine.
LEMMA CircleOn ==
  ASSUME NEW nx, NEW pv, NEW A, Root \notin A, NEW n, NEW o, Circle(nx, pv, A, n, o),
         NEW N, NEW P, \A x \in A \cup {Root} : N[x] = nx[x] /\ P[x] = pv[x]
  PROVE  Circle(N, P, A, n, o)
<1>1. Round(nx, pv, A, n, o)
  BY CircleFacts
<1>2. n \in Nat /\ \A j \in 0 .. n + 1 : o[j] \in A \cup {Root}
  BY <1>1 DEF Round
<1>3. \A j \in 0 .. n : j \in 0 .. n + 1 /\ j + 1 \in 0 .. n + 1
  BY <1>2
<1>4. \A j \in 0 .. n : N[o[j]] = o[j + 1] /\ P[o[j + 1]] = o[j]
  BY <1>2, <1>3 DEF Circle
<1> QED
  BY <1>4 DEF Circle

\* The empty list.
LEMMA CircleEmpty ==
  ASSUME NEW nx, NEW pv, nx[Root] = Root, pv[Root] = Root
  PROVE  \E o : Circle(nx, pv, {}, 0, o)
<1> DEFINE o == [j \in 0 .. 1 |-> Root]
<1>1. o[0] = Root /\ o[1] = Root /\ 0 + 1 = 1 /\ \A j \in 0 .. 0 : j = 0
  OBVIOUS
<1> HIDE DEF o
<1>2. Circle(nx, pv, {}, 0, o)
  BY <1>1 DEF Circle
<1> QED
  BY <1>2

LEMMA EmptyFits ==
  ASSUME NEW s \in StoreType, s.own = {}, s.len = 0, s.next[Root] = Root, s.prev[Root] = Root, s.used = 0,
         \A k \in EntryKeys : s.items[k] = None /\ s.expires[k] = "never"
  PROVE  StoreFits(s)
<1>1. \E o : Circle(s.next, s.prev, s.own, s.len, o)
  <2>1. PICK nx, pv : nx = s.next /\ pv = s.prev
    OBVIOUS
  <2>2. \E o : Circle(nx, pv, {}, 0, o)
    BY <2>1, CircleEmpty
  <2> QED
    BY <2>1, <2>2
<1>2. ItemsFit(s.items, s.key, s.own, s.expires)
  BY DEF ItemsFit
<1>3. Bytes(s.size, {}) = 0
  <2>1. PICK z : z = s.size
    OBVIOUS
  <2>2. Bytes(z, {}) = 0
    BY FS_EmptySet, BytesOne
  <2> QED
    BY <2>1, <2>2
<1> QED
  BY <1>1, <1>2, <1>3 DEF StoreFits

\* newLRUCache.
LEMMA NewStoreFits == StoreFits(NewStore)
<1>1. PICK s : s = NewStore
  OBVIOUS
<1>2. Root \in Nodes /\ \A e \in Nodes : e = Root => Root \in Nodes
  BY DEF Nodes
<1>3. s \in StoreType
  BY <1>1, <1>2 DEF NewStore, StoreType
<1>4. /\ s.own = {} /\ s.len = 0 /\ s.next[Root] = Root /\ s.prev[Root] = Root /\ s.used = 0
      /\ \A k \in EntryKeys : s.items[k] = None /\ s.expires[k] = "never"
  BY <1>1, <1>2 DEF NewStore
<1>5. StoreFits(s)
  BY <1>3, <1>4, EmptyFits
<1> QED
  BY <1>1, <1>5

\* What the garbage collector leaves of a store.
CollectedAs(s, held, own, r) ==
  /\ r.next = [e \in Nodes |-> IF e = Root \/ e \in own THEN s.next[e] ELSE None]
  /\ r.prev = [e \in Nodes |-> IF e = Root \/ e \in own THEN s.prev[e] ELSE None]
  /\ r.key = [e \in Elems |-> IF e \in own \cup held THEN s.key[e] ELSE None]
  /\ r.size = [e \in Elems |-> IF e \in own \cup held THEN s.size[e] ELSE 0]
  /\ r.own = own /\ r.len = s.len /\ r.items = s.items /\ r.expires = s.expires /\ r.used = s.used /\ r \in StoreType

LEMMA CollectedIs ==
  ASSUME NEW s \in StoreType, NEW held, NEW own, own \subseteq s.own,
         own = IF s.len = 0 /\ held \cap s.own = {} THEN {} ELSE s.own
  PROVE  CollectedAs(s, held, own, Collected(s, held))
<1>1. PICK r : r = Collected(s, held)
  OBVIOUS
<1>2. r = [s EXCEPT !.own = own,
               !.next = [e \in Nodes |-> IF e = Root \/ e \in own THEN s.next[e] ELSE None],
               !.prev = [e \in Nodes |-> IF e = Root \/ e \in own THEN s.prev[e] ELSE None],
               !.key = [e \in Elems |-> IF e \in own \cup held THEN s.key[e] ELSE None],
               !.size = [e \in Elems |-> IF e \in own \cup held THEN s.size[e] ELSE 0]]
  BY <1>1, Zenon DEF Collected
<1>3. /\ r.next = [e \in Nodes |-> IF e = Root \/ e \in own THEN s.next[e] ELSE None]
      /\ r.prev = [e \in Nodes |-> IF e = Root \/ e \in own THEN s.prev[e] ELSE None]
      /\ r.key = [e \in Elems |-> IF e \in own \cup held THEN s.key[e] ELSE None]
      /\ r.size = [e \in Elems |-> IF e \in own \cup held THEN s.size[e] ELSE 0]
      /\ r.own = own /\ r.len = s.len /\ r.items = s.items /\ r.expires = s.expires /\ r.used = s.used
      /\ r = [next |-> r.next, prev |-> r.prev, own |-> r.own, len |-> r.len, items |-> r.items, key |-> r.key,
              size |-> r.size, expires |-> r.expires, used |-> r.used]
  BY <1>2 DEF StoreType
<1>4. r.next \in [Nodes -> Nodes \cup {None}] /\ r.prev \in [Nodes -> Nodes \cup {None}]
  <2>1. s.next \in [Nodes -> Nodes \cup {None}] /\ s.prev \in [Nodes -> Nodes \cup {None}]
    BY DEF StoreType
  <2> QED
    BY <1>3, <2>1
<1>5. r.key \in [Elems -> EntryKeys \cup {None}] /\ r.size \in [Elems -> Nat]
  <2>1. s.key \in [Elems -> EntryKeys \cup {None}] /\ s.size \in [Elems -> Nat]
    BY DEF StoreType
  <2> QED
    BY <1>3, <2>1
<1>6. r \in StoreType
  BY <1>3, <1>4, <1>5 DEF StoreType
<1> QED
  BY <1>1, <1>3, <1>6 DEF CollectedAs

\* The garbage collector takes nothing that the list, the map or the account needs.
LEMMA CollectedFits ==
  ASSUME NEW s, StoreFits(s), NEW held
  PROVE  StoreFits(Collected(s, held))
<1>1. /\ s \in StoreType /\ s.own \subseteq Elems /\ Root \notin s.own /\ IsFiniteSet(s.own) /\ s.size \in [Elems -> Nat]
      /\ \A k \in EntryKeys : s.items[k] # None => s.items[k] \in s.own /\ s.key[s.items[k]] = k
  BY StoreFacts
<1>2. PICK o : Circle(s.next, s.prev, s.own, s.len, o)
  BY DEF StoreFits
<1>3. s.len = 0 => s.own = {}
  <2>1. PICK nx, pv, A, n : nx = s.next /\ pv = s.prev /\ A = s.own /\ n = s.len
    OBVIOUS
  <2>2. Circle(nx, pv, A, n, o)
    BY <1>2, <2>1
  <2>3. IsFiniteSet(A) /\ Cardinality(A) = n
    BY <2>2, CircleSize
  <2>4. Cardinality(A) = 0 => A = {}
    BY <2>3, FS_EmptySet
  <2> QED
    BY <2>1, <2>3, <2>4
<1>4. PICK own : own = s.own
  OBVIOUS
<1>5. own \subseteq s.own /\ own = IF s.len = 0 /\ held \cap s.own = {} THEN {} ELSE s.own
  BY <1>3, <1>4
<1>6. PICK r : r = Collected(s, held)
  OBVIOUS
<1>7. CollectedAs(s, held, own, r)
  BY <1>1, <1>5, <1>6, CollectedIs
<1>8. /\ r.next = [e \in Nodes |-> IF e = Root \/ e \in own THEN s.next[e] ELSE None]
      /\ r.prev = [e \in Nodes |-> IF e = Root \/ e \in own THEN s.prev[e] ELSE None]
      /\ r.key = [e \in Elems |-> IF e \in own \cup held THEN s.key[e] ELSE None]
      /\ r.size = [e \in Elems |-> IF e \in own \cup held THEN s.size[e] ELSE 0]
      /\ r.own = own /\ r.len = s.len /\ r.items = s.items /\ r.expires = s.expires /\ r.used = s.used /\ r \in StoreType
  BY <1>7 DEF CollectedAs
<1>9. \E q : Circle(r.next, r.prev, r.own, r.len, q)
  <2>1. PICK nx, pv, A, n, N, P : nx = s.next /\ pv = s.prev /\ A = s.own /\ n = s.len /\ N = r.next /\ P = r.prev
    OBVIOUS
  <2>2. \A x \in A \cup {Root} : x \in Nodes
    BY <1>1, <2>1 DEF Nodes
  <2>3. \A x \in A \cup {Root} : N[x] = nx[x] /\ P[x] = pv[x]
    BY <1>4, <1>8, <2>1, <2>2
  <2>4. Circle(nx, pv, A, n, o) /\ Root \notin A
    BY <1>1, <1>2, <2>1
  <2>5. Circle(N, P, A, n, o)
    BY <2>3, <2>4, CircleOn
  <2> QED
    BY <1>4, <1>8, <2>1, <2>5
<1>10. ItemsFit(r.items, r.key, r.own, r.expires)
  <2>1. /\ s.own = {s.items[j] : j \in EntryKeys} \ {None}
        /\ \A j \in EntryKeys : s.expires[j] # "never" => s.items[j] # None
    BY DEF StoreFits, ItemsFit
  <2>2. \A j \in EntryKeys : s.items[j] # None => r.key[s.items[j]] = j
    BY <1>1, <1>4, <1>8
  <2> QED
    BY <1>4, <1>8, <2>1, <2>2 DEF ItemsFit
<1>11. r.used = Bytes(r.size, r.own)
  <2>1. PICK z, y, A : z = s.size /\ y = r.size /\ A = s.own
    OBVIOUS
  <2>2. \A x \in A : z[x] = y[x]
    BY <1>1, <1>4, <1>8, <2>1
  <2>3. IsFiniteSet(A)
    BY <1>1, <2>1
  <2>4. Bytes(z, A) = Bytes(y, A)
    BY <2>2, <2>3, BytesSame
  <2>5. s.used = Bytes(z, A)
    BY <2>1 DEF StoreFits
  <2> QED
    BY <1>4, <1>8, <2>1, <2>4, <2>5
<1>12. StoreFits(r)
  BY <1>8, <1>9, <1>10, <1>11 DEF StoreFits
<1> QED
  BY <1>6, <1>12

\* Clear (lru.go:147-163), when nobody holds an element.
LEMMA ClearFits ==
  ASSUME NEW s \in StoreType
  PROVE  StoreFits(Collected(Clear(s), {}))
<1>1. PICK i : i = ListInit(s)
  OBVIOUS
<1>2. /\ i.next = [s.next EXCEPT ![Root] = Root] /\ i.prev = [s.prev EXCEPT ![Root] = Root] /\ i.len = 0 /\ i.own = s.own
      /\ i.key = s.key /\ i.size = s.size
      /\ i = [next |-> i.next, prev |-> i.prev, own |-> i.own, len |-> i.len, items |-> i.items, key |-> i.key,
              size |-> i.size, expires |-> i.expires, used |-> i.used]
  BY <1>1 DEF ListInit, StoreType
<1>3. PICK t : t = Clear(s)
  OBVIOUS
<1>4. /\ t.next = i.next /\ t.prev = i.prev /\ t.len = i.len /\ t.own = i.own /\ t.key = i.key /\ t.size = i.size
      /\ t.items = [k \in EntryKeys |-> None] /\ t.expires = [k \in EntryKeys |-> "never"] /\ t.used = 0
      /\ t = [next |-> t.next, prev |-> t.prev, own |-> t.own, len |-> t.len, items |-> t.items, key |-> t.key,
              size |-> t.size, expires |-> t.expires, used |-> t.used]
  BY <1>1, <1>2, <1>3 DEF Clear
<1>5. /\ s.next \in [Nodes -> Nodes \cup {None}] /\ s.prev \in [Nodes -> Nodes \cup {None}] /\ Root \in Nodes
      /\ s.own \in SUBSET Elems /\ s.key \in [Elems -> EntryKeys \cup {None}] /\ s.size \in [Elems -> Nat]
  BY DEF StoreType, Nodes
<1>6. t.next \in [Nodes -> Nodes \cup {None}] /\ t.prev \in [Nodes -> Nodes \cup {None}] /\ t.next[Root] = Root /\ t.prev[Root] = Root
  BY <1>2, <1>4, <1>5
<1>7. t.items \in [EntryKeys -> Elems \cup {None}] /\ t.expires \in [EntryKeys -> {"never", "later", "past"}]
  BY <1>4
<1>8. t \in StoreType /\ t.len = 0
  BY <1>2, <1>4, <1>5, <1>6, <1>7 DEF StoreType
<1>9. PICK r, held, own : r = Collected(t, held) /\ held = {} /\ own = {}
  OBVIOUS
<1>10. CollectedAs(t, held, own, r)
  <2>1. own \subseteq t.own /\ own = IF t.len = 0 /\ held \cap t.own = {} THEN {} ELSE t.own
    BY <1>8, <1>9
  <2> QED
    BY <1>8, <1>9, <2>1, CollectedIs
<1>11. /\ r \in StoreType /\ r.own = {} /\ r.len = 0 /\ r.next[Root] = Root /\ r.prev[Root] = Root /\ r.used = 0
       /\ \A k \in EntryKeys : r.items[k] = None /\ r.expires[k] = "never"
  BY <1>4, <1>5, <1>6, <1>8, <1>9, <1>10 DEF CollectedAs
<1>12. StoreFits(r)
  BY <1>11, EmptyFits
<1> QED
  BY <1>3, <1>9, <1>12

\* There is memory for one more element.
LEMMA FreeIs ==
  ASSUME NEW s, StoreFits(s), NEW H, IsFiniteSet(H), Cardinality(H) < Cardinality(Procs)
  PROVE  Free(s, H) \in Elems /\ Free(s, H) \notin s.own
<1>1. PICK A : A = s.own
  OBVIOUS
<1>2. IsFiniteSet(A) /\ \A e \in A : s.key[e] \in EntryKeys /\ s.items[s.key[e]] = e
  BY <1>1, StoreFacts
<1>3. Cardinality(A) <= Cardinality(EntryKeys)
  <2> DEFINE f == [e \in A |-> s.key[e]]
  <2>1. f \in [A -> EntryKeys] /\ \A x, y \in A : f[x] = f[y] => x = y
    BY <1>2
  <2> HIDE DEF f
  <2>2. f \in Injection(A, EntryKeys)
    BY <2>1 DEF Injection, IsInjective
  <2> QED
    BY <2>2, FS_Injection, CacheAssumption
<1>4. PICK W : W = A \cup H
  OBVIOUS
<1>5. IsFiniteSet(W) /\ Cardinality(W) <= Cardinality(A) + Cardinality(H)
  <2>1. IsFiniteSet(A \cup H) /\ Cardinality(A \cup H) = Cardinality(A) + Cardinality(H) - Cardinality(A \cap H)
    BY <1>2, FS_Union
  <2>2. Cardinality(A \cap H) \in Nat
    <3>1. A \cap H \in SUBSET A
      OBVIOUS
    <3>2. IsFiniteSet(A \cap H)
      BY <1>2, <3>1, FS_Subset
    <3> QED
      BY <3>2, FS_CardinalityType
  <2>3. Cardinality(A) \in Nat /\ Cardinality(H) \in Nat
    BY <1>2, FS_CardinalityType
  <2> QED
    BY <1>4, <2>1, <2>2, <2>3
<1>6. Cardinality(W) < Cardinality(Elems)
  <2>1. /\ Cardinality(A) \in Nat /\ Cardinality(H) \in Nat /\ Cardinality(W) \in Nat
        /\ Cardinality(EntryKeys) \in Nat /\ Cardinality(Procs) \in Nat /\ Cardinality(Elems) \in Nat
    BY <1>2, <1>5, FS_CardinalityType, CacheAssumption
  <2>2. Cardinality(Elems) >= Cardinality(EntryKeys) + Cardinality(Procs)
    BY CacheAssumption
  <2> QED
    BY <1>3, <1>5, <2>1, <2>2
<1>7. \E e \in Elems : e \notin W
  <2>1. ASSUME Elems \subseteq W PROVE FALSE
    <3>1. Cardinality(Elems) <= Cardinality(W)
      BY <1>5, <2>1, FS_Subset
    <3>2. Cardinality(W) \in Nat /\ Cardinality(Elems) \in Nat
      BY <1>5, FS_CardinalityType, CacheAssumption
    <3> QED
      BY <1>6, <3>1, <3>2
  <2> QED
    BY <2>1
<1>8. Free(s, H) \in Elems /\ Free(s, H) \notin W
  BY <1>1, <1>4, <1>7 DEF Free
<1> QED
  BY <1>1, <1>4, <1>8
-----------------------------------------------------------------------------
\* What a goroutine is doing: all but Clear is done with a key.
Doing ==
  {Idle} \cup [at : {"ensure", "create", "set", "get", "delete"}, key : EntryKeys]
  \cup [at : {"clear"}, key : EntryKeys \cup {None}] \cup [at : {"touch"}, key : EntryKeys, elem : Elems]

\* A goroutine between the two halves of a Get still has a store.
KeepInv ==
  /\ pc \in [Procs -> Doing] /\ deletes \in Seq(EntryKeys)
  /\ store # None \/ Readers # {} => StoreFits(store)

LEMMA DoingIs ==
  ASSUME NEW d \in Doing
  PROVE  /\ d.at \in {"ensure", "create", "set", "get", "delete"} => d.key \in EntryKeys
         /\ d.at = "touch" => d.key \in EntryKeys /\ d.elem \in Elems
         /\ d.at = "ensure" => \A at \in {"create", "set"} : [d EXCEPT !.at = at] \in Doing
         /\ d.at = "create" => [d EXCEPT !.at = "set"] \in Doing
<1>1. CASE d = Idle
  BY <1>1 DEF Idle
<1>2. CASE d \in [at : {"ensure", "create", "set", "get", "delete"}, key : EntryKeys]
  BY <1>2 DEF Doing
<1>3. CASE d \in [at : {"clear"}, key : EntryKeys \cup {None}]
  BY <1>3
<1>4. CASE d \in [at : {"touch"}, key : EntryKeys, elem : Elems]
  BY <1>4
<1> QED
  BY <1>1, <1>2, <1>3, <1>4 DEF Doing

\* A step of p that leaves the store to readers who already had it, or to none.
LEMMA GoneTo ==
  ASSUME KeepInv, NEW p \in Procs, NEW to \in Doing, Goto(p, to)
  PROVE  pc' \in [Procs -> Doing] /\ (to.at # "touch" => Readers' \subseteq Readers) /\ Readers' \subseteq Readers \cup {p}
<1>1. pc \in [Procs -> Doing]
  BY DEF KeepInv
<1>2. pc' \in [Procs -> Doing] /\ pc'[p] = to /\ \A q \in Procs : q # p => pc'[q] = pc[q]
  BY <1>1 DEF Goto
<1>3. \A q \in Readers' : q \in Procs /\ pc'[q].at = "touch"
  BY DEF Readers
<1>4. \A q \in Readers' : q = p \/ q \in Readers
  BY <1>2, <1>3 DEF Readers
<1>5. to.at # "touch" => p \notin Readers'
  BY <1>2, <1>3
<1> QED
  BY <1>2, <1>4, <1>5

\* What is in the hands of the others.
LEMMA HeldIs ==
  ASSUME NEW p \in Procs
  PROVE  IsFiniteSet(Held(p)) /\ Cardinality(Held(p)) < Cardinality(Procs)
<1>1. PICK B : B = Readers \ {p}
  OBVIOUS
<1>2. B \subseteq Procs \ {p} /\ Held(p) = {pc[q].elem : q \in B}
  BY <1>1 DEF Readers, Held
<1>3. /\ IsFiniteSet(Procs \ {p}) /\ Cardinality(Procs \ {p}) = Cardinality(Procs) - 1 /\ Cardinality(Procs) \in Nat
  BY FS_RemoveElement, FS_CardinalityType, CacheAssumption
<1>4. IsFiniteSet(B) /\ Cardinality(B) <= Cardinality(Procs \ {p})
  BY <1>2, <1>3, FS_Subset
<1> DEFINE f == [q \in B |-> pc[q].elem]
<1>5. f \in [B -> Held(p)] /\ \A e \in Held(p) : \E q \in B : f[q] = e
  BY <1>2
<1> HIDE DEF f
<1>6. f \in Surjection(B, Held(p))
  BY <1>5 DEF Surjection
<1>7. IsFiniteSet(Held(p)) /\ Cardinality(Held(p)) <= Cardinality(B)
  BY <1>4, <1>6, FS_Surjection
<1>8. Cardinality(B) \in Nat /\ Cardinality(Held(p)) \in Nat
  BY <1>4, <1>7, FS_CardinalityType
<1> QED
  BY <1>3, <1>4, <1>7, <1>8

\* No step of a goroutine (cache.go:57-186) breaks the store.
LEMMA KeepCall ==
  ASSUME KeepInv, NEW p \in Procs, Call(p)
  PROVE  KeepInv'
<1>1. /\ pc \in [Procs -> Doing] /\ deletes \in Seq(EntryKeys) /\ (store # None \/ Readers # {} => StoreFits(store))
      /\ pc[p] \in Doing
  BY DEF KeepInv
<1>2. Idle \in Doing /\ Idle.at = "idle"
  BY DEF Doing, Idle
<1>3. ASSUME NEW to \in Doing, to.at # "touch", Goto(p, to), deletes' = deletes, store' = store \/ StoreFits(store')
      PROVE KeepInv'
  <2>1. pc' \in [Procs -> Doing] /\ Readers' \subseteq Readers
    BY <1>3, GoneTo
  <2>2. store' # None \/ Readers' # {} => StoreFits(store')
    <3>1. CASE StoreFits(store')
      BY <3>1
    <3>2. CASE store' = store
      <4>1. store' # None \/ Readers' # {} => store # None \/ Readers # {}
        BY <2>1, <3>2
      <4> QED
        BY <1>1, <3>2, <4>1
    <3> QED
      BY <1>3, <3>1, <3>2
  <2> QED
    BY <1>1, <1>3, <2>1, <2>2 DEF KeepInv
<1>4. CASE \E call \in Calls[p] : Begin(p, call)
  <2>1. PICK call \in Calls[p] : Begin(p, call)
    BY <1>4
  <2>2. call \in [at : {"ensure", "get", "delete", "clear"}, key : EntryKeys \cup {None}] /\ (call.at # "clear" => call.key \in EntryKeys)
    BY CacheAssumption
  <2>3. call \in Doing /\ call.at # "touch"
    <3>1. CASE call.at = "clear"
      <4>1. call \in [at : {"clear"}, key : EntryKeys \cup {None}]
        BY <2>2, <3>1
      <4> QED
        BY <3>1, <4>1 DEF Doing
    <3>2. CASE call.at # "clear"
      <4>1. call \in [at : {"ensure", "create", "set", "get", "delete"}, key : EntryKeys]
        BY <2>2, <3>2
      <4> QED
        BY <4>1 DEF Doing
    <3> QED
      BY <3>1, <3>2
  <2>4. Goto(p, call) /\ deletes' = deletes /\ store' = store
    BY <2>1 DEF Begin, cacheVars
  <2> QED
    BY <1>3, <2>3, <2>4
<1>5. CASE Ensure(p)
  <2>1. PICK at \in {"create", "set"} : at = IF initialized THEN "set" ELSE "create"
    OBVIOUS
  <2>2. pc[p].at = "ensure" /\ Goto(p, [pc[p] EXCEPT !.at = at]) /\ deletes' = deletes /\ store' = store
    BY <1>5, <2>1 DEF Ensure, At, cacheVars
  <2>3. PICK to : to = [pc[p] EXCEPT !.at = at]
    OBVIOUS
  <2>4. to \in Doing
    BY <1>1, <2>2, <2>3, DoingIs
  <2>5. to.at # "touch"
    <3>1. pc[p] \in [at : {"ensure", "create", "set", "get", "delete"}, key : EntryKeys]
      BY <1>1, <2>2 DEF Doing, Idle
    <3> QED
      BY <2>3, <3>1
  <2> QED
    BY <1>3, <2>2, <2>3, <2>4, <2>5
<1>6. CASE Create(p)
  <2>1. pc[p].at = "create" /\ Goto(p, [pc[p] EXCEPT !.at = "set"]) /\ deletes' = deletes
        /\ store' = IF initialized THEN store ELSE NewStore
    BY <1>6 DEF Create, At, cacheVars
  <2>2. PICK to : to = [pc[p] EXCEPT !.at = "set"]
    OBVIOUS
  <2>3. to \in Doing
    BY <1>1, <2>1, <2>2, DoingIs
  <2>4. to.at # "touch"
    <3>1. pc[p] \in [at : {"ensure", "create", "set", "get", "delete"}, key : EntryKeys]
      BY <1>1, <2>1 DEF Doing, Idle
    <3> QED
      BY <2>2, <3>1
  <2>5. store' = store \/ StoreFits(store')
    BY <2>1, NewStoreFits
  <2> QED
    BY <1>3, <2>1, <2>2, <2>3, <2>4, <2>5
<1>7. CASE Set(p)
  <2>1. pc[p].at = "set" /\ Goto(p, Idle) /\ deletes' = deletes
    BY <1>7 DEF Set, At
  <2>2. store' = store \/ StoreFits(store')
    <3>1. CASE UNCHANGED store
      BY <3>1
    <3>2. CASE /\ store # None
               /\ \E n \in Sizes, ttl \in BOOLEAN : Put(p, SetWithExpiration(store, pc[p].key, n, ttl, Free(store, Held(p))))
      <4>1. PICK n \in Sizes, ttl \in BOOLEAN : Put(p, SetWithExpiration(store, pc[p].key, n, ttl, Free(store, Held(p))))
        BY <3>2
      <4>2. PICK s, k, H, e : s = store /\ k = pc[p].key /\ H = Held(p) /\ e = Free(s, H)
        OBVIOUS
      <4>3. StoreFits(s)
        BY <1>1, <3>2, <4>2
      <4>4. k \in EntryKeys /\ n \in Nat
        BY <1>1, <2>1, <4>2, DoingIs, CacheAssumption
      <4>5. IsFiniteSet(H) /\ Cardinality(H) < Cardinality(Procs)
        BY <4>2, HeldIs
      <4>6. e \in Elems /\ e \notin s.own
        BY <4>2, <4>3, <4>5, FreeIs
      <4>7. PICK t : t = SetWithExpiration(s, k, n, ttl, e)
        OBVIOUS
      <4>8. StoreFits(t)
        BY <4>3, <4>4, <4>6, <4>7, SetFits
      <4>9. StoreFits(Collected(t, H))
        BY <4>8, CollectedFits
      <4> QED
        BY <4>1, <4>2, <4>7, <4>9 DEF Put
    <3> QED
      BY <1>7, <3>1, <3>2 DEF Set
  <2> QED
    BY <1>2, <1>3, <2>1, <2>2
<1>8. CASE Look(p)
  <2>1. store # None /\ store' = store
    BY <1>8 DEF Look
  <2>2. PICK k : k = pc[p].key
    OBVIOUS
  <2>3. pc[p].at = "get" /\ k \in EntryKeys
    BY <1>1, <1>8, <2>2, DoingIs DEF Look, At
  <2>4. StoreFits(store)
    BY <1>1, <2>1
  <2>5. CASE store.items[k] = None /\ Goto(p, Idle) /\ UNCHANGED deletes
    BY <1>2, <1>3, <2>1, <2>5
  <2>6. CASE Goto(p, Idle) /\ deletes' = Append(deletes, k)
    <3>1. pc' \in [Procs -> Doing]
      BY <1>2, <2>6, GoneTo
    <3>2. deletes' \in Seq(EntryKeys)
      BY <1>1, <2>3, <2>6
    <3> QED
      BY <2>1, <2>4, <3>1, <3>2 DEF KeepInv
  <2>7. CASE store.items[k] # None /\ Goto(p, [at |-> "touch", key |-> k, elem |-> store.items[k]]) /\ UNCHANGED deletes
    <3>1. PICK to : to = [at |-> "touch", key |-> k, elem |-> store.items[k]]
      OBVIOUS
    <3>2. store.items[k] \in Elems
      <4>1. PICK s : s = store
        OBVIOUS
      <4>2. s.items[k] \in s.own /\ s.own \subseteq Elems
        BY <2>3, <2>4, <2>7, <4>1, StoreFacts
      <4> QED
        BY <4>1, <4>2
    <3>3. to \in Doing
      BY <2>3, <3>1, <3>2 DEF Doing
    <3>4. pc' \in [Procs -> Doing]
      BY <2>7, <3>1, <3>3, GoneTo
    <3> QED
      BY <1>1, <2>1, <2>4, <2>7, <3>4 DEF KeepInv
  <2> QED
    BY <1>8, <2>2, <2>5, <2>6, <2>7 DEF Look
<1>9. CASE Touched(p)
  <2>1. pc[p].at = "touch" /\ Put(p, Touch(store, pc[p].key, pc[p].elem)) /\ Goto(p, Idle) /\ deletes' = deletes
    BY <1>9 DEF Touched, At
  <2>2. PICK s, k, e, H : s = store /\ k = pc[p].key /\ e = pc[p].elem /\ H = Held(p)
    OBVIOUS
  <2>3. StoreFits(s)
    BY <1>1, <2>1, <2>2 DEF Readers
  <2>4. PICK t : t = Touch(s, k, e)
    OBVIOUS
  <2>5. StoreFits(t)
    BY <2>3, <2>4, TouchFits
  <2>6. StoreFits(Collected(t, H))
    BY <2>5, CollectedFits
  <2>7. StoreFits(store')
    BY <2>1, <2>2, <2>4, <2>6 DEF Put
  <2> QED
    BY <1>2, <1>3, <2>1, <2>7
<1>10. CASE DeleteKey(p)
  <2>1. pc[p].at = "delete" /\ store # None /\ Put(p, Delete(store, pc[p].key)) /\ Goto(p, Idle) /\ deletes' = deletes
    BY <1>10 DEF DeleteKey, At
  <2>2. PICK s, k, H : s = store /\ k = pc[p].key /\ H = Held(p)
    OBVIOUS
  <2>3. StoreFits(s) /\ k \in EntryKeys
    BY <1>1, <2>1, <2>2, DoingIs
  <2>4. PICK t : t = Delete(s, k)
    OBVIOUS
  <2>5. StoreFits(t)
    BY <2>3, <2>4, DeleteFits
  <2>6. StoreFits(Collected(t, H))
    BY <2>5, CollectedFits
  <2>7. StoreFits(store')
    BY <2>1, <2>2, <2>4, <2>6 DEF Put
  <2> QED
    BY <1>2, <1>3, <2>1, <2>7
<1>11. CASE ClearAll(p)
  <2>1. store # None /\ Readers = {} /\ Put(p, Clear(store)) /\ Goto(p, Idle) /\ deletes' = deletes
    BY <1>11 DEF ClearAll
  <2>2. Held(p) = {}
    BY <2>1 DEF Held
  <2>3. PICK s : s = store
    OBVIOUS
  <2>4. s \in StoreType
    BY <1>1, <2>1, <2>3, StoreFacts
  <2>5. StoreFits(Collected(Clear(s), {}))
    BY <2>4, ClearFits
  <2>6. StoreFits(store')
    BY <2>1, <2>2, <2>3, <2>5 DEF Put
  <2> QED
    BY <1>2, <1>3, <2>1, <2>6
<1>12. CASE NilStore(p)
  <2>1. Goto(p, Idle) /\ deletes' = deletes /\ store' = store
    BY <1>12 DEF NilStore, cacheVars
  <2> QED
    BY <1>2, <1>3, <2>1
<1> QED
  BY <1>4, <1>5, <1>6, <1>7, <1>8, <1>9, <1>10, <1>11, <1>12 DEF Call

\* Nor a late delete, the sweep, time or a Close.
LEMMA KeepInvStep == KeepInv /\ [CacheNext]_nodeVars => KeepInv'
<1> SUFFICES ASSUME KeepInv, [CacheNext]_nodeVars PROVE KeepInv'
  OBVIOUS
<1>1. pc \in [Procs -> Doing] /\ deletes \in Seq(EntryKeys) /\ (store # None \/ Readers # {} => StoreFits(store))
  BY DEF KeepInv
<1>2. ASSUME StoreFits(store'), pc' = pc, deletes' \in Seq(EntryKeys) PROVE KeepInv'
  BY <1>1, <1>2 DEF KeepInv
<1>3. CASE \E p \in Procs : Call(p)
  BY <1>3, KeepCall
<1>4. CASE \E i \in DOMAIN deletes : LateDelete(i)
  <2>1. PICK i \in DOMAIN deletes : LateDelete(i)
    BY <1>4
  <2>2. PICK L \in Nat : L = Len(deletes)
    BY <1>1
  <2>3. /\ i \in 1 .. L /\ DOMAIN deletes = 1 .. L /\ \A j \in 1 .. L : deletes[j] \in EntryKeys
    BY <1>1, <2>2
  <2>4. store # None /\ Put(None, Delete(store, deletes[i])) /\ pc' = pc
        /\ deletes' = [j \in 1 .. L - 1 |-> deletes[IF j < i THEN j ELSE j + 1]]
    BY <2>1, <2>2 DEF LateDelete
  <2>5. deletes' \in Seq(EntryKeys)
    <3>1. L - 1 \in Nat
      BY <2>3
    <3>2. \A j \in 1 .. L - 1 : deletes[IF j < i THEN j ELSE j + 1] \in EntryKeys
      <4>1. \A j \in 1 .. L - 1 : j \in 1 .. L /\ j + 1 \in 1 .. L
        OBVIOUS
      <4> QED
        BY <2>3, <4>1
    <3>3. deletes' \in [1 .. L - 1 -> EntryKeys]
      BY <2>4, <3>2
    <3> QED
      BY <3>1, <3>3
  <2>6. PICK s, k, H : s = store /\ k = deletes[i] /\ H = Held(None)
    OBVIOUS
  <2>7. StoreFits(s) /\ k \in EntryKeys
    BY <1>1, <2>3, <2>4, <2>6
  <2>8. PICK t : t = Delete(s, k)
    OBVIOUS
  <2>9. StoreFits(t)
    BY <2>7, <2>8, DeleteFits
  <2>10. StoreFits(Collected(t, H))
    BY <2>9, CollectedFits
  <2>11. StoreFits(store')
    BY <2>4, <2>6, <2>8, <2>10 DEF Put
  <2> QED
    BY <1>2, <2>4, <2>5, <2>11
<1>5. CASE \E k \in EntryKeys : Expire(k)
  <2>1. PICK k \in EntryKeys : Expire(k)
    BY <1>5
  <2>2. store # None /\ store.expires[k] = "later" /\ store' = [store EXCEPT !.expires[k] = "past"] /\ pc' = pc /\ deletes' = deletes
    BY <2>1 DEF Expire
  <2>3. PICK s : s = store
    OBVIOUS
  <2>4. StoreFits(s) /\ s.expires[k] = "later"
    BY <1>1, <2>2, <2>3
  <2>5. StoreFits([s EXCEPT !.expires[k] = "past"])
    BY <2>4, ExpireFits
  <2> QED
    BY <1>1, <1>2, <2>2, <2>3, <2>5
<1>6. CASE Sweep
  <2>1. store # None /\ Put(None, evict(store)) /\ pc' = pc /\ deletes' = deletes
    BY <1>6 DEF Sweep
  <2>2. PICK s, H : s = store /\ H = Held(None)
    OBVIOUS
  <2>3. PICK t : t = evict(s)
    OBVIOUS
  <2>4. StoreFits(s)
    BY <1>1, <2>1, <2>2
  <2>5. StoreFits(t)
    BY <2>3, <2>4, EvictFits
  <2>6. StoreFits(Collected(t, H))
    BY <2>5, CollectedFits
  <2>7. StoreFits(store')
    BY <2>1, <2>2, <2>3, <2>6 DEF Put
  <2> QED
    BY <1>1, <1>2, <2>1, <2>7
<1>7. CASE Close
  BY <1>1, <1>7 DEF Close, KeepInv, Readers
<1>8. CASE DropStore
  <2>1. store' = None /\ deletes' = <<>> /\ pc' = pc /\ Readers = {}
    BY <1>8 DEF DropStore
  <2>2. Readers' = Readers
    BY <2>1 DEF Readers
  <2>3. deletes' \in Seq(EntryKeys)
    BY <2>1
  <2> QED
    BY <1>1, <2>1, <2>2, <2>3 DEF KeepInv
<1>9. CASE UNCHANGED nodeVars
  <2>1. store' = store /\ deletes' = deletes /\ pc' = pc
    BY <1>9 DEF nodeVars, cacheVars
  <2> QED
    BY <1>1, <2>1 DEF KeepInv, Readers
<1> QED
  BY <1>3, <1>4, <1>5, <1>6, <1>7, <1>8, <1>9 DEF CacheNext

\* A list that is met in an order of the elements has them all.
Leads(f, A, n, o) ==
  /\ n \in Nat /\ o[0] = Root /\ o[n + 1] = Root
  /\ \A j \in 0 .. n : f[o[j]] = o[j + 1]
  /\ \A j \in 1 .. n : o[j] \in A
  /\ \A e \in A : \E j \in 1 .. n : o[j] = e
Meets(f, A) == Chain(f)[store.len + 1] = Root /\ {Chain(f)[j] : j \in 1 .. store.len} = A

LEMMA ChainMeets ==
  ASSUME NEW f, NEW A, NEW o, Leads(f, A, store.len, o)
  PROVE  Meets(f, A)
<1>0. PICK n \in Nat : n = store.len
  BY DEF Leads
<1>9. /\ o[0] = Root /\ o[n + 1] = Root
      /\ \A j \in 0 .. n : f[o[j]] = o[j + 1]
      /\ \A j \in 1 .. n : o[j] \in A
      /\ \A e \in A : \E j \in 1 .. n : o[j] = e
  BY <1>0 DEF Leads
<1>1. PICK c : c = CHOOSE d : ChainTable(f, n + 1, d)
  OBVIOUS
<1>2. Chain(f) = c
  BY <1>0, <1>1 DEF Chain, ChainTable
<1>3. \A j \in 0 .. n + 1 : c[j] = o[j]
  BY <1>9, <1>1, ChainFollows
<1>4. n + 1 \in 0 .. n + 1 /\ \A j \in 1 .. n : j \in 0 .. n + 1
  OBVIOUS
<1>5. c[n + 1] = Root /\ {c[j] : j \in 1 .. n} = A
  <2>1. c[n + 1] = o[n + 1] /\ \A j \in 1 .. n : c[j] = o[j]
    BY <1>3, <1>4
  <2>2. (\A j \in 1 .. n : c[j] \in A) /\ \A e \in A : \E j \in 1 .. n : c[j] = e
    BY <1>9, <2>1
  <2>3. PICK J : J = 1 .. n
    OBVIOUS
  <2>4. {c[j] : j \in J} = A
    BY <2>2, <2>3
  <2> QED
    BY <1>9, <2>1, <2>3, <2>4
<1>6. c[store.len + 1] = Root /\ {c[j] : j \in 1 .. store.len} = A
  BY <1>0, <1>5
<1> QED
  BY <1>2, <1>6, Zenon DEF Meets

\* The invariant says what ListAgrees says: the order of the list leads along next, and back along prev.
LEMMA KeepInvSound == KeepInv => ListAgrees
<1> SUFFICES ASSUME KeepInv, store # None PROVE ListAgrees
  BY DEF ListAgrees
<1> DEFINE live == {store.items[k] : k \in EntryKeys} \ {None}
<1>1. StoreFits(store)
  BY DEF KeepInv
<1>2. PICK o : Circle(store.next, store.prev, store.own, store.len, o)
  BY <1>1 DEF StoreFits
<1>3. /\ store.own = live
      /\ \A k \in EntryKeys : store.items[k] # None => store.key[store.items[k]] = k
      /\ \A k \in EntryKeys : store.expires[k] # "never" => store.items[k] # None
  BY <1>1 DEF StoreFits, ItemsFit
<1>4. PICK A, n, nx, pv : A = live /\ n = store.len /\ nx = store.next /\ pv = store.prev
  OBVIOUS
<1> HIDE DEF live
<1>5. Circle(nx, pv, A, n, o)
  BY <1>2, <1>3, <1>4
<1>6. store.len = Cardinality(live)
  <2>1. Cardinality(A) = n
    BY <1>5, CircleSize
  <2> QED
    BY <1>4, <2>1
<1>7. /\ n \in Nat /\ o[0] = Root /\ o[n + 1] = Root
      /\ \A j \in 1 .. n : o[j] \in A
      /\ \A e \in A : \E j \in 1 .. n : o[j] = e
      /\ \A j \in 0 .. n : nx[o[j]] = o[j + 1] /\ pv[o[j + 1]] = o[j]
  BY <1>5 DEF Circle
<1>8. Meets(nx, A)
  <2>1. Leads(nx, A, n, o)
    BY <1>7 DEF Leads
  <2> QED
    BY <1>4, <2>1, ChainMeets
<1>9. Meets(pv, A)
  <2> DEFINE q == [j \in 0 .. n + 1 |-> o[(n + 1) - j]]
  <2>1. 0 \in 0 .. n + 1 /\ n + 1 \in 0 .. n + 1 /\ (n + 1) - 0 = n + 1 /\ (n + 1) - (n + 1) = 0
    BY <1>7
  <2>2. q[0] = Root /\ q[n + 1] = Root
    BY <1>7, <2>1
  <2>3. ASSUME NEW j \in 0 .. n PROVE pv[q[j]] = q[j + 1]
    <3>1. j \in 0 .. n + 1 /\ j + 1 \in 0 .. n + 1 /\ n - j \in 0 .. n /\ (n - j) + 1 = (n + 1) - j /\ (n + 1) - (j + 1) = n - j
      BY <1>7
    <3>2. q[j] = o[(n + 1) - j] /\ q[j + 1] = o[(n + 1) - (j + 1)]
      BY <3>1
    <3>3. pv[o[(n - j) + 1]] = o[n - j]
      BY <1>7, <3>1
    <3> HIDE DEF q
    <3> QED
      BY <3>1, <3>2, <3>3
  <2>4. ASSUME NEW j \in 1 .. n PROVE q[j] \in A /\ q[(n + 1) - j] = o[j]
    <3>1. /\ j \in 0 .. n + 1 /\ (n + 1) - j \in 1 .. n /\ (n + 1) - j \in 0 .. n + 1
          /\ (n + 1) - ((n + 1) - j) = j
      BY <1>7
    <3>2. q[j] = o[(n + 1) - j] /\ q[(n + 1) - j] = o[(n + 1) - ((n + 1) - j)]
      BY <3>1
    <3> HIDE DEF q
    <3> QED
      BY <1>7, <3>1, <3>2
  <2> HIDE DEF q
  <2>5. \A e \in A : \E j \in 1 .. n : q[j] = e
    <3>1. \A j \in 1 .. n : (n + 1) - j \in 1 .. n
      BY <1>7
    <3> QED
      BY <1>7, <2>4, <3>1
  <2>6. (\A j \in 0 .. n : pv[q[j]] = q[j + 1]) /\ (\A j \in 1 .. n : q[j] \in A)
    BY <2>3, <2>4
  <2>7. Leads(pv, A, n, q)
    BY <1>7, <2>2, <2>5, <2>6 DEF Leads
  <2> QED
    BY <1>4, <2>7, ChainMeets
<1>10. \A f \in {store.next, store.prev} :
         LET c == Chain(f) IN c[store.len + 1] = Root /\ {c[j] : j \in 1 .. store.len} = live
  BY <1>4, <1>8, <1>9 DEF Meets
<1>11. store.used = MapThenSumSet(LAMBDA e : store.size[e], live)
  <2>1. store.used = Bytes(store.size, store.own)
    BY <1>1 DEF StoreFits
  <2>2. store.used = Bytes(store.size, live)
    BY <1>3, <2>1
  <2> QED
    BY <2>2 DEF Bytes
<1>12. ListAgrees
  BY <1>3, <1>6, <1>10, <1>11 DEF ListAgrees, live
<1> QED
  BY <1>12

LEMMA KeepInvInit == CacheInit => KeepInv
<1> SUFFICES ASSUME CacheInit PROVE KeepInv
  OBVIOUS
<1>1. pc \in [Procs -> Doing]
  BY DEF CacheInit, Doing
<1>2. Readers = {}
  BY DEF CacheInit, Readers, Idle
<1>3. deletes \in Seq(EntryKeys) /\ store = None
  BY DEF CacheInit
<1> QED
  BY <1>1, <1>2, <1>3 DEF KeepInv

\* The list, the map, the times and the account of bytes of the LRU store agree,
\* whatever the keys, the goroutines, their calls, the sizes and the limit of bytes:
\* no Clear comes between the two halves of a Get (lru.go:55-204, cache.go:114-118).
THEOREM ListAgreesAlways == CacheSpec => []ListAgrees
<1>1. CacheInit => KeepInv
  BY KeepInvInit
<1>2. KeepInv /\ [CacheNext]_nodeVars => KeepInv'
  BY KeepInvStep
<1>3. KeepInv => ListAgrees
  BY KeepInvSound
<1> QED
  BY <1>1, <1>2, <1>3, PTL DEF CacheSpec
=============================================================================
