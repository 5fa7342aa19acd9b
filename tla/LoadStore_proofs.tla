---------------------------- MODULE LoadStore_proofs ----------------------------
(***************************************************************************)
(* Proofs about how the caches load and store: duplicate suppression       *)
(* (SingleFlight, SingleFlightV2), for any number of callers and keys, and *)
(* the two-level store (Lru2Store), for any number of buckets and keys and *)
(* any capacity.                                                           *)
(***************************************************************************)
EXTENDS SingleFlightV2, Lru2Store, SequenceTheorems, NaturalsInduction, WellFoundedInduction, TLAPS

\* No invocation has entered: the invariant holds.
LEMMA InitIInv == FlightInit => IInv
  BY SingleFlightAssumption DEF FlightInit, IInv, FlightTypeOK, EntryOwned, References

\* Every step of Do preserves the invariant.
LEMMA NextIInv == IInv /\ [FlightNext]_flightVars => IInv'
<1> SUFFICES ASSUME IInv, [FlightNext]_flightVars PROVE IInv'
  OBVIOUS
<1> USE SingleFlightAssumption DEF IInv, FlightTypeOK, EntryOwned, References
<1>1. ASSUME NEW p \in Callers, Enter(p) PROVE IInv'
  BY <1>1 DEF Enter
<1>2. ASSUME NEW p \in Callers, NEW v \in Values, Execute(p, v) PROVE IInv'
  BY <1>2 DEF Execute
<1>3. ASSUME NEW p \in Callers, Panic(p) PROVE IInv'
  BY <1>3 DEF Panic
<1>4. ASSUME NEW p \in Callers, Leave(p) PROVE IInv'
  BY <1>4 DEF Leave
<1>5. ASSUME NEW p \in Callers, Wake(p) PROVE IInv'
  BY <1>5 DEF Wake
<1>6. CASE UNCHANGED flightVars
  BY <1>6 DEF flightVars
<1> QED
  BY <1>1, <1>2, <1>3, <1>4, <1>5, <1>6 DEF FlightNext, Step

\* The map and the invocations agree in every reachable state.
THEOREM MapConsistent == FlightSpec => []IInv
  BY InitIInv, NextIInv, PTL DEF FlightSpec

\* Only one execution of fn per key is ever in flight.
THEOREM OneInFlightAlways == FlightSpec => []OneInFlight
<1>1. IInv => OneInFlight
  BY DEF IInv, FlightTypeOK, OneInFlight
<1> QED
  BY <1>1, MapConsistent, PTL

\* The map never holds a finished call.
THEOREM EntryOwnedAlways == FlightSpec => []EntryOwned
<1>1. IInv => EntryOwned
  BY DEF IInv
<1> QED
  BY <1>1, MapConsistent, PTL

\* Every duplicate gets the result of a finished execution for its own key.
THEOREM SameResultAlways == FlightSpec => []SameResult
<1>1. IInv => SameResult
  BY DEF IInv, References, SameResult
<1> QED
  BY <1>1, MapConsistent, PTL
-----------------------------------------------------------------------------
\* Without the mutex executions overlap, but what is not about the map's owner remains.
LEMMA NextV2Inv ==
  (FlightTypeOK /\ EntryOwned /\ References) /\ [NextV2]_flightVars
     => (FlightTypeOK /\ EntryOwned /\ References)'
<1> SUFFICES ASSUME FlightTypeOK, EntryOwned, References, [NextV2]_flightVars
             PROVE  (FlightTypeOK /\ EntryOwned /\ References)'
  OBVIOUS
<1> USE SingleFlightAssumption DEF FlightTypeOK, EntryOwned, References
<1>1. ASSUME NEW p \in Callers, Load(p) PROVE (FlightTypeOK /\ EntryOwned /\ References)'
  BY <1>1 DEF Load
<1>2. ASSUME NEW p \in Callers, Store(p) PROVE (FlightTypeOK /\ EntryOwned /\ References)'
  BY <1>2 DEF Store
<1>3. ASSUME NEW p \in Callers, NEW v \in Values, Execute(p, v)
      PROVE  (FlightTypeOK /\ EntryOwned /\ References)'
  BY <1>3 DEF Execute
<1>4. ASSUME NEW p \in Callers, Panic(p) PROVE (FlightTypeOK /\ EntryOwned /\ References)'
  BY <1>4 DEF Panic
<1>5. ASSUME NEW p \in Callers, Leave(p) PROVE (FlightTypeOK /\ EntryOwned /\ References)'
  BY <1>5 DEF Leave
<1>6. ASSUME NEW p \in Callers, Wake(p) PROVE (FlightTypeOK /\ EntryOwned /\ References)'
  BY <1>6 DEF Wake
<1>7. CASE UNCHANGED flightVars
  BY <1>7 DEF flightVars
<1> QED
  BY <1>1, <1>2, <1>3, <1>4, <1>5, <1>6, <1>7 DEF NextV2, StepV2, Run, DeleteCall

\* Although Delete removes whatever call is under the key, the sync.Map never
\* keeps a finished call, and every caller of sonnet-cache-v2's Do that returns
\* has the result of a finished execution for its own key.
THEOREM V2ResultsSound == SpecV2 => [](EntryOwned /\ SameResult)
<1>1. FlightInit => FlightTypeOK /\ EntryOwned /\ References
  BY SingleFlightAssumption DEF FlightInit, FlightTypeOK, EntryOwned, References
<1>2. FlightTypeOK /\ EntryOwned /\ References => EntryOwned /\ SameResult
  BY DEF References, SameResult
<1> QED
  BY <1>1, <1>2, NextV2Inv, PTL DEF SpecV2
-----------------------------------------------------------------------------
\* Where the node at position j of a list was before the one at i moved to the front.
Came(i, j) == IF j = 1 THEN i ELSE IF 2 <= j /\ j <= i THEN j - 1 ELSE j

\* What the list operators of Lru2Ops do, position by position.
LEMMA FindAt ==
  ASSUME NEW l, NEW k, NEW i \in 1 .. Len(l), Len(l) \in Nat,
         l[i].k = k, \A j \in 1 .. Len(l) : l[j].k = k => j = i
  PROVE  Find(l, k) = i
<1> DEFINE I == {j \in 1 .. Len(l) : l[j].k = k}
<1>1. Find(l, k) = IF I # {} THEN Min(I) ELSE 0
  BY DEF Find, SelectInSeq
<1>2. I = {i}
  OBVIOUS
<1>3. Min({i}) = i
  BY DEF Min
<1> HIDE DEF I
<1> QED
  BY <1>1, <1>2, <1>3

LEMMA FindNone ==
  ASSUME NEW l, NEW k, \A j \in 1 .. Len(l) : l[j].k # k
  PROVE  Find(l, k) = 0
<1> DEFINE I == {j \in 1 .. Len(l) : l[j].k = k}
<1>1. Find(l, k) = IF I # {} THEN Min(I) ELSE 0
  BY DEF Find, SelectInSeq
<1>2. I = {}
  OBVIOUS
<1> HIDE DEF I
<1> QED
  BY <1>1, <1>2

LEMMA RemoveAtIs ==
  ASSUME NEW S, NEW l \in Seq(S), NEW i \in 1 .. Len(l)
  PROVE  /\ RemoveAt(l, i) \in Seq(S)
         /\ Len(RemoveAt(l, i)) = Len(l) - 1
         /\ \A j \in 1 .. Len(l) - 1 : RemoveAt(l, i)[j] = IF j < i THEN l[j] ELSE l[j + 1]
<1>0. Len(l) \in Nat /\ \A j \in 1 .. Len(l) : l[j] \in S
  BY LenProperties, ElementOfSeq
<1>1. PICK a : a = SubSeq(l, 1, i - 1)
  OBVIOUS
<1>2. PICK b : b = SubSeq(l, i + 1, Len(l))
  OBVIOUS
<1>3. a \in Seq(S) /\ Len(a) = i - 1 /\ \A j \in 1 .. i - 1 : a[j] = l[j]
  <2>1. \A j \in 1 .. i - 1 : l[j] \in S
    BY <1>0
  <2>2. /\ a \in Seq(S) /\ Len(a) = (IF 1 <= i - 1 THEN ((i - 1) - 1) + 1 ELSE 0)
        /\ \A j \in 1 .. ((i - 1) - 1) + 1 : a[j] = l[(1 + j) - 1]
    BY <1>0, <1>1, <2>1, SubSeqProperties
  <2> QED
    BY <1>0, <2>2
<1>4. b \in Seq(S) /\ Len(b) = Len(l) - i /\ \A j \in 1 .. Len(l) - i : b[j] = l[i + j]
  <2>1. \A j \in i + 1 .. Len(l) : l[j] \in S
    BY <1>0
  <2>2. /\ b \in Seq(S) /\ Len(b) = (IF i + 1 <= Len(l) THEN (Len(l) - (i + 1)) + 1 ELSE 0)
        /\ \A j \in 1 .. (Len(l) - (i + 1)) + 1 : b[j] = l[((i + 1) + j) - 1]
    <3>1. PICK c \in Int, n \in Int : c = i + 1 /\ n = Len(l)
      BY <1>0
    <3>2. \A j \in c .. n : l[j] \in S
      BY <2>1, <3>1
    <3>3. /\ SubSeq(l, c, n) \in Seq(S) /\ Len(SubSeq(l, c, n)) = (IF c <= n THEN (n - c) + 1 ELSE 0)
          /\ \A j \in 1 .. (n - c) + 1 : SubSeq(l, c, n)[j] = l[(c + j) - 1]
      BY <3>2, SubSeqProperties
    <3> QED
      BY <1>2, <3>1, <3>3
  <2>3. Len(b) = Len(l) - i
    BY <1>0, <2>2
  <2>4. ASSUME NEW j \in 1 .. Len(l) - i PROVE b[j] = l[i + j]
    <3>1. j \in 1 .. (Len(l) - (i + 1)) + 1 /\ ((i + 1) + j) - 1 = i + j
      BY <1>0
    <3> QED
      BY <2>2, <3>1
  <2> QED
    BY <2>2, <2>3, <2>4
<1>5. /\ a \o b \in Seq(S) /\ Len(a \o b) = Len(a) + Len(b)
      /\ \A j \in 1 .. Len(a) + Len(b) : (a \o b)[j] = IF j <= Len(a) THEN a[j] ELSE b[j - Len(a)]
  BY <1>3, <1>4, ConcatProperties
<1>6. RemoveAt(l, i) = a \o b
  BY <1>1, <1>2 DEF RemoveAt
<1>7. ASSUME NEW j \in 1 .. Len(l) - 1 PROVE (a \o b)[j] = IF j < i THEN l[j] ELSE l[j + 1]
  <2>1. j \in 1 .. Len(a) + Len(b)
    BY <1>0, <1>3, <1>4
  <2>2. CASE j < i
    BY <1>0, <1>3, <1>5, <2>1, <2>2
  <2>3. CASE ~(j < i)
    <3>1. j - (i - 1) \in 1 .. Len(l) - i /\ i + (j - (i - 1)) = j + 1 /\ ~(j <= i - 1)
      BY <1>0, <2>3
    <3>2. (a \o b)[j] = b[j - (i - 1)]
      BY <1>3, <1>5, <2>1, <3>1
    <3>3. b[j - (i - 1)] = l[j + 1]
      BY <1>4, <3>1
    <3> QED
      BY <2>3, <3>2, <3>3
  <2> QED
    BY <2>2, <2>3
<1>8. Len(a \o b) = Len(l) - 1
  BY <1>0, <1>3, <1>4, <1>5
<1> QED
  BY <1>5, <1>6, <1>7, <1>8

LEMMA ConsIs ==
  ASSUME NEW S, NEW l \in Seq(S), NEW x \in S
  PROVE  Cons(x, l) = [j \in 1 .. Len(l) + 1 |-> IF j = 1 THEN x ELSE l[j - 1]]
<1>0. Len(l) \in Nat
  BY LenProperties
<1>1. <<x>> \in Seq(S) /\ Len(<<x>>) = 1 /\ <<x>>[1] = x
  OBVIOUS
<1>2. PICK a : a = <<x>>
  OBVIOUS
<1>3. /\ a \o l \in Seq(S) /\ Len(a \o l) = Len(a) + Len(l)
      /\ \A j \in 1 .. Len(a) + Len(l) : (a \o l)[j] = IF j <= Len(a) THEN a[j] ELSE l[j - Len(a)]
  BY <1>1, <1>2, ConcatProperties
<1>4. PICK c : c = a \o l
  OBVIOUS
<1>5. c \in [1 .. Len(l) + 1 -> S]
  <2>1. c \in Seq(S) /\ Len(c) = Len(l) + 1
    BY <1>0, <1>1, <1>2, <1>3, <1>4
  <2>2. c \in [1 .. Len(c) -> S]
    BY <2>1, LenProperties
  <2> QED
    BY <2>1, <2>2
<1>6. \A j \in 1 .. Len(l) + 1 : c[j] = IF j = 1 THEN x ELSE l[j - 1]
  BY <1>0, <1>1, <1>2, <1>3, <1>4
<1> QED
  BY <1>2, <1>4, <1>5, <1>6 DEF Cons

\* A node goes to the front, or is replaced there.
LEMMA HeadedIs ==
  ASSUME NEW S, NEW l \in Seq(S), NEW i \in 1 .. Len(l), NEW x \in S
  PROVE  Cons(x, RemoveAt(l, i)) = [j \in 1 .. Len(l) |-> IF j = 1 THEN x ELSE l[Came(i, j)]]
<1>0. Len(l) \in Nat
  BY LenProperties
<1>1. PICK r : r = RemoveAt(l, i)
  OBVIOUS
<1>2. /\ r \in Seq(S) /\ Len(r) = Len(l) - 1
      /\ \A j \in 1 .. Len(l) - 1 : r[j] = IF j < i THEN l[j] ELSE l[j + 1]
  BY <1>1, RemoveAtIs
<1>3. Cons(x, r) = [j \in 1 .. Len(r) + 1 |-> IF j = 1 THEN x ELSE r[j - 1]]
  BY <1>2, ConsIs
<1>4. Len(r) + 1 = Len(l)
  BY <1>0, <1>2
<1>5. ASSUME NEW j \in 1 .. Len(l), j # 1 PROVE r[j - 1] = l[Came(i, j)]
  <2>1. j - 1 \in 1 .. Len(l) - 1 /\ (j - 1) + 1 = j /\ (j - 1 < i <=> j <= i) /\ 2 <= j
    BY <1>0, <1>5
  <2> QED
    BY <1>2, <1>5, <2>1 DEF Came
<1> QED
  BY <1>1, <1>3, <1>4, <1>5

\* The last node goes, a new one comes to the front.
LEMMA ReusedIs ==
  ASSUME NEW S, NEW l \in Seq(S), Len(l) # 0, NEW x \in S
  PROVE  Cons(x, Front(l)) = [j \in 1 .. Len(l) |-> IF j = 1 THEN x ELSE l[Came(Len(l), j)]]
<1>0. Len(l) \in Nat /\ \A j \in 1 .. Len(l) : l[j] \in S
  BY LenProperties, ElementOfSeq
<1>1. PICK r : r = SubSeq(l, 1, Len(l) - 1)
  OBVIOUS
<1>2. r \in Seq(S) /\ Len(r) = Len(l) - 1 /\ \A j \in 1 .. Len(l) - 1 : r[j] = l[j]
  <2>1. \A j \in 1 .. Len(l) - 1 : l[j] \in S
    BY <1>0
  <2>2. /\ r \in Seq(S) /\ Len(r) = (IF 1 <= Len(l) - 1 THEN ((Len(l) - 1) - 1) + 1 ELSE 0)
        /\ \A j \in 1 .. ((Len(l) - 1) - 1) + 1 : r[j] = l[(1 + j) - 1]
    BY <1>0, <1>1, <2>1, SubSeqProperties
  <2>3. Len(r) = Len(l) - 1
    <3>1. PICK n : n = Len(l)
      OBVIOUS
    <3>2. n \in Nat /\ n # 0 /\ Len(r) = IF 1 <= n - 1 THEN ((n - 1) - 1) + 1 ELSE 0
      BY <1>0, <2>2, <3>1, Zenon
    <3>3. CASE n = 1
      BY <3>1, <3>2, <3>3
    <3>4. CASE n # 1
      <4>1. 1 <= n - 1 /\ ((n - 1) - 1) + 1 = n - 1
        BY <3>2, <3>4
      <4> QED
        BY <3>1, <3>2, <4>1, Zenon
    <3> QED
      BY <3>3, <3>4
  <2>4. ASSUME NEW j \in 1 .. Len(l) - 1 PROVE r[j] = l[j]
    <3>1. j \in 1 .. ((Len(l) - 1) - 1) + 1 /\ (1 + j) - 1 = j
      BY <1>0
    <3> QED
      BY <2>2, <3>1
  <2> QED
    BY <2>2, <2>3, <2>4
<1>3. Cons(x, r) = [j \in 1 .. Len(r) + 1 |-> IF j = 1 THEN x ELSE r[j - 1]]
  BY <1>2, ConsIs
<1>4. Len(r) + 1 = Len(l)
  BY <1>0, <1>2
<1>5. ASSUME NEW j \in 1 .. Len(l), j # 1 PROVE r[j - 1] = l[Came(Len(l), j)]
  <2>1. j - 1 \in 1 .. Len(l) - 1 /\ j <= Len(l) /\ 2 <= j
    BY <1>0, <1>5
  <2> QED
    BY <1>2, <1>5, <2>1 DEF Came
<1>6. Front(l) = r
  BY <1>1 DEF Front
<1> QED
  BY <1>3, <1>4, <1>5, <1>6

\* A node goes to the end, or is replaced there.
LEMMA TailedIs ==
  ASSUME NEW S, NEW l \in Seq(S), NEW i \in 1 .. Len(l), NEW x \in S
  PROVE  Append(RemoveAt(l, i), x) =
           [j \in 1 .. Len(l) |-> IF j = Len(l) THEN x ELSE IF j < i THEN l[j] ELSE l[j + 1]]
<1>0. Len(l) \in Nat
  BY LenProperties
<1>1. PICK r : r = RemoveAt(l, i)
  OBVIOUS
<1>2. /\ r \in Seq(S) /\ Len(r) = Len(l) - 1
      /\ \A j \in 1 .. Len(l) - 1 : r[j] = IF j < i THEN l[j] ELSE l[j + 1]
  BY <1>1, RemoveAtIs
<1>3. PICK c : c = Append(r, x)
  OBVIOUS
<1>4. /\ c \in Seq(S) /\ Len(c) = Len(r) + 1
      /\ \A j \in 1 .. Len(r) : c[j] = r[j]
      /\ c[Len(r) + 1] = x
  BY <1>2, <1>3, AppendProperties
<1>5. Len(r) + 1 = Len(l) /\ Len(c) = Len(l)
  BY <1>0, <1>2, <1>4
<1>6. c \in [1 .. Len(l) -> S]
  BY <1>4, <1>5, LenProperties
<1>7. ASSUME NEW j \in 1 .. Len(l)
      PROVE  c[j] = IF j = Len(l) THEN x ELSE IF j < i THEN l[j] ELSE l[j + 1]
  <2>1. CASE j = Len(l)
    BY <1>4, <1>5, <2>1
  <2>2. CASE j # Len(l)
    <3>1. j \in 1 .. Len(l) - 1 /\ j \in 1 .. Len(r)
      BY <1>0, <1>2, <2>2
    <3> QED
      BY <1>2, <1>4, <2>2, <3>1
  <2> QED
    BY <2>1, <2>2
<1> QED
  BY <1>1, <1>3, <1>6, <1>7

-----------------------------------------------------------------------------
\* The loops of the sweep, as the functions that the model defines recursively: they
\* exist, by least counterexample.
AfterTable(l, keys, n, f) ==
  f = [i \in 0 .. n |-> IF i = 0 THEN l ELSE Del(f[i - 1], keys[i])]

LEMMA AfterTableExists ==
  ASSUME NEW l, NEW keys, NEW k \in Nat
  PROVE  \E f : AfterTable(l, keys, k, f)
<1> DEFINE Bad == {n \in Nat : ~\E f : AfterTable(l, keys, n, f)}
           R == OpToRel(<, Nat)
<1>1. \A x, y \in Nat : y < x => <<y, x>> \in R
  BY DEF OpToRel
<1>2. IsWellFoundedOn(R, Nat)
  BY NatLessThanWellFounded
<1> HIDE DEF R
<1>3. ASSUME Bad # {} PROVE FALSE
  <2>1. PICK w \in Bad : \A y \in Bad : ~(<<y, w>> \in R)
    BY <1>2, <1>3, WFMin
  <2>2. w \in Nat /\ ~\E f : AfterTable(l, keys, w, f)
    OBVIOUS
  <2>3. CASE w = 0
    <3> DEFINE f == [n \in 0 .. 0 |-> l]
    <3>1. \A n \in 0 .. 0 : n = 0
      OBVIOUS
    <3>2. [n \in 0 .. 0 |-> IF n = 0 THEN l ELSE Del(f[n - 1], keys[n])] = f
      BY <3>1
    <3>3. AfterTable(l, keys, 0, f)
      BY <3>2, Zenon DEF AfterTable
    <3> QED
      BY <2>2, <2>3, <3>3
  <2>4. CASE w # 0
    <3>1. w - 1 \in Nat /\ w - 1 < w
      BY <2>2, <2>4
    <3>2. PICK g : AfterTable(l, keys, w - 1, g)
      <4>1. w - 1 \notin Bad
        BY <2>1, <2>2, <3>1, <1>1
      <4> QED
        BY <3>1, <4>1
    <3> DEFINE f == [n \in 0 .. w |-> IF n = w THEN Del(g[w - 1], keys[w]) ELSE g[n]]
               h == [n \in 0 .. w |-> IF n = 0 THEN l ELSE Del(f[n - 1], keys[n])]
    <3>3. \A n \in 0 .. w - 1 : g[n] = IF n = 0 THEN l ELSE Del(g[n - 1], keys[n])
      BY <3>2 DEF AfterTable
    <3>4. ASSUME NEW n \in 0 .. w PROVE f[n] = IF n = 0 THEN l ELSE Del(f[n - 1], keys[n])
      <4>1. CASE n = w
        <5>1. w \in 0 .. w /\ w - 1 \in 0 .. w /\ w - 1 # w
          BY <3>1
        <5>2. f[w - 1] = g[w - 1] /\ f[w] = Del(g[w - 1], keys[w])
          BY <5>1
        <5> HIDE DEF f
        <5> QED
          BY <4>1, <5>2, <2>4
      <4>2. CASE n = 0
        <5>1. 0 \in 0 .. w /\ 0 # w /\ 0 \in 0 .. w - 1
          BY <3>1, <2>4
        <5>2. f[0] = g[0] /\ g[0] = l
          BY <5>1, <3>3
        <5> HIDE DEF f
        <5> QED
          BY <4>2, <5>2
      <4>3. CASE n # w /\ n # 0
        <5>1. n \in 0 .. w /\ n \in 0 .. w - 1 /\ n - 1 \in 0 .. w /\ n - 1 # w
          BY <4>3, <2>2
        <5>2. f[n] = g[n] /\ f[n - 1] = g[n - 1]
          BY <4>3, <5>1
        <5>3. g[n] = IF n = 0 THEN l ELSE Del(g[n - 1], keys[n])
          BY <3>3, <5>1
        <5> HIDE DEF f
        <5> QED
          BY <5>2, <5>3
      <4> QED
        BY <4>1, <4>2, <4>3
    <3>5. f = h
      <4>1. DOMAIN f = 0 .. w /\ DOMAIN h = 0 .. w /\ \A n \in 0 .. w : f[n] = h[n]
        BY <3>4
      <4>2. f = [n \in 0 .. w |-> f[n]] /\ h = [n \in 0 .. w |-> h[n]]
        OBVIOUS
      <4> HIDE DEF f, h
      <4> QED
        BY <4>1, <4>2
    <3>6. AfterTable(l, keys, w, f)
      BY <3>5, Zenon DEF AfterTable
    <3> QED
      BY <2>2, <3>6
  <2> QED
    BY <2>3, <2>4
<1> QED
  BY <1>3

FoundStep(l, t, found, i) ==
  IF l[i].expireAt > 0 /\ t >= l[i].expireAt /\ ~Contains(found, l[i].k)
  THEN Append(found, l[i].k) ELSE found
FoundTable(keys, l, t, n, f) ==
  f = [i \in 0 .. n |-> IF i = 0 THEN keys ELSE FoundStep(l, t, f[i - 1], i)]

LEMMA FoundTableExists ==
  ASSUME NEW keys, NEW l, NEW t, NEW k \in Nat
  PROVE  \E f : FoundTable(keys, l, t, k, f)
<1> DEFINE Bad == {n \in Nat : ~\E f : FoundTable(keys, l, t, n, f)}
           R == OpToRel(<, Nat)
<1>1. \A x, y \in Nat : y < x => <<y, x>> \in R
  BY DEF OpToRel
<1>2. IsWellFoundedOn(R, Nat)
  BY NatLessThanWellFounded
<1> HIDE DEF R
<1>3. ASSUME Bad # {} PROVE FALSE
  <2>1. PICK w \in Bad : \A y \in Bad : ~(<<y, w>> \in R)
    BY <1>2, <1>3, WFMin
  <2>2. w \in Nat /\ ~\E f : FoundTable(keys, l, t, w, f)
    OBVIOUS
  <2>3. CASE w = 0
    <3> DEFINE f == [n \in 0 .. 0 |-> keys]
    <3>1. \A n \in 0 .. 0 : n = 0
      OBVIOUS
    <3>2. [n \in 0 .. 0 |-> IF n = 0 THEN keys ELSE FoundStep(l, t, f[n - 1], n)] = f
      BY <3>1
    <3>3. FoundTable(keys, l, t, 0, f)
      BY <3>2, Zenon DEF FoundTable
    <3> QED
      BY <2>2, <2>3, <3>3
  <2>4. CASE w # 0
    <3>1. w - 1 \in Nat /\ w - 1 < w
      BY <2>2, <2>4
    <3>2. PICK g : FoundTable(keys, l, t, w - 1, g)
      <4>1. w - 1 \notin Bad
        BY <2>1, <2>2, <3>1, <1>1
      <4> QED
        BY <3>1, <4>1
    <3> DEFINE f == [n \in 0 .. w |-> IF n = w THEN FoundStep(l, t, g[w - 1], w) ELSE g[n]]
               h == [n \in 0 .. w |-> IF n = 0 THEN keys ELSE FoundStep(l, t, f[n - 1], n)]
    <3>3. \A n \in 0 .. w - 1 : g[n] = IF n = 0 THEN keys ELSE FoundStep(l, t, g[n - 1], n)
      BY <3>2 DEF FoundTable
    <3>4. ASSUME NEW n \in 0 .. w PROVE f[n] = IF n = 0 THEN keys ELSE FoundStep(l, t, f[n - 1], n)
      <4>1. CASE n = w
        <5>1. w \in 0 .. w /\ w - 1 \in 0 .. w /\ w - 1 # w
          BY <3>1
        <5>2. f[w - 1] = g[w - 1] /\ f[w] = FoundStep(l, t, g[w - 1], w)
          BY <5>1
        <5> HIDE DEF f
        <5> QED
          BY <4>1, <5>2, <2>4
      <4>2. CASE n = 0
        <5>1. 0 \in 0 .. w /\ 0 # w /\ 0 \in 0 .. w - 1
          BY <3>1, <2>4
        <5>2. f[0] = g[0] /\ g[0] = keys
          BY <5>1, <3>3
        <5> HIDE DEF f
        <5> QED
          BY <4>2, <5>2
      <4>3. CASE n # w /\ n # 0
        <5>1. n \in 0 .. w /\ n \in 0 .. w - 1 /\ n - 1 \in 0 .. w /\ n - 1 # w
          BY <4>3, <2>2
        <5>2. f[n] = g[n] /\ f[n - 1] = g[n - 1]
          BY <4>3, <5>1
        <5>3. g[n] = IF n = 0 THEN keys ELSE FoundStep(l, t, g[n - 1], n)
          BY <3>3, <5>1
        <5> HIDE DEF f
        <5> QED
          BY <5>2, <5>3
      <4> QED
        BY <4>1, <4>2, <4>3
    <3>5. f = h
      <4>1. DOMAIN f = 0 .. w /\ DOMAIN h = 0 .. w /\ \A n \in 0 .. w : f[n] = h[n]
        BY <3>4
      <4>2. f = [n \in 0 .. w |-> f[n]] /\ h = [n \in 0 .. w |-> h[n]]
        OBVIOUS
      <4> HIDE DEF f, h
      <4> QED
        BY <4>1, <4>2
    <3>6. FoundTable(keys, l, t, w, f)
      BY <3>5, Zenon DEF FoundTable
    <3> QED
      BY <2>2, <3>6
  <2> QED
    BY <2>3, <2>4
<1> QED
  BY <1>3
-----------------------------------------------------------------------------
\* What the list operators do to the nodes of a level, whatever their places.
NodeSet == [k : Keys, v : Nat, expireAt : Nat]
GoodList(l) == l \in Seq(NodeSet) /\ \A i, j \in 1 .. Len(l) : l[i].k = l[j].k => i = j

LEMMA ListFacts ==
  ASSUME NEW l, GoodList(l)
  PROVE  /\ Len(l) \in Nat /\ DOMAIN l = 1 .. Len(l)
         /\ \A i \in 1 .. Len(l) : l[i] \in NodeSet /\ l[i] \in Range(l)
         /\ \A x \in Range(l) : x \in NodeSet /\ \E i \in 1 .. Len(l) : x = l[i]
         /\ \A x : x \in LiveNodes(l) <=> x \in Range(l) /\ x.expireAt > 0
<1>1. Len(l) \in Nat /\ DOMAIN l = 1 .. Len(l) /\ \A i \in 1 .. Len(l) : l[i] \in NodeSet
  BY LenProperties, ElementOfSeq DEF GoodList
<1>2. Range(l) = {l[i] : i \in 1 .. Len(l)}
  BY <1>1 DEF Range
<1>3. \A x : x \in LiveNodes(l) <=> x \in Range(l) /\ x.expireAt > 0
  BY <1>1, <1>2 DEF LiveNodes
<1> QED
  BY <1>1, <1>2, <1>3

\* A key has one node at most, and Find finds it.
LEMMA FindIs ==
  ASSUME NEW l, GoodList(l), NEW k
  PROVE  \/ Find(l, k) = 0 /\ \A i \in 1 .. Len(l) : l[i].k # k
         \/ Find(l, k) \in 1 .. Len(l) /\ l[Find(l, k)].k = k
<1>1. Len(l) \in Nat
  BY ListFacts
<1>2. CASE \A i \in 1 .. Len(l) : l[i].k # k
  BY <1>2, FindNone
<1>3. CASE \E i \in 1 .. Len(l) : l[i].k = k
  <2>1. PICK i \in 1 .. Len(l) : l[i].k = k
    BY <1>3
  <2>2. \A j \in 1 .. Len(l) : l[j].k = k => j = i
    BY <2>1 DEF GoodList
  <2>3. Find(l, k) = i
    BY <1>1, <2>1, <2>2, FindAt
  <2> QED
    BY <2>1, <2>3
<1> QED
  BY <1>2, <1>3

LEMMA LiveIs ==
  ASSUME NEW l, GoodList(l), NEW k
  PROVE  /\ Live(l, k) => At(l, k) \in LiveNodes(l) /\ At(l, k).k = k
         /\ ~Live(l, k) => \A x \in LiveNodes(l) : x.k # k
<1>1. PICK i : i = Find(l, k)
  OBVIOUS
<1>2. \/ i = 0 /\ \A j \in 1 .. Len(l) : l[j].k # k
      \/ i \in 1 .. Len(l) /\ l[i].k = k
  BY <1>1, FindIs
<1>3. Live(l, k) <=> i # 0 /\ l[i].expireAt > 0
  BY <1>1 DEF Live
<1>4. At(l, k) = l[i]
  BY <1>1 DEF At
<1>5. ASSUME Live(l, k) PROVE At(l, k) \in LiveNodes(l) /\ At(l, k).k = k
  BY <1>2, <1>3, <1>4, <1>5, ListFacts
<1>6. ASSUME ~Live(l, k), NEW x \in LiveNodes(l), x.k = k PROVE FALSE
  <2>1. PICK j \in 1 .. Len(l) : x = l[j] /\ x.expireAt > 0
    BY ListFacts
  <2>2. i \in 1 .. Len(l) /\ l[i].k = l[j].k
    BY <1>2, <1>6, <2>1
  <2>3. i = j
    BY <2>1, <2>2 DEF GoodList
  <2> QED
    BY <1>3, <1>6, <2>1, <2>2, <2>3, ListFacts
<1> QED
  BY <1>5, <1>6

\* What del and the sweep leave of a level: no live node of the keys in S, the others as
\* they were.
Shrunk(l, w, S) ==
  /\ GoodList(w) /\ Len(w) = Len(l)
  /\ \A x \in Range(w) : \E y \in Range(l) :
       y.k = x.k /\ y.v = x.v /\ (x.expireAt > 0 => x = y /\ x.k \notin S)

\* A list that has the nodes of another one at other places.
LEMMA Rearranged ==
  ASSUME NEW l, GoodList(l), NEW w, NEW from, NEW S,
         from \in [1 .. Len(l) -> 1 .. Len(l)], \A i, j \in 1 .. Len(l) : from[i] = from[j] => i = j,
         w = [j \in 1 .. Len(l) |-> w[j]],
         \A j \in 1 .. Len(l) :
           /\ w[j] \in NodeSet /\ w[j].k = l[from[j]].k /\ w[j].v = l[from[j]].v
           /\ w[j].expireAt > 0 => w[j] = l[from[j]] /\ w[j].k \notin S
  PROVE  Shrunk(l, w, S)
<1>1. Len(l) \in Nat
  BY ListFacts
<1>2. w \in [1 .. Len(l) -> NodeSet]
  OBVIOUS
<1>3. w \in Seq(NodeSet) /\ Len(w) = Len(l)
  BY <1>1, <1>2, SeqDef, LenProperties
<1>4. GoodList(w)
  <2>1. ASSUME NEW i \in 1 .. Len(l), NEW j \in 1 .. Len(l), w[i].k = w[j].k PROVE i = j
    <3>1. l[from[i]].k = l[from[j]].k /\ from[i] \in 1 .. Len(l) /\ from[j] \in 1 .. Len(l)
      BY <2>1
    <3>2. from[i] = from[j]
      BY <3>1 DEF GoodList
    <3> QED
      BY <3>2
  <2> QED
    BY <1>3, <2>1 DEF GoodList
<1>5. ASSUME NEW x \in Range(w)
      PROVE  \E y \in Range(l) : y.k = x.k /\ y.v = x.v /\ (x.expireAt > 0 => x = y /\ x.k \notin S)
  <2>1. PICK j \in 1 .. Len(l) : x = w[j]
    BY <1>3, <1>4, ListFacts
  <2>2. l[from[j]] \in Range(l)
    BY ListFacts
  <2> QED
    BY <2>1, <2>2
<1> QED
  BY <1>3, <1>4, <1>5 DEF Shrunk

\* Where the node at position j was before the one at i moved to the end.
Sank(n, i, j) == IF j = n THEN i ELSE IF j < i THEN j ELSE j + 1

LEMMA SankIs ==
  ASSUME NEW n \in Nat, NEW i \in 1 .. n
  PROVE  /\ \A j \in 1 .. n : Sank(n, i, j) \in 1 .. n
         /\ \A j, k \in 1 .. n : Sank(n, i, j) = Sank(n, i, k) => j = k
  BY DEF Sank

\* del (lru2.go:299-309) leaves no live node of its key.
LEMMA DelIs ==
  ASSUME NEW l, GoodList(l), NEW k
  PROVE  Shrunk(l, Del(l, k), {k})
<1>1. Len(l) \in Nat /\ DOMAIN l = 1 .. Len(l) /\ l \in Seq(NodeSet) /\ \A i \in 1 .. Len(l) : l[i] \in NodeSet
  BY ListFacts DEF GoodList
<1>2. CASE ~Live(l, k)
  <2>1. Del(l, k) = l
    BY <1>2 DEF Del
  <2>2. \A x \in LiveNodes(l) : x.k # k
    BY <1>2, LiveIs
  <2>3. ASSUME NEW x \in Range(l) PROVE x.expireAt > 0 => x.k \notin {k}
    BY <2>2, ListFacts
  <2> QED
    BY <2>1, <2>3 DEF Shrunk
<1>3. CASE Live(l, k)
  <2>1. PICK i : i = Find(l, k)
    OBVIOUS
  <2>2. i \in 1 .. Len(l) /\ l[i].k = k
    BY <1>3, <2>1, FindIs DEF Live
  <2>3. PICK x : x = [l[i] EXCEPT !.expireAt = 0]
    OBVIOUS
  <2>4. x \in NodeSet /\ x.k = l[i].k /\ x.v = l[i].v /\ x.expireAt = 0
    BY <1>1, <2>2, <2>3 DEF NodeSet
  <2>5. PICK w : w = Del(l, k)
    OBVIOUS
  <2>6. w = Append(RemoveAt(l, i), x)
    BY <1>3, <2>1, <2>3, <2>5 DEF Del
  <2>7. w = [j \in 1 .. Len(l) |-> IF j = Len(l) THEN x ELSE IF j < i THEN l[j] ELSE l[j + 1]]
    <3>1. Append(RemoveAt(l, i), x) = [j \in 1 .. Len(l) |-> IF j = Len(l) THEN x ELSE IF j < i THEN l[j] ELSE l[j + 1]]
      <4>1. l \in Seq(NodeSet) /\ i \in 1 .. Len(l) /\ x \in NodeSet
        BY <1>1, <2>2, <2>4
      <4> QED
        BY <4>1, TailedIs
    <3> QED
      BY <2>6, <3>1, Zenon
  <2>8. PICK from : from = [j \in 1 .. Len(l) |-> Sank(Len(l), i, j)]
    OBVIOUS
  <2>9. from \in [1 .. Len(l) -> 1 .. Len(l)] /\ \A j, n \in 1 .. Len(l) : from[j] = from[n] => j = n
    BY <1>1, <2>2, <2>8, SankIs
  <2>10. ASSUME NEW j \in 1 .. Len(l)
         PROVE  /\ w[j] \in NodeSet /\ w[j].k = l[from[j]].k /\ w[j].v = l[from[j]].v
                /\ w[j].expireAt > 0 => w[j] = l[from[j]] /\ w[j].k \notin {k}
    <3>1. CASE j = Len(l)
      <4>1. w[j] = x /\ from[j] = i
        BY <2>7, <2>8, <3>1 DEF Sank
      <4> QED
        BY <2>4, <4>1
    <3>2. CASE j # Len(l)
      <4>1. w[j] = l[from[j]] /\ from[j] # i /\ from[j] \in 1 .. Len(l)
        <5>1. w[j] = (IF j < i THEN l[j] ELSE l[j + 1]) /\ from[j] = Sank(Len(l), i, j)
          BY <2>7, <2>8, <3>2
        <5>2. from[j] # i
          <6>1. Len(l) \in 1 .. Len(l)
            BY <1>1, <2>2
          <6>2. from[Len(l)] = Sank(Len(l), i, Len(l))
            BY <2>8, <6>1, Zenon
          <6>3. Sank(Len(l), i, Len(l)) = i
            BY Zenon DEF Sank
          <6> QED
            BY <2>9, <3>2, <6>1, <6>2, <6>3
        <5>3. w[j] = l[from[j]]
          BY <3>2, <5>1 DEF Sank
        <5> QED
          BY <2>9, <5>2, <5>3
      <4>2. w[j].k # k
        BY <2>2, <4>1 DEF GoodList
      <4> QED
        BY <1>1, <4>1, <4>2
    <3> QED
      BY <3>1, <3>2
  <2>11. w = [j \in 1 .. Len(l) |-> w[j]]
    BY <2>7
  <2> HIDE <1>3
  <2> QED
    BY <2>5, <2>9, <2>10, <2>11, Rearranged, SMTT(30)
<1> QED
  BY <1>2, <1>3

\* get (lru2.go:290-297) only moves its node.
LEMMA TouchIs ==
  ASSUME NEW l, GoodList(l), NEW k
  PROVE  Shrunk(l, Touch(l, k), {})
<1>1. Len(l) \in Nat /\ DOMAIN l = 1 .. Len(l) /\ l \in Seq(NodeSet) /\ \A i \in 1 .. Len(l) : l[i] \in NodeSet
  BY ListFacts DEF GoodList
<1>2. CASE Find(l, k) = 0
  <2>1. Touch(l, k) = l
    BY <1>2 DEF Touch
  <2> QED
    BY <2>1 DEF Shrunk
<1>3. CASE Find(l, k) # 0
  <2>0. PICK S : S = {}
    OBVIOUS
  <2>1. PICK i : i = Find(l, k)
    OBVIOUS
  <2>2. i \in 1 .. Len(l)
    BY <1>3, <2>1, FindIs
  <2>3. PICK w : w = Touch(l, k)
    OBVIOUS
  <2>4. w = Cons(l[i], RemoveAt(l, i))
    BY <1>3, <2>1, <2>3 DEF Touch
  <2>5. w = [j \in 1 .. Len(l) |-> IF j = 1 THEN l[i] ELSE l[Came(i, j)]]
    BY <1>1, <2>2, <2>4, HeadedIs
  <2>6. PICK from : from = [j \in 1 .. Len(l) |-> Came(i, j)]
    OBVIOUS
  <2>7. from \in [1 .. Len(l) -> 1 .. Len(l)] /\ \A j, n \in 1 .. Len(l) : from[j] = from[n] => j = n
    BY <1>1, <2>2, <2>6 DEF Came
  <2>8. ASSUME NEW j \in 1 .. Len(l) PROVE w[j] = l[from[j]] /\ from[j] \in 1 .. Len(l)
    BY <2>5, <2>6, <2>7 DEF Came
  <2>9. ASSUME NEW j \in 1 .. Len(l)
         PROVE  /\ w[j] \in NodeSet /\ w[j].k = l[from[j]].k /\ w[j].v = l[from[j]].v
                /\ w[j].expireAt > 0 => w[j] = l[from[j]] /\ w[j].k \notin S
    BY <1>1, <2>8, <2>0
  <2>10. w = [j \in 1 .. Len(l) |-> w[j]]
    BY <2>5
  <2> HIDE <1>3
  <2>11. Shrunk(l, w, S)
    BY <2>7, <2>9, <2>10, Rearranged
  <2> QED
    BY <2>0, <2>3, <2>11
<1> QED
  BY <1>2, <1>3

\* What put leaves of a level: the new node, and others of other keys.
Entered(l, w, cap, x) ==
  /\ GoodList(w) /\ Len(w) <= cap
  /\ \A y \in Range(w) : y = x \/ (y \in Range(l) /\ y.k # x.k)

LEMMA EnteredAt ==
  ASSUME NEW l, GoodList(l), NEW x \in NodeSet, NEW cap \in Nat, NEW w, NEW n \in Nat, NEW from,
         n <= cap, 1 <= n, w = [j \in 1 .. n |-> IF j = 1 THEN x ELSE l[from[j]]],
         \A j \in 2 .. n : from[j] \in 1 .. Len(l) /\ l[from[j]].k # x.k,
         \A i, j \in 2 .. n : from[i] = from[j] => i = j
  PROVE  Entered(l, w, cap, x)
<1>1. Len(l) \in Nat /\ \A i \in 1 .. Len(l) : l[i] \in NodeSet /\ l[i] \in Range(l)
  BY ListFacts
<1>2. w[1] = x /\ \A j \in 2 .. n : w[j] = l[from[j]] /\ w[j] \in Range(l) /\ w[j] \in NodeSet /\ w[j].k # x.k
  BY <1>1
<1>3. \A j \in 1 .. n : j = 1 \/ j \in 2 .. n
  OBVIOUS
<1>4. w = [j \in 1 .. n |-> w[j]] /\ \A j \in 1 .. n : w[j] \in NodeSet
  BY <1>2, <1>3
<1>5. w \in Seq(NodeSet) /\ Len(w) = n
  <2>1. w \in [1 .. n -> NodeSet]
    BY <1>4
  <2> QED
    BY <2>1, SeqDef, LenProperties
<1>6. ASSUME NEW i \in 1 .. n, NEW j \in 1 .. n, w[i].k = w[j].k PROVE i = j
  <2>1. CASE i = 1 \/ j = 1
    BY <1>2, <1>3, <1>6, <2>1
  <2>2. CASE i \in 2 .. n /\ j \in 2 .. n
    <3>1. l[from[i]].k = l[from[j]].k /\ from[i] \in 1 .. Len(l) /\ from[j] \in 1 .. Len(l)
      BY <1>2, <1>6, <2>2
    <3>2. from[i] = from[j]
      BY <3>1 DEF GoodList
    <3> QED
      BY <2>2, <3>2
  <2> QED
    BY <1>3, <2>1, <2>2
<1>7. GoodList(w)
  BY <1>5, <1>6 DEF GoodList
<1>8. ASSUME NEW y \in Range(w) PROVE y = x \/ (y \in Range(l) /\ y.k # x.k)
  <2>1. PICK j \in 1 .. n : y = w[j]
    BY <1>5, <1>7, ListFacts
  <2> QED
    BY <1>2, <1>3, <2>1
<1> QED
  BY <1>5, <1>7, <1>8 DEF Entered

\* put (lru2.go:252-288): the node is the only one of its key; what it evicts is gone.
LEMMA PutIs ==
  ASSUME NEW l, GoodList(l), NEW cap \in Nat \ {0}, Len(l) <= cap,
         NEW k \in Keys, NEW v \in Nat, NEW e \in Nat
  PROVE  /\ Entered(l, Put(l, cap, k, v, e), cap, Node(k, v, e))
         /\ \A y \in Evicts(l, cap, k) :
              /\ y \in LiveNodes(l) /\ y.k # k
              /\ \A z \in Range(Put(l, cap, k, v, e)) : z.k # y.k
<1>1. PICK n : n = Len(l)
  OBVIOUS
<1>2. n \in Nat /\ n <= cap /\ l \in Seq(NodeSet) /\ \A i \in 1 .. n : l[i] \in NodeSet
  BY <1>1, ListFacts DEF GoodList
<1>3. PICK x : x = Node(k, v, e)
  OBVIOUS
<1>4. x \in NodeSet /\ x.k = k
  BY <1>3 DEF Node, NodeSet
<1>5. PICK i : i = Find(l, k)
  OBVIOUS
<1>6. PICK w : w = Put(l, cap, k, v, e)
  OBVIOUS
<1>7. w = Cons(x, IF i # 0 THEN RemoveAt(l, i) ELSE IF Len(l) = cap THEN Front(l) ELSE l)
  BY <1>3, <1>5, <1>6 DEF Put
<1>8. \/ i = 0 /\ \A j \in 1 .. n : l[j].k # k
      \/ i \in 1 .. n /\ l[i].k = k
  BY <1>1, <1>5, FindIs
<1>9. CASE i # 0
  <2>1. i \in 1 .. n /\ i \in 1 .. Len(l) /\ l[i].k = k
    BY <1>1, <1>8, <1>9
  <2>2. w = Cons(x, RemoveAt(l, i))
    BY <1>7, <1>9
  <2>3. w = [j \in 1 .. Len(l) |-> IF j = 1 THEN x ELSE l[Came(i, j)]]
    BY <1>2, <1>4, <2>1, <2>2, HeadedIs
  <2>4. PICK from : from = [j \in 1 .. n |-> Came(i, j)]
    OBVIOUS
  <2>5. \A j \in 2 .. n : from[j] \in 1 .. n /\ from[j] # i
    BY <1>2, <2>1, <2>4 DEF Came
  <2>6. \A a, b \in 2 .. n : from[a] = from[b] => a = b
    BY <1>2, <2>1, <2>4 DEF Came
  <2>7. \A j \in 2 .. n : from[j] \in 1 .. Len(l) /\ l[from[j]].k # x.k
    BY <1>1, <1>4, <2>1, <2>5 DEF GoodList
  <2>8. w = [j \in 1 .. n |-> IF j = 1 THEN x ELSE l[from[j]]]
    BY <1>1, <2>3, <2>4
  <2>9. 1 <= n
    BY <1>2, <2>1
  <2>10. Entered(l, w, cap, x)
    BY <1>2, <1>4, <2>6, <2>7, <2>8, <2>9, EnteredAt
  <2>11. Evicts(l, cap, k) = {}
    BY <1>5, <1>9 DEF Evicts
  <2> QED
    BY <1>3, <1>6, <2>10, <2>11
<1>10. CASE i = 0 /\ Len(l) = cap
  <2>1. \A j \in 1 .. n : l[j].k # k
    BY <1>8, <1>10
  <2>2. w = Cons(x, Front(l)) /\ Len(l) # 0
    BY <1>7, <1>10
  <2>3. w = [j \in 1 .. Len(l) |-> IF j = 1 THEN x ELSE l[Came(Len(l), j)]]
    BY <1>2, <1>4, <2>2, ReusedIs
  <2>4. PICK from : from = [j \in 1 .. n |-> Came(n, j)]
    OBVIOUS
  <2>5. \A j \in 2 .. n : from[j] \in 1 .. n /\ from[j] = j - 1 /\ from[j] # n
    BY <1>2, <2>4 DEF Came
  <2>6. \A a, b \in 2 .. n : from[a] = from[b] => a = b
    BY <1>2, <2>5
  <2>7. \A j \in 2 .. n : from[j] \in 1 .. Len(l) /\ l[from[j]].k # x.k
    BY <1>1, <1>4, <2>1, <2>5
  <2>8. w = [j \in 1 .. n |-> IF j = 1 THEN x ELSE l[from[j]]]
    BY <1>1, <2>3, <2>4
  <2>9. 1 <= n
    BY <1>1, <1>2, <2>2
  <2>10. Entered(l, w, cap, x)
    BY <1>2, <1>4, <2>6, <2>7, <2>8, <2>9, EnteredAt
  <2>11. ASSUME NEW y \in Evicts(l, cap, k)
         PROVE  y \in LiveNodes(l) /\ y.k # k /\ \A z \in Range(w) : z.k # y.k
    <3>1. y = l[n] /\ y.expireAt > 0
      BY <1>1 DEF Evicts, Last
    <3>2. n \in 1 .. n /\ n \in 1 .. Len(l)
      BY <1>1, <1>2, <2>9
    <3>3. y \in LiveNodes(l) /\ y.k # k
      BY <2>1, <3>1, <3>2, ListFacts
    <3>4. ASSUME NEW z \in Range(w), z.k = y.k PROVE FALSE
      <4>1. PICK j \in 1 .. Len(w) : z = w[j]
        BY <2>10, ListFacts DEF Entered
      <4>2. j \in 1 .. n
        BY <1>2, <2>8, <4>1, LenProperties
      <4>3. CASE j = 1
        BY <1>4, <2>8, <3>3, <3>4, <4>1, <4>2, <4>3
      <4>4. CASE j # 1
        <5>1. j \in 2 .. n
          BY <1>2, <4>2, <4>4
        <5>2. z = l[from[j]] /\ from[j] \in 1 .. Len(l) /\ from[j] # n
          BY <1>1, <2>5, <2>8, <4>1, <4>2, <4>4, <5>1
        <5> QED
          BY <3>1, <3>2, <3>4, <5>2 DEF GoodList
      <4> QED
        BY <4>3, <4>4
    <3> QED
      BY <3>3, <3>4
  <2> QED
    BY <1>3, <1>6, <2>10, <2>11
<1>11. CASE i = 0 /\ Len(l) # cap
  <2>1. \A j \in 1 .. n : l[j].k # k
    BY <1>8, <1>11
  <2>2. w = Cons(x, l)
    BY <1>7, <1>11
  <2>3. w = [j \in 1 .. Len(l) + 1 |-> IF j = 1 THEN x ELSE l[j - 1]]
    BY <1>2, <1>4, <2>2, ConsIs
  <2>4. PICK from : from = [j \in 1 .. n + 1 |-> j - 1]
    OBVIOUS
  <2>5. \A j \in 2 .. n + 1 : from[j] \in 1 .. n /\ from[j] = j - 1
    BY <1>2, <2>4
  <2>6. \A a, b \in 2 .. n + 1 : from[a] = from[b] => a = b
    BY <1>2, <2>5
  <2>7. \A j \in 2 .. n + 1 : from[j] \in 1 .. Len(l) /\ l[from[j]].k # x.k
    BY <1>1, <1>4, <2>1, <2>5
  <2>8. w = [j \in 1 .. n + 1 |-> IF j = 1 THEN x ELSE l[from[j]]]
    BY <1>1, <2>3, <2>4
  <2>9. n + 1 \in Nat /\ 1 <= n + 1 /\ n + 1 <= cap
    BY <1>1, <1>2, <1>11
  <2>10. Entered(l, w, cap, x)
    BY <1>4, <2>6, <2>7, <2>8, <2>9, EnteredAt
  <2>11. Evicts(l, cap, k) = {}
    BY <1>5, <1>11 DEF Evicts
  <2> QED
    BY <1>3, <1>6, <2>10, <2>11
<1> QED
  BY <1>9, <1>10, <1>11

\* The sweep deletes one key after the other (lru2.go:396-398).
LEMMA DelAllIs ==
  ASSUME NEW l, GoodList(l), NEW keys, Len(keys) \in Nat, DOMAIN keys = 1 .. Len(keys)
  PROVE  Shrunk(l, DelAll(l, keys), Range(keys))
<1> DEFINE k == Len(keys)
           D == CHOOSE f : AfterTable(l, keys, k, f)
           Gone(n) == {keys[i] : i \in 1 .. n}
           Bad == {n \in Nat : n \in 0 .. k /\ ~Shrunk(l, D[n], Gone(n))}
           R == OpToRel(<, Nat)
<1>1. AfterTable(l, keys, k, D)
  BY AfterTableExists
<1>2. DelAll(l, keys) = D[k]
  BY DEF DelAll, AfterTable
<1> HIDE DEF D
<1>3. D[0] = l /\ \A n \in 1 .. k : D[n] = Del(D[n - 1], keys[n])
  BY <1>1 DEF AfterTable
<1>4. \A x, y \in Nat : y < x => <<y, x>> \in R
  BY DEF OpToRel
<1>5. IsWellFoundedOn(R, Nat)
  BY NatLessThanWellFounded
<1> HIDE DEF R, Gone
<1>6. Shrunk(l, D[0], Gone(0))
  <2>1. Gone(0) = {}
    BY DEF Gone
  <2> QED
    BY <1>3, <2>1 DEF Shrunk
<1>7. ASSUME NEW n \in 1 .. k, Shrunk(l, D[n - 1], Gone(n - 1)) PROVE Shrunk(l, D[n], Gone(n))
  <2>1. PICK w : w = D[n - 1]
    OBVIOUS
  <2>2. PICK o : o = D[n]
    OBVIOUS
  <2>3. GoodList(w) /\ Len(w) = Len(l)
    BY <1>7, <2>1 DEF Shrunk
  <2>4. Shrunk(w, o, {keys[n]})
    BY <1>3, <2>1, <2>2, <2>3, DelIs
  <2>5. \A x \in Gone(n) : x \in Gone(n - 1) \/ x = keys[n]
    BY DEF Gone
  <2>6. ASSUME NEW x \in Range(o)
        PROVE  \E y \in Range(l) : y.k = x.k /\ y.v = x.v /\ (x.expireAt > 0 => x = y /\ x.k \notin Gone(n))
    <3>1. PICK y \in Range(w) : y.k = x.k /\ y.v = x.v /\ (x.expireAt > 0 => x = y /\ x.k # keys[n])
      BY <2>4 DEF Shrunk
    <3>2. PICK z \in Range(l) : z.k = y.k /\ z.v = y.v /\ (y.expireAt > 0 => y = z /\ y.k \notin Gone(n - 1))
      BY <1>7, <2>1 DEF Shrunk
    <3> QED
      BY <2>5, <3>1, <3>2
  <2>7. GoodList(o) /\ Len(o) = Len(l)
    BY <2>3, <2>4 DEF Shrunk
  <2> QED
    BY <2>2, <2>6, <2>7 DEF Shrunk
<1>8. ASSUME Bad # {} PROVE FALSE
  <2>1. PICK n \in Bad : \A y \in Bad : ~(<<y, n>> \in R)
    BY <1>5, <1>8, WFMin
  <2>2. n \in Nat /\ n \in 0 .. k /\ ~Shrunk(l, D[n], Gone(n))
    OBVIOUS
  <2>3. n # 0
    BY <1>6, <2>2
  <2>4. n \in 1 .. k /\ n - 1 \in Nat /\ n - 1 \in 0 .. k /\ n - 1 < n
    BY <2>2, <2>3
  <2>5. Shrunk(l, D[n - 1], Gone(n - 1))
    BY <1>4, <2>1, <2>2, <2>4
  <2> QED
    BY <1>7, <2>2, <2>4, <2>5
<1>9. k \in 0 .. k /\ k \in Nat
  OBVIOUS
<1>10. Shrunk(l, D[k], Gone(k))
  BY <1>8, <1>9
<1>11. Gone(k) = Range(keys)
  BY DEF Gone, Range
<1> QED
  BY <1>2, <1>10, <1>11

\* The walks collect a sequence of keys (lru2.go:373-394).
LEMMA ExpiredInIs ==
  ASSUME NEW l, GoodList(l), NEW t, NEW keys \in Seq(Keys)
  PROVE  ExpiredIn(keys, l, t) \in Seq(Keys)
<1> DEFINE k == Len(l)
           D == CHOOSE f : FoundTable(keys, l, t, k, f)
           Bad == {n \in Nat : n \in 0 .. k /\ D[n] \notin Seq(Keys)}
           R == OpToRel(<, Nat)
<1>0. k \in Nat /\ \A n \in 1 .. k : l[n].k \in Keys
  BY ListFacts DEF NodeSet
<1>1. FoundTable(keys, l, t, k, D)
  BY <1>0, FoundTableExists
<1>2. ExpiredIn(keys, l, t) = D[k]
  BY DEF ExpiredIn, FoundTable, FoundStep
<1> HIDE DEF D, k
<1>3. D[0] = keys /\ \A n \in 1 .. k : D[n] = FoundStep(l, t, D[n - 1], n)
  BY <1>0, <1>1 DEF FoundTable
<1>4. \A x, y \in Nat : y < x => <<y, x>> \in R
  BY DEF OpToRel
<1>5. IsWellFoundedOn(R, Nat)
  BY NatLessThanWellFounded
<1> HIDE DEF R
<1>7. ASSUME NEW n \in 1 .. k, D[n - 1] \in Seq(Keys) PROVE D[n] \in Seq(Keys)
  BY <1>0, <1>3, <1>7, AppendProperties, Zenon DEF FoundStep
<1>8. ASSUME Bad # {} PROVE FALSE
  <2>1. PICK n \in Bad : \A y \in Bad : ~(<<y, n>> \in R)
    BY <1>5, <1>8, WFMin
  <2>2. n \in Nat /\ n \in 0 .. k /\ D[n] \notin Seq(Keys)
    OBVIOUS
  <2>3. n # 0
    BY <1>3, <2>2
  <2>4. n \in 1 .. k /\ n - 1 \in Nat /\ n - 1 \in 0 .. k /\ n - 1 < n
    BY <1>0, <2>2, <2>3
  <2>5. D[n - 1] \in Seq(Keys)
    BY <1>4, <2>1, <2>2, <2>4
  <2> QED
    BY <1>7, <2>2, <2>4, <2>5
<1>9. k \in 0 .. k /\ k \in Nat
  BY <1>0
<1>10. D[k] \in Seq(Keys)
  BY <1>8, <1>9
<1> QED
  BY <1>2, <1>10
-----------------------------------------------------------------------------
\* The inductive invariant of the store.
LiveIn(b) == LiveNodes(l1[b]) \cup LiveNodes(l2[b])

\* Each level is a list within its capacity, with one node per key of the bucket.
Levels ==
  /\ l1 \in [Buckets -> Seq(NodeSet)] /\ l2 \in [Buckets -> Seq(NodeSet)]
  /\ \A b \in Buckets :
       /\ GoodList(l1[b]) /\ GoodList(l2[b]) /\ Len(l1[b]) <= Cap1 /\ Len(l2[b]) <= Cap2
       /\ \A x \in Range(l1[b]) \cup Range(l2[b]) : x.v \in 1 .. written /\ Hash[x.k] = b

Histories ==
  /\ written \in Nat /\ latest \in [Keys -> Nat]
  /\ floor \in [Keys -> Nat] /\ \A k \in Keys : floor[k] <= written
  /\ reported \subseteq 1 .. written /\ since \subseteq Keys

Loops ==
  /\ now \in 1 .. MaxTime /\ ticking \in BOOLEAN
  /\ clean \in [t : Nat, b : 0 .. NBuckets]
  /\ clear \in [keys : SUBSET Keys, b : 0 .. NBuckets + 1]

\* A value is one of one key, wherever its copies are.
KeyedValues ==
  \A b, c \in Buckets : \A x \in LiveIn(b), y \in LiveIn(c) : x.v = y.v => x.k = y.k

\* What is still present in a bucket that Clear has collected.
ClearTracks ==
  \A b \in Buckets : b < clear.b => \A x \in LiveIn(b) : x.k \in clear.keys \cup since

StoreInv ==
  /\ Levels /\ Histories /\ Loops /\ KeyedValues
  /\ NoResurrection /\ OneHome /\ Level1Newest /\ NoExpiredHit /\ ClearTracks

LEMMA StoreInvInit == Init => StoreInv
<1> SUFFICES ASSUME Init PROVE StoreInv
  OBVIOUS
<1>1. \A b \in Buckets : l1[b] = <<>> /\ l2[b] = <<>>
  BY DEF Init
<1>2. <<>> \in Seq(NodeSet) /\ Len(<<>>) = 0 /\ Range(<<>>) = {} /\ LiveNodes(<<>>) = {}
  BY DEF Range, LiveNodes
<1>3. GoodList(<<>>)
  BY <1>2 DEF GoodList
<1>4. \A b \in Buckets : LiveIn(b) = {} /\ LiveNodes(l1[b]) = {} /\ LiveNodes(l2[b]) = {}
  BY <1>1, <1>2 DEF LiveIn
<1>5. Levels
  <2>1. l1 \in [Buckets -> Seq(NodeSet)] /\ l2 \in [Buckets -> Seq(NodeSet)]
    BY <1>2 DEF Init
  <2>2. ASSUME NEW b \in Buckets
        PROVE  /\ GoodList(l1[b]) /\ GoodList(l2[b]) /\ Len(l1[b]) <= Cap1 /\ Len(l2[b]) <= Cap2
               /\ Range(l1[b]) \cup Range(l2[b]) = {}
    BY <1>1, <1>2, <1>3, StoreAssumption
  <2> QED
    BY <2>1, <2>2 DEF Levels
<1>6. Histories /\ Loops
  BY StoreAssumption DEF Init, Histories, Loops
<1>7. KeyedValues /\ NoResurrection /\ Level1Newest /\ ClearTracks
  BY <1>4 DEF KeyedValues, NoResurrection, Level1Newest, ClearTracks, LiveIn
<1>8. OneHome
  BY <1>4 DEF OneHome, Vals
<1>9. NoExpiredHit
  BY DEF Init, NoExpiredHit
<1> QED
  BY <1>5, <1>6, <1>7, <1>8, <1>9 DEF StoreInv

\* A step that only removes or moves nodes of one bucket: those of the keys in S go.
Shrinks(b, S) ==
  /\ \E m1, m2 :
       /\ Shrunk(l1[b], m1, S) /\ Shrunk(l2[b], m2, S)
       /\ l1' = [l1 EXCEPT ![b] = m1] /\ l2' = [l2 EXCEPT ![b] = m2]
  /\ \A v \in reported' : v \in reported \/ \E x \in LiveIn(b) : v = x.v /\ x.k \in S
  /\ written' = written /\ latest' = latest /\ since' = since
  /\ floor' \in [Keys -> Nat]
  /\ \A k \in Keys : floor'[k] = floor[k] \/ (floor'[k] = written /\ k \in S /\ Hash[k] = b)
  /\ clear'.b = clear.b
  /\ \A k \in clear.keys : k \in clear'.keys \/ (k \in S /\ Hash[k] = b)

\* What is live afterwards was so before.
Fewer(b, S) ==
  \A c \in Buckets :
    /\ \A x \in LiveNodes(l1'[c]) : x \in LiveNodes(l1[c]) /\ (c = b => x.k \notin S)
    /\ \A x \in LiveNodes(l2'[c]) : x \in LiveNodes(l2[c]) /\ (c = b => x.k \notin S)

LEMMA ShrunkLive ==
  ASSUME NEW l, NEW w, NEW S, GoodList(l), Shrunk(l, w, S)
  PROVE  \A x \in LiveNodes(w) : x \in LiveNodes(l) /\ x.k \notin S
<1> SUFFICES ASSUME NEW x \in LiveNodes(w) PROVE x \in LiveNodes(l) /\ x.k \notin S
  OBVIOUS
<1>1. GoodList(w)
  BY DEF Shrunk
<1>2. x \in Range(w) /\ x.expireAt > 0
  BY <1>1, ListFacts
<1>3. x \in Range(l) /\ x.k \notin S
  BY <1>2 DEF Shrunk
<1> QED
  BY <1>2, <1>3, ListFacts

LEMMA ShrinksLevels ==
  ASSUME Levels, Histories, NEW b \in Buckets, NEW S, Shrinks(b, S)
  PROVE  Levels' /\ Fewer(b, S)
<1>1. PICK m1, m2 : /\ Shrunk(l1[b], m1, S) /\ Shrunk(l2[b], m2, S)
                    /\ l1' = [l1 EXCEPT ![b] = m1] /\ l2' = [l2 EXCEPT ![b] = m2]
  BY Zenon DEF Shrinks
<1>2. /\ GoodList(l1[b]) /\ GoodList(l2[b]) /\ Len(l1[b]) <= Cap1 /\ Len(l2[b]) <= Cap2
      /\ \A x \in Range(l1[b]) \cup Range(l2[b]) : x.v \in 1 .. written /\ Hash[x.k] = b
  BY DEF Levels
<1>3. GoodList(m1) /\ GoodList(m2) /\ Len(m1) = Len(l1[b]) /\ Len(m2) = Len(l2[b])
  BY <1>1 DEF Shrunk
<1>4. l1 \in [Buckets -> Seq(NodeSet)] /\ l2 \in [Buckets -> Seq(NodeSet)] /\ m1 \in Seq(NodeSet) /\ m2 \in Seq(NodeSet)
  BY <1>3 DEF Levels, GoodList
<1>5. /\ l1' \in [Buckets -> Seq(NodeSet)] /\ l2' \in [Buckets -> Seq(NodeSet)]
      /\ l1'[b] = m1 /\ l2'[b] = m2
      /\ \A c \in Buckets : c # b => l1'[c] = l1[c] /\ l2'[c] = l2[c]
  BY <1>1, <1>4
<1>6. \A x \in Range(m1) \cup Range(m2) : x.v \in 1 .. written /\ Hash[x.k] = b
  BY <1>1, <1>2 DEF Shrunk
<1>7. written' = written
  BY DEF Shrinks
<1>8. Levels'
  <2>1. ASSUME NEW c \in Buckets
        PROVE  /\ GoodList(l1'[c]) /\ GoodList(l2'[c]) /\ Len(l1'[c]) <= Cap1 /\ Len(l2'[c]) <= Cap2
               /\ \A x \in Range(l1'[c]) \cup Range(l2'[c]) : x.v \in 1 .. written' /\ Hash[x.k] = c
    <3>1. CASE c = b
      BY <1>2, <1>3, <1>5, <1>6, <1>7, <3>1
    <3>2. CASE c # b
      BY <1>5, <1>7, <3>2 DEF Levels
    <3> QED
      BY <3>1, <3>2
  <2> QED
    BY <1>5, <2>1 DEF Levels, Buckets
<1>9. Fewer(b, S)
  <2>1. ASSUME NEW c \in Buckets
        PROVE  /\ \A x \in LiveNodes(l1'[c]) : x \in LiveNodes(l1[c]) /\ (c = b => x.k \notin S)
               /\ \A x \in LiveNodes(l2'[c]) : x \in LiveNodes(l2[c]) /\ (c = b => x.k \notin S)
    <3>1. CASE c = b
      BY <1>1, <1>2, <1>5, <3>1, ShrunkLive
    <3>2. CASE c # b
      BY <1>5, <3>2
    <3> QED
      BY <3>1, <3>2
  <2> QED
    BY <2>1 DEF Fewer
<1> QED
  BY <1>8, <1>9

\* A live node is one of its bucket's keys.
LEMMA LiveFacts ==
  ASSUME Levels, NEW b \in Buckets, NEW x \in LiveIn(b)
  PROVE  x \in NodeSet /\ x.k \in Keys /\ Hash[x.k] = b /\ x.v \in 1 .. written /\ x.expireAt > 0
<1>1. GoodList(l1[b]) /\ GoodList(l2[b])
  BY DEF Levels
<1>2. x \in Range(l1[b]) \cup Range(l2[b]) /\ x \in NodeSet /\ x.expireAt > 0
  BY <1>1, ListFacts DEF LiveIn
<1>3. x.k \in Keys
  BY <1>2 DEF NodeSet
<1> QED
  BY <1>2, <1>3 DEF Levels

LEMMA ShrinksKeeps ==
  ASSUME StoreInv, NEW b \in Buckets, NEW S, Shrinks(b, S)
  PROVE  /\ Levels' /\ Histories' /\ KeyedValues'
         /\ NoResurrection' /\ OneHome' /\ Level1Newest' /\ ClearTracks'
<1>1. Levels' /\ Fewer(b, S)
  BY ShrinksLevels DEF StoreInv
<1>2. /\ \A c \in Buckets : \A x \in LiveIn(c)' : x \in LiveIn(c) /\ (c = b => x.k \notin S)
      /\ \A c \in Buckets : \A x \in LiveNodes(l1'[c]) : x \in LiveNodes(l1[c])
      /\ \A c \in Buckets : \A x \in LiveNodes(l2'[c]) : x \in LiveNodes(l2[c])
  BY <1>1, Zenon DEF Fewer, LiveIn
<1>3. \A c \in Buckets : \A x \in LiveIn(c) : x.k \in Keys /\ Hash[x.k] = c /\ x.v \in 1 .. written
  BY LiveFacts DEF StoreInv
<1>4. Histories'
  <2>1. written' = written /\ latest' = latest /\ since' = since /\ floor' \in [Keys -> Nat] /\ written \in Nat
    BY DEF StoreInv, Histories, Shrinks
  <2>2. \A k \in Keys : floor'[k] = floor[k] \/ floor'[k] = written
    BY DEF Shrinks
  <2>3. \A k \in Keys : floor'[k] <= written
    BY <2>1, <2>2 DEF StoreInv, Histories
  <2>4. \A v \in reported' : v \in reported \/ \E x \in LiveIn(b) : v = x.v
    BY Zenon DEF Shrinks
  <2>5. \A v \in reported' : v \in 1 .. written
    <3>1. \A v \in reported : v \in 1 .. written
      BY DEF StoreInv, Histories
    <3> QED
      BY <1>3, <2>4, <3>1
  <2> QED
    BY <2>1, <2>3, <2>5 DEF StoreInv, Histories
<1>5. KeyedValues'
  <2>1. ASSUME NEW c \in Buckets, NEW d \in Buckets, NEW x \in LiveIn(c)', NEW y \in LiveIn(d)', x.v = y.v
        PROVE  x.k = y.k
    <3>1. x \in LiveIn(c) /\ y \in LiveIn(d)
      BY <1>2
    <3>2. KeyedValues
      BY DEF StoreInv
    <3> QED
      BY <2>1, <3>1, <3>2 DEF KeyedValues
  <2> QED
    BY <2>1, Zenon DEF KeyedValues, Buckets
<1>6. NoResurrection'
  <2>1. ASSUME NEW c \in Buckets, NEW x \in LiveIn(c)' PROVE x.v > floor'[x.k]
    <3>1. x \in LiveIn(c) /\ x.k \in Keys /\ Hash[x.k] = c /\ (c = b => x.k \notin S)
      BY <1>2, <1>3
    <3>2. floor'[x.k] = floor[x.k]
      BY <3>1, Zenon DEF Shrinks
    <3>3. x.v > floor[x.k]
      BY <3>1, Zenon DEF StoreInv, NoResurrection, LiveIn
    <3> QED
      BY <3>2, <3>3
  <2> QED
    BY <2>1, Zenon DEF NoResurrection, LiveIn, Buckets
<1>7. OneHome'
  <2>1. \A c \in Buckets : \A x \in LiveNodes(l1[c]), y \in LiveNodes(l2[c]) : x.v # y.v
    BY DEF StoreInv, OneHome, Vals
  <2>2. \A c \in Buckets : \A x \in LiveIn(c) : x.v \notin reported
    BY DEF StoreInv, OneHome, Vals, LiveIn
  <2>3. ASSUME NEW c \in Buckets, NEW x \in LiveIn(c)' PROVE x.v \notin reported'
    <3>1. SUFFICES ASSUME x.v \in reported' PROVE FALSE
      OBVIOUS
    <3>2. x \in LiveIn(c) /\ (c = b => x.k \notin S)
      BY <1>2
    <3>3. PICK y \in LiveIn(b) : x.v = y.v /\ y.k \in S
      <4>1. x.v \notin reported
        BY <2>2, <3>2
      <4>2. \A v \in reported' : v \in reported \/ \E y \in LiveIn(b) : v = y.v /\ y.k \in S
        BY Zenon DEF Shrinks
      <4> QED
        BY <3>1, <4>1, <4>2, Zenon
    <3>4. x.k = y.k
      <4>1. KeyedValues
        BY DEF StoreInv
      <4> QED
        BY <3>2, <3>3, <4>1 DEF KeyedValues
    <3>5. c = b
      BY <1>3, <3>2, <3>3, <3>4
    <3> QED
      BY <3>2, <3>3, <3>4, <3>5
  <2>4. \A c \in Buckets : \A x \in LiveNodes(l1'[c]), y \in LiveNodes(l2'[c]) : x.v # y.v
    BY <1>2, <2>1
  <2> QED
    BY <2>3, <2>4 DEF OneHome, Vals, LiveIn, Buckets
<1>8. Level1Newest'
  <2>1. latest' = latest
    BY DEF Shrinks
  <2> QED
    BY <1>2, <2>1, Zenon DEF StoreInv, Level1Newest, Buckets
<1>9. ClearTracks'
  <2>1. ASSUME NEW c \in Buckets, c < clear'.b, NEW x \in LiveIn(c)' PROVE x.k \in clear'.keys \cup since'
    <3>1. x \in LiveIn(c) /\ x.k \in Keys /\ Hash[x.k] = c /\ (c = b => x.k \notin S)
      BY <1>2, <1>3
    <3>2. clear'.b = clear.b /\ since' = since
      BY DEF Shrinks
    <3>3. x.k \in clear.keys \cup since
      BY <2>1, <3>1, <3>2 DEF StoreInv, ClearTracks
    <3> QED
      BY <3>1, <3>2, <3>3, Zenon DEF Shrinks
  <2> QED
    BY <2>1, Zenon DEF ClearTracks, Buckets
<1> QED
  BY <1>1, <1>4, <1>5, <1>6, <1>7, <1>8, <1>9

\* onEvicted is told of a live node (lru2.go:351-357).
LEMMA ReportsIs ==
  ASSUME Levels, NEW b \in Buckets, NEW k
  PROVE  /\ \A v \in DeleteReports(b, k) : \E x \in LiveIn(b) : v = x.v /\ x.k = k
         /\ Live(l2[b], k) => At(l2[b], k) \in LiveIn(b) /\ At(l2[b], k).k = k
<1>1. GoodList(l1[b]) /\ GoodList(l2[b])
  BY DEF Levels
<1>2. Live(l1[b], k) => At(l1[b], k) \in LiveIn(b) /\ At(l1[b], k).k = k
  BY <1>1, LiveIs DEF LiveIn
<1>3. Live(l2[b], k) => At(l2[b], k) \in LiveIn(b) /\ At(l2[b], k).k = k
  BY <1>1, LiveIs DEF LiveIn
<1> QED
  BY <1>2, <1>3 DEF DeleteReports

\* del in both levels (lru2.go:346-348).
LEMMA DelBoth ==
  ASSUME Levels, NEW b \in Buckets, NEW k,
         l1' = [l1 EXCEPT ![b] = Del(@, k)], l2' = [l2 EXCEPT ![b] = Del(@, k)]
  PROVE  \E m1, m2 :
           /\ Shrunk(l1[b], m1, {k}) /\ Shrunk(l2[b], m2, {k})
           /\ l1' = [l1 EXCEPT ![b] = m1] /\ l2' = [l2 EXCEPT ![b] = m2]
<1>1. GoodList(l1[b]) /\ GoodList(l2[b])
  BY DEF Levels
<1>2. Shrunk(l1[b], Del(l1[b], k), {k}) /\ Shrunk(l2[b], Del(l2[b], k), {k})
  BY <1>1, DelIs
<1>3. PICK m1, m2 : m1 = Del(l1[b], k) /\ m2 = Del(l2[b], k)
  OBVIOUS
<1>4. l1' = [l1 EXCEPT ![b] = m1] /\ l2' = [l2 EXCEPT ![b] = m2]
  BY <1>3, Zenon
<1> QED
  BY <1>2, <1>3, <1>4

LEMMA DeleteKeyKeeps ==
  ASSUME StoreInv, NEW k \in Keys, DeleteKey(k)
  PROVE  Shrinks(Hash[k], {k})
<1> DEFINE b == Hash[k]
<1>1. b \in Buckets /\ Levels /\ Histories
  BY StoreAssumption DEF StoreInv, Buckets
<1> HIDE DEF b
<1>2. /\ l1' = [l1 EXCEPT ![b] = Del(@, k)] /\ l2' = [l2 EXCEPT ![b] = Del(@, k)]
      /\ reported' = reported \cup DeleteReports(b, k)
      /\ floor' = [floor EXCEPT ![k] = written]
      /\ written' = written /\ latest' = latest /\ since' = since /\ clear' = clear
  BY DEF DeleteKey, Delete, b
<1>3. \E m1, m2 : /\ Shrunk(l1[b], m1, {k}) /\ Shrunk(l2[b], m2, {k})
                  /\ l1' = [l1 EXCEPT ![b] = m1] /\ l2' = [l2 EXCEPT ![b] = m2]
  BY <1>1, <1>2, DelBoth
<1>4. \A v \in reported' : v \in reported \/ \E x \in LiveIn(b) : v = x.v /\ x.k \in {k}
  BY <1>1, <1>2, ReportsIs
<1>5. floor' \in [Keys -> Nat]
  BY <1>1, <1>2 DEF Histories
<1>6. \A j \in Keys : floor'[j] = floor[j] \/ (floor'[j] = written /\ j \in {k} /\ Hash[j] = b)
  BY <1>1, <1>2 DEF Histories, b
<1>7. Shrinks(b, {k})
  BY <1>2, <1>3, <1>4, <1>5, <1>6, Zenon DEF Shrinks
<1> QED
  BY <1>7 DEF b

LEMMA ClearDeleteKeeps ==
  ASSUME StoreInv, NEW k \in Keys, ClearDelete(k)
  PROVE  Shrinks(Hash[k], {k})
<1> DEFINE b == Hash[k]
<1>1. b \in Buckets /\ Levels /\ Histories
  BY StoreAssumption DEF StoreInv, Buckets
<1>0. clear \in [keys : SUBSET Keys, b : 0 .. NBuckets + 1]
  BY DEF StoreInv, Loops
<1> HIDE DEF b
<1>2. /\ l1' = [l1 EXCEPT ![b] = Del(@, k)] /\ l2' = [l2 EXCEPT ![b] = Del(@, k)]
      /\ reported' = reported \cup DeleteReports(b, k)
      /\ floor' = [floor EXCEPT ![k] = written]
      /\ written' = written /\ latest' = latest /\ since' = since
      /\ clear' = [clear EXCEPT !.keys = @ \ {k}]
  BY DEF ClearDelete, Delete, b
<1>3. \E m1, m2 : /\ Shrunk(l1[b], m1, {k}) /\ Shrunk(l2[b], m2, {k})
                  /\ l1' = [l1 EXCEPT ![b] = m1] /\ l2' = [l2 EXCEPT ![b] = m2]
  BY <1>1, <1>2, DelBoth
<1>4. \A v \in reported' : v \in reported \/ \E x \in LiveIn(b) : v = x.v /\ x.k \in {k}
  BY <1>1, <1>2, ReportsIs
<1>5. floor' \in [Keys -> Nat]
  BY <1>1, <1>2 DEF Histories
<1>6. \A j \in Keys : floor'[j] = floor[j] \/ (floor'[j] = written /\ j \in {k} /\ Hash[j] = b)
  BY <1>1, <1>2 DEF Histories, b
<1>7. clear'.b = clear.b /\ clear'.keys = clear.keys \ {k}
  BY <1>0, <1>2
<1>8. \A j \in clear.keys : j \in clear'.keys \/ (j \in {k} /\ Hash[j] = b)
  BY <1>7 DEF b
<1>9. Shrinks(b, {k})
  BY <1>2, <1>3, <1>4, <1>5, <1>6, <1>7, <1>8, Zenon DEF Shrinks
<1> QED
  BY <1>9 DEF b

LEMMA GetExpiredKeeps ==
  ASSUME StoreInv, NEW k \in Keys, GetExpired(k)
  PROVE  Shrinks(Hash[k], {k})
<1> DEFINE b == Hash[k]
<1>1. b \in Buckets /\ Levels /\ Histories
  BY StoreAssumption DEF StoreInv, Buckets
<1> HIDE DEF b
<1>2. /\ l1' = [l1 EXCEPT ![b] = Del(@, k)] /\ l2' = [l2 EXCEPT ![b] = Del(@, k)]
      /\ reported' = reported \cup (IF Live(l2[b], k) THEN {At(l2[b], k).v} ELSE {})
      /\ floor' = floor /\ written' = written /\ latest' = latest /\ since' = since /\ clear' = clear
  BY DEF GetExpired, b
<1>3. \E m1, m2 : /\ Shrunk(l1[b], m1, {k}) /\ Shrunk(l2[b], m2, {k})
                  /\ l1' = [l1 EXCEPT ![b] = m1] /\ l2' = [l2 EXCEPT ![b] = m2]
  BY <1>1, <1>2, DelBoth
<1>4. \A v \in reported' : v \in reported \/ \E x \in LiveIn(b) : v = x.v /\ x.k \in {k}
  BY <1>1, <1>2, ReportsIs
<1>5. floor' \in [Keys -> Nat]
  BY <1>1, <1>2 DEF Histories
<1>7. Shrinks(b, {k})
  BY <1>2, <1>3, <1>4, <1>5, Zenon DEF Shrinks
<1> QED
  BY <1>7 DEF b

LEMMA GetLevel2Keeps ==
  ASSUME StoreInv, NEW k \in Keys, GetLevel2(k)
  PROVE  Shrinks(Hash[k], {}) /\ NoExpiredHit'
<1> DEFINE b == Hash[k]
<1>1. b \in Buckets /\ Levels /\ Histories
  BY StoreAssumption DEF StoreInv, Buckets
<1> HIDE DEF b
<1>2. /\ l1' = l1 /\ l2' = [l2 EXCEPT ![b] = Touch(@, k)] /\ now' = now
      /\ got' = IF Live(l2[b], k) /\ ~IsExpired(At(l2[b], k), now) THEN {At(l2[b], k)} ELSE {}
      /\ reported' = reported
      /\ floor' = floor /\ written' = written /\ latest' = latest /\ since' = since /\ clear' = clear
  BY DEF GetLevel2, b
<1>3. GoodList(l1[b]) /\ GoodList(l2[b]) /\ l1 \in [Buckets -> Seq(NodeSet)]
  BY <1>1 DEF Levels
<1>4. Shrunk(l1[b], l1[b], {})
  BY <1>3 DEF Shrunk
<1>5. Shrunk(l2[b], Touch(l2[b], k), {})
  BY <1>3, TouchIs
<1>6. l1' = [l1 EXCEPT ![b] = l1[b]] /\ l2' = [l2 EXCEPT ![b] = Touch(l2[b], k)]
  BY <1>1, <1>2, <1>3
<1>7. \E m1, m2 : /\ Shrunk(l1[b], m1, {}) /\ Shrunk(l2[b], m2, {})
                  /\ l1' = [l1 EXCEPT ![b] = m1] /\ l2' = [l2 EXCEPT ![b] = m2]
  BY <1>4, <1>5, <1>6, Zenon
<1>8. floor' \in [Keys -> Nat]
  BY <1>1, <1>2 DEF Histories
<1>9. Shrinks(b, {})
  BY <1>2, <1>7, <1>8, Zenon DEF Shrinks
<1>10. NoExpiredHit'
  <2>1. ASSUME NEW x \in got' PROVE x.expireAt > now'
    <3>1. x = At(l2[b], k) /\ Live(l2[b], k) /\ ~IsExpired(x, now)
      BY <1>2, <2>1, Zenon
    <3>2. x \in LiveIn(b)
      BY <1>1, <3>1, ReportsIs
    <3>3. x \in NodeSet /\ x.expireAt > 0
      BY <1>1, <3>2, LiveFacts
    <3>4. now \in Nat /\ x.expireAt \in Nat
      BY <3>3 DEF NodeSet, StoreInv, Loops
    <3> QED
      BY <1>2, <3>1, <3>3, <3>4 DEF IsExpired
  <2> QED
    BY <2>1 DEF NoExpiredHit
<1> QED
  BY <1>9, <1>10 DEF b

LEMMA CleanupBucketKeeps ==
  ASSUME StoreInv, CleanupBucket
  PROVE  \E S : Shrinks(clean.b, S)
<1>1. PICK b : b = clean.b
  OBVIOUS
<1>2. PICK keys : keys = ExpiredKeys(b, clean.t)
  OBVIOUS
<1>3. b \in Buckets /\ Levels /\ Histories
  BY <1>1 DEF StoreInv, CleanupBucket
<1>4. /\ l1' = [l1 EXCEPT ![b] = DelAll(@, keys)] /\ l2' = [l2 EXCEPT ![b] = DelAll(@, keys)]
      /\ reported' = reported \cup UNION {DeleteReports(b, k) : k \in Range(keys)}
      /\ floor' = floor /\ written' = written /\ latest' = latest /\ since' = since /\ clear' = clear
  BY <1>1, <1>2 DEF CleanupBucket
<1>5. GoodList(l1[b]) /\ GoodList(l2[b])
  BY <1>3 DEF Levels
<1>6. keys \in Seq(Keys)
  <2>1. <<>> \in Seq(Keys)
    OBVIOUS
  <2>2. ExpiredIn(<<>>, l1[b], clean.t) \in Seq(Keys)
    BY <1>5, <2>1, ExpiredInIs
  <2>3. PICK first : first = ExpiredIn(<<>>, l1[b], clean.t)
    OBVIOUS
  <2>4. ExpiredIn(first, l2[b], clean.t) \in Seq(Keys)
    BY <1>5, <2>2, <2>3, ExpiredInIs
  <2> QED
    BY <1>2, <2>3, <2>4 DEF ExpiredKeys
<1>7. Len(keys) \in Nat /\ DOMAIN keys = 1 .. Len(keys)
  BY <1>6, LenProperties
<1>8. PICK S : S = Range(keys)
  OBVIOUS
<1>9. Shrunk(l1[b], DelAll(l1[b], keys), S) /\ Shrunk(l2[b], DelAll(l2[b], keys), S)
  BY <1>5, <1>7, <1>8, DelAllIs
<1>10. l1' = [l1 EXCEPT ![b] = DelAll(l1[b], keys)] /\ l2' = [l2 EXCEPT ![b] = DelAll(l2[b], keys)]
  BY <1>4, Zenon
<1>11. \E m1, m2 : /\ Shrunk(l1[b], m1, S) /\ Shrunk(l2[b], m2, S)
                   /\ l1' = [l1 EXCEPT ![b] = m1] /\ l2' = [l2 EXCEPT ![b] = m2]
  BY <1>9, <1>10, Zenon
<1>12. ASSUME NEW v \in reported', v \notin reported PROVE \E x \in LiveIn(b) : v = x.v /\ x.k \in S
  <2>1. PICK k \in S : v \in DeleteReports(b, k)
    BY <1>4, <1>8, <1>12
  <2> QED
    BY <1>3, <2>1, ReportsIs
<1>13. floor' \in [Keys -> Nat]
  BY <1>3, <1>4 DEF Histories
<1>14. Shrinks(b, S)
  BY <1>4, <1>11, <1>12, <1>13, Zenon DEF Shrinks
<1> QED
  BY <1>1, <1>14

\* What is live in a level that put has changed.
LEMMA EnteredLive ==
  ASSUME NEW l, NEW w, NEW cap, NEW x, GoodList(l), Entered(l, w, cap, x)
  PROVE  \A y \in LiveNodes(w) : y \in Range(w) /\ (y = x \/ (y \in LiveNodes(l) /\ y.k # x.k))
<1> SUFFICES ASSUME NEW y \in LiveNodes(w), y # x PROVE y \in LiveNodes(l) /\ y.k # x.k
  BY ListFacts DEF Entered
<1>1. GoodList(w)
  BY DEF Entered
<1>2. y \in Range(w) /\ y.expireAt > 0
  BY <1>1, ListFacts
<1>3. y \in Range(l) /\ y.k # x.k
  BY <1>2 DEF Entered
<1> QED
  BY <1>2, <1>3, ListFacts

\* Set (lru2.go:97-113): the new value is fresh, so it is nowhere else.
LEMMA SetKeeps ==
  ASSUME StoreInv, NEW k \in Keys, NEW ttl \in TTLs, NEW t \in 1 .. now, SetWithExpiration(k, ttl, t)
  PROVE  StoreInv'
<1>1. PICK b : b = Hash[k]
  OBVIOUS
<1>2. PICK v : v = written + 1
  OBVIOUS
<1>3. PICK e : e = IF ttl > 0 THEN t + ttl ELSE 0
  OBVIOUS
<1>4. PICK w : w = Put(l1[b], Cap1, k, v, e)
  OBVIOUS
<1>5. PICK x : x = Node(k, v, e)
  OBVIOUS
<1>6. /\ l1' = [l1 EXCEPT ![b] = w] /\ l2' = l2 /\ written' = v
      /\ latest' = [latest EXCEPT ![k] = v] /\ floor' = floor
      /\ reported' = reported \cup Vals(Evicts(l1[b], Cap1, k))
      /\ since' = (IF b < clear.b THEN since \cup {k} ELSE since)
      /\ got' = {} /\ now' = now /\ ticking' = ticking /\ clean' = clean /\ clear' = clear
  BY <1>1, <1>2, <1>3, <1>4 DEF SetWithExpiration
<1>7. Levels /\ Histories /\ Loops /\ KeyedValues /\ OneHome
  BY DEF StoreInv
<1>8. /\ b \in Buckets /\ written \in Nat /\ v \in Nat /\ e \in Nat /\ Cap1 \in Nat \ {0}
  BY <1>1, <1>2, <1>3, <1>7, StoreAssumption DEF Histories, Loops, Buckets
<1>9. x \in NodeSet /\ x.k = k /\ x.v = v
  BY <1>5, <1>8 DEF Node, NodeSet
<1>10. /\ GoodList(l1[b]) /\ GoodList(l2[b]) /\ Len(l1[b]) <= Cap1
       /\ l1 \in [Buckets -> Seq(NodeSet)] /\ l2 \in [Buckets -> Seq(NodeSet)]
  BY <1>7, <1>8 DEF Levels
<1>11. /\ Entered(l1[b], w, Cap1, x)
       /\ \A y \in Evicts(l1[b], Cap1, k) :
            y \in LiveNodes(l1[b]) /\ y.k # k /\ \A z \in Range(w) : z.k # y.k
  BY <1>4, <1>5, <1>8, <1>10, PutIs
<1>12. GoodList(w) /\ Len(w) <= Cap1 /\ w \in Seq(NodeSet)
  BY <1>11 DEF Entered, GoodList
<1>13. /\ l1' \in [Buckets -> Seq(NodeSet)] /\ l1'[b] = w
       /\ \A c \in Buckets : c # b => l1'[c] = l1[c]
  BY <1>6, <1>8, <1>10, <1>12
<1>14. \A c \in Buckets : \A y \in LiveIn(c) : y.k \in Keys /\ Hash[y.k] = c /\ y.v \in 1 .. written
  BY <1>7, LiveFacts
<1>15. ASSUME NEW c \in Buckets, NEW y \in LiveNodes(l1'[c])
       PROVE  (y = x /\ c = b) \/ (y \in LiveNodes(l1[c]) /\ y.k # k)
  <2>1. CASE c = b
    BY <1>9, <1>10, <1>11, <1>13, <2>1, EnteredLive
  <2>2. CASE c # b
    <3>1. y \in LiveNodes(l1[c]) /\ y \in LiveIn(c)
      BY <1>13, <2>2 DEF LiveIn
    <3> QED
      BY <1>1, <1>14, <2>2, <3>1
  <2> QED
    BY <2>1, <2>2
<1>16. ASSUME NEW c \in Buckets, NEW y \in LiveIn(c)'
       PROVE  (y = x /\ c = b) \/ y \in LiveIn(c)
  BY <1>6, <1>15 DEF LiveIn
<1>17. Levels'
  <2>1. \A y \in Range(w) : y.v \in 1 .. v /\ Hash[y.k] = b
    <3>1. \A y \in Range(l1[b]) : y.v \in 1 .. written /\ Hash[y.k] = b
      BY <1>7, <1>8 DEF Levels
    <3>2. \A y \in Range(w) : y = x \/ y \in Range(l1[b])
      BY <1>11 DEF Entered
    <3> QED
      BY <1>1, <1>2, <1>8, <1>9, <3>1, <3>2
  <2>2. ASSUME NEW c \in Buckets
        PROVE  /\ GoodList(l1'[c]) /\ GoodList(l2'[c]) /\ Len(l1'[c]) <= Cap1 /\ Len(l2'[c]) <= Cap2
               /\ \A y \in Range(l1'[c]) \cup Range(l2'[c]) : y.v \in 1 .. written' /\ Hash[y.k] = c
    <3>1. /\ GoodList(l1[c]) /\ GoodList(l2[c]) /\ Len(l1[c]) <= Cap1 /\ Len(l2[c]) <= Cap2
          /\ \A y \in Range(l1[c]) \cup Range(l2[c]) : y.v \in 1 .. written /\ Hash[y.k] = c
      BY <1>7 DEF Levels
    <3>2. \A n \in 1 .. written : n \in 1 .. v
      BY <1>2, <1>8
    <3>3. CASE c = b
      BY <1>6, <1>12, <1>13, <2>1, <3>1, <3>2, <3>3
    <3>4. CASE c # b
      BY <1>6, <1>13, <3>1, <3>2, <3>4
    <3> QED
      BY <3>3, <3>4
  <2> QED
    BY <1>6, <1>10, <1>13, <2>2 DEF Levels, Buckets
<1>18. \A y \in Evicts(l1[b], Cap1, k) : y \in LiveIn(b) /\ y.v \in 1 .. written
  BY <1>8, <1>11, <1>14 DEF LiveIn
<1>19. Histories'
  <2>1. latest' \in [Keys -> Nat] /\ since' \subseteq Keys
    BY <1>6, <1>7, <1>8 DEF Histories
  <2>2. \A j \in Keys : floor'[j] <= written'
    BY <1>2, <1>6, <1>7, <1>8 DEF Histories
  <2>3. reported' \subseteq 1 .. written'
    <3>1. \A n \in 1 .. written : n \in 1 .. v
      BY <1>2, <1>8
    <3>2. \A n \in reported' : n \in 1 .. written
      BY <1>6, <1>7, <1>18 DEF Histories, Vals
    <3> QED
      BY <1>6, <3>1, <3>2
  <2> QED
    BY <1>6, <1>7, <1>8, <2>1, <2>2, <2>3 DEF Histories
<1>20. Loops'
  BY <1>6, <1>7 DEF Loops
<1>21. \A c \in Buckets : \A y \in LiveIn(c) : y.v # v
  BY <1>2, <1>8, <1>14
<1>22. KeyedValues'
  <2>1. ASSUME NEW c \in Buckets, NEW d \in Buckets, NEW y \in LiveIn(c)', NEW z \in LiveIn(d)', y.v = z.v
        PROVE  y.k = z.k
    BY <1>7, <1>9, <1>16, <1>21, <2>1 DEF KeyedValues
  <2> QED
    BY <2>1, Zenon DEF KeyedValues, Buckets
<1>23. NoResurrection'
  <2>1. ASSUME NEW c \in Buckets, NEW y \in LiveIn(c)' PROVE y.v > floor'[y.k]
    <3>1. CASE y = x
      BY <1>2, <1>6, <1>7, <1>8, <1>9, <3>1 DEF Histories
    <3>2. CASE y \in LiveIn(c)
      BY <1>6, <3>2 DEF StoreInv, NoResurrection, LiveIn
    <3> QED
      BY <1>16, <3>1, <3>2
  <2> QED
    BY <2>1, Zenon DEF NoResurrection, LiveIn, Buckets
<1>24. /\ \A c \in Buckets : \A y \in LiveNodes(l1[c]), z \in LiveNodes(l2[c]) : y.v # z.v
       /\ \A c \in Buckets : \A y \in LiveIn(c) : y.v \notin reported
  BY <1>7 DEF OneHome, Vals, LiveIn
<1>25. OneHome'
  <2>1. ASSUME NEW c \in Buckets, NEW z \in LiveIn(c)' PROVE z.v \notin reported'
    <3>1. SUFFICES ASSUME z.v \in reported' PROVE FALSE
      OBVIOUS
    <3>2. v \notin reported
      BY <1>2, <1>7, <1>8 DEF Histories
    <3>3. z.v \notin reported
      BY <1>9, <1>16, <1>24, <3>2
    <3>4. PICK y \in Evicts(l1[b], Cap1, k) : z.v = y.v
      BY <1>6, <3>1, <3>3 DEF Vals
    <3>5. z \in LiveIn(c)
      BY <1>8, <1>9, <1>16, <1>18, <1>21, <3>4
    <3>6. z.k = y.k
      BY <1>7, <1>8, <1>18, <3>4, <3>5 DEF KeyedValues
    <3>7. c = b
      BY <1>8, <1>14, <1>18, <3>5, <3>6
    <3>8. CASE z \in LiveNodes(l1'[c])
      <4>1. z \in Range(w)
        BY <1>10, <1>11, <1>13, <3>7, <3>8, EnteredLive
      <4> QED
        BY <1>11, <3>6, <4>1
    <3>9. CASE z \in LiveNodes(l2'[c])
      BY <1>6, <1>8, <1>11, <1>24, <3>4, <3>7, <3>9
    <3> QED
      BY <3>8, <3>9 DEF LiveIn
  <2>2. ASSUME NEW c \in Buckets, NEW y \in LiveNodes(l1'[c]), NEW z \in LiveNodes(l2'[c]) PROVE y.v # z.v
    <3>1. z \in LiveNodes(l2[c]) /\ z \in LiveIn(c)
      BY <1>6 DEF LiveIn
    <3> QED
      BY <1>9, <1>15, <1>21, <1>24, <3>1
  <2> QED
    BY <2>1, <2>2 DEF OneHome, Vals, LiveIn, Buckets
<1>26. Level1Newest'
  <2>1. ASSUME NEW c \in Buckets, NEW y \in LiveNodes(l1'[c]) PROVE y.v = latest'[y.k]
    <3>1. CASE y = x
      BY <1>6, <1>7, <1>9, <3>1 DEF Histories
    <3>2. CASE y \in LiveNodes(l1[c]) /\ y.k # k
      <4>1. y.k \in Keys
        BY <1>14, <3>2 DEF LiveIn
      <4>2. y.v = latest[y.k]
        BY <3>2 DEF StoreInv, Level1Newest
      <4> QED
        BY <1>6, <1>7, <3>2, <4>1, <4>2 DEF Histories
    <3> QED
      BY <1>15, <3>1, <3>2
  <2> QED
    BY <2>1, Zenon DEF Level1Newest, Buckets
<1>27. NoExpiredHit'
  BY <1>6 DEF NoExpiredHit
<1>28. ClearTracks'
  <2>1. ASSUME NEW c \in Buckets, c < clear'.b, NEW y \in LiveIn(c)' PROVE y.k \in clear'.keys \cup since'
    <3>1. CASE y = x /\ c = b
      BY <1>6, <1>9, <2>1, <3>1
    <3>2. CASE y \in LiveIn(c)
      <4>1. y.k \in clear.keys \cup since
        BY <1>6, <2>1, <3>2 DEF StoreInv, ClearTracks
      <4> QED
        BY <1>6, <4>1
    <3> QED
      BY <1>16, <3>1, <3>2
  <2> QED
    BY <2>1, Zenon DEF ClearTracks, Buckets
<1> QED
  BY <1>17, <1>19, <1>20, <1>22, <1>23, <1>25, <1>26, <1>27, <1>28 DEF StoreInv

\* Get of a first-level item (lru2.go:61-75): its value leaves one level and enters the
\* other, where it may replace an older copy and evict another key's.
LEMMA GetMoveKeeps ==
  ASSUME StoreInv, NEW k \in Keys, GetMove(k)
  PROVE  StoreInv'
<1>1. PICK b : b = Hash[k]
  OBVIOUS
<1>2. PICK x : x = At(l1[b], k)
  OBVIOUS
<1>3. PICK m1 : m1 = Del(l1[b], k)
  OBVIOUS
<1>4. PICK m2 : m2 = Put(l2[b], Cap2, k, x.v, x.expireAt)
  OBVIOUS
<1>5. Live(l1[b], k) /\ ~IsExpired(x, now)
  BY <1>1, <1>2 DEF GetMove
<1>6. /\ l1' = [l1 EXCEPT ![b] = m1] /\ l2' = [l2 EXCEPT ![b] = m2]
      /\ reported' = reported \cup Vals(Evicts(l2[b], Cap2, k)) /\ got' = {x}
      /\ UNCHANGED <<now, ticking, clean, clear, written, latest, floor, since>>
  BY <1>1, <1>2, <1>3, <1>4 DEF GetMove
<1>7. Levels /\ Histories /\ Loops /\ KeyedValues /\ OneHome
  BY DEF StoreInv
<1>8. b \in Buckets /\ Cap2 \in Nat \ {0}
  BY <1>1, StoreAssumption DEF Buckets
<1>9. /\ GoodList(l1[b]) /\ GoodList(l2[b]) /\ Len(l1[b]) <= Cap1 /\ Len(l2[b]) <= Cap2
      /\ l1 \in [Buckets -> Seq(NodeSet)] /\ l2 \in [Buckets -> Seq(NodeSet)]
  BY <1>7, <1>8 DEF Levels
<1>10. x \in LiveNodes(l1[b]) /\ x.k = k /\ x \in LiveIn(b)
  BY <1>2, <1>5, <1>9, LiveIs DEF LiveIn
<1>11. x \in NodeSet /\ x.v \in 1 .. written /\ x.expireAt > 0
  BY <1>7, <1>8, <1>10, LiveFacts
<1>12. x.v \in Nat /\ x.expireAt \in Nat /\ Node(k, x.v, x.expireAt) = x
  BY <1>10, <1>11 DEF NodeSet, Node
<1>13. /\ Entered(l2[b], m2, Cap2, x)
       /\ \A y \in Evicts(l2[b], Cap2, k) :
            y \in LiveNodes(l2[b]) /\ y.k # k /\ \A z \in Range(m2) : z.k # y.k
  <2>1. PICK v, e : v = x.v /\ e = x.expireAt
    OBVIOUS
  <2>2. v \in Nat /\ e \in Nat /\ m2 = Put(l2[b], Cap2, k, v, e) /\ x = Node(k, v, e)
    BY <1>4, <1>12, <2>1
  <2> QED
    BY <1>8, <1>9, <2>2, PutIs
<1>14. GoodList(m2) /\ Len(m2) <= Cap2 /\ m2 \in Seq(NodeSet)
  BY <1>13 DEF Entered, GoodList
<1>15. Shrunk(l1[b], m1, {k})
  BY <1>3, <1>9, DelIs
<1>16. GoodList(m1) /\ Len(m1) = Len(l1[b]) /\ m1 \in Seq(NodeSet)
  BY <1>15 DEF Shrunk, GoodList
<1>17. /\ l1' \in [Buckets -> Seq(NodeSet)] /\ l1'[b] = m1
       /\ l2' \in [Buckets -> Seq(NodeSet)] /\ l2'[b] = m2
       /\ \A c \in Buckets : c # b => l1'[c] = l1[c] /\ l2'[c] = l2[c]
  BY <1>6, <1>8, <1>9, <1>14, <1>16
<1>18. \A c \in Buckets : \A y \in LiveIn(c) : y.k \in Keys /\ Hash[y.k] = c /\ y.v \in 1 .. written
  BY <1>7, LiveFacts
<1>19. ASSUME NEW c \in Buckets, NEW y \in LiveNodes(l1'[c]) PROVE y \in LiveNodes(l1[c]) /\ y.k # k
  <2>1. CASE c = b
    BY <1>9, <1>15, <1>17, <2>1, ShrunkLive
  <2>2. CASE c # b
    <3>1. y \in LiveNodes(l1[c]) /\ y \in LiveIn(c)
      BY <1>17, <2>2 DEF LiveIn
    <3> QED
      BY <1>1, <1>18, <2>2, <3>1
  <2> QED
    BY <2>1, <2>2
<1>20. ASSUME NEW c \in Buckets, NEW y \in LiveNodes(l2'[c]) PROVE (y = x /\ c = b) \/ y \in LiveNodes(l2[c])
  <2>1. CASE c = b
    BY <1>9, <1>13, <1>17, <2>1, EnteredLive
  <2>2. CASE c # b
    BY <1>17, <2>2
  <2> QED
    BY <2>1, <2>2
<1>21. ASSUME NEW c \in Buckets, NEW y \in LiveIn(c)' PROVE y \in LiveIn(c)
  BY <1>10, <1>19, <1>20 DEF LiveIn
<1>22. Levels'
  <2>0. /\ \A y \in Range(l1[b]) \cup Range(l2[b]) : y.v \in 1 .. written /\ Hash[y.k] = b
    BY <1>7, <1>8 DEF Levels
  <2>1. \A y \in Range(m2) : y.v \in 1 .. written /\ Hash[y.k] = b
    BY <1>1, <1>10, <1>11, <1>13, <2>0 DEF Entered
  <2>2. \A y \in Range(m1) : y.v \in 1 .. written /\ Hash[y.k] = b
    BY <1>15, <2>0 DEF Shrunk
  <2>3. ASSUME NEW c \in Buckets
        PROVE  /\ GoodList(l1'[c]) /\ GoodList(l2'[c]) /\ Len(l1'[c]) <= Cap1 /\ Len(l2'[c]) <= Cap2
               /\ \A y \in Range(l1'[c]) \cup Range(l2'[c]) : y.v \in 1 .. written' /\ Hash[y.k] = c
    <3>1. CASE c = b
      BY <1>6, <1>9, <1>14, <1>16, <1>17, <2>1, <2>2, <3>1
    <3>2. CASE c # b
      BY <1>6, <1>7, <1>17, <3>2 DEF Levels
    <3> QED
      BY <3>1, <3>2
  <2> QED
    BY <1>17, <2>3 DEF Levels, Buckets
<1>23. \A y \in Evicts(l2[b], Cap2, k) : y \in LiveIn(b) /\ y.v \in 1 .. written
  BY <1>8, <1>13, <1>18 DEF LiveIn
<1>24. Histories'
  <2>1. \A n \in reported' : n \in 1 .. written
    BY <1>6, <1>7, <1>23 DEF Histories, Vals
  <2> QED
    BY <1>6, <1>7, <2>1 DEF Histories
<1>25. Loops'
  BY <1>6, <1>7 DEF Loops
<1>26. KeyedValues'
  <2>1. ASSUME NEW c \in Buckets, NEW d \in Buckets, NEW y \in LiveIn(c)', NEW z \in LiveIn(d)', y.v = z.v
        PROVE  y.k = z.k
    BY <1>7, <1>21, <2>1 DEF KeyedValues
  <2> QED
    BY <2>1, Zenon DEF KeyedValues, Buckets
<1>27. NoResurrection'
  <2>1. ASSUME NEW c \in Buckets, NEW y \in LiveIn(c)' PROVE y.v > floor'[y.k]
    <3>1. y \in LiveIn(c)
      BY <1>21
    <3> QED
      BY <1>6, <3>1 DEF StoreInv, NoResurrection, LiveIn
  <2> QED
    BY <2>1, Zenon DEF NoResurrection, LiveIn, Buckets
<1>28. /\ \A c \in Buckets : \A y \in LiveNodes(l1[c]), z \in LiveNodes(l2[c]) : y.v # z.v
       /\ \A c \in Buckets : \A y \in LiveIn(c) : y.v \notin reported
  BY <1>7 DEF OneHome, Vals, LiveIn
<1>29. OneHome'
  <2>1. ASSUME NEW c \in Buckets, NEW z \in LiveIn(c)' PROVE z.v \notin reported'
    <3>1. SUFFICES ASSUME z.v \in reported' PROVE FALSE
      OBVIOUS
    <3>2. z \in LiveIn(c) /\ z.v \notin reported
      BY <1>21, <1>28
    <3>3. PICK y \in Evicts(l2[b], Cap2, k) : z.v = y.v
      BY <1>6, <3>1, <3>2 DEF Vals
    <3>4. z.k = y.k
      BY <1>7, <1>8, <1>23, <3>2, <3>3 DEF KeyedValues
    <3>5. c = b
      BY <1>8, <1>18, <1>23, <3>2, <3>4
    <3>6. CASE z \in LiveNodes(l2'[c])
      <4>1. z \in Range(m2)
        BY <1>9, <1>13, <1>17, <3>5, <3>6, EnteredLive
      <4> QED
        BY <1>13, <3>4, <4>1
    <3>7. CASE z \in LiveNodes(l1'[c])
      <4>1. z \in LiveNodes(l1[c])
        BY <1>19, <3>7
      <4> QED
        BY <1>8, <1>13, <1>28, <3>3, <3>5, <4>1
    <3> QED
      BY <3>6, <3>7 DEF LiveIn
  <2>2. ASSUME NEW c \in Buckets, NEW y \in LiveNodes(l1'[c]), NEW z \in LiveNodes(l2'[c]), y.v = z.v PROVE FALSE
    <3>1. y \in LiveNodes(l1[c]) /\ y.k # k /\ y \in LiveIn(c)
      BY <1>19 DEF LiveIn
    <3>2. CASE z = x
      <4>1. y.k = x.k
        BY <1>7, <1>8, <1>10, <2>2, <3>1, <3>2 DEF KeyedValues
      <4> QED
        BY <1>10, <3>1, <4>1
    <3>3. CASE z \in LiveNodes(l2[c])
      BY <1>28, <2>2, <3>1, <3>3
    <3> QED
      BY <1>20, <3>2, <3>3
  <2> QED
    BY <2>1, <2>2 DEF OneHome, Vals, LiveIn, Buckets
<1>30. Level1Newest'
  <2>1. ASSUME NEW c \in Buckets, NEW y \in LiveNodes(l1'[c]) PROVE y.v = latest'[y.k]
    <3>1. y \in LiveNodes(l1[c])
      BY <1>19
    <3> QED
      BY <1>6, <3>1 DEF StoreInv, Level1Newest
  <2> QED
    BY <2>1, Zenon DEF Level1Newest, Buckets
<1>31. NoExpiredHit'
  <2>1. now \in Nat
    BY <1>7 DEF Loops
  <2>2. x.expireAt > now
    BY <1>5, <1>11, <1>12, <2>1 DEF IsExpired
  <2> QED
    BY <1>6, <2>2 DEF NoExpiredHit
<1>32. ClearTracks'
  <2>1. ASSUME NEW c \in Buckets, c < clear'.b, NEW y \in LiveIn(c)' PROVE y.k \in clear'.keys \cup since'
    <3>1. y \in LiveIn(c)
      BY <1>21
    <3> QED
      BY <1>6, <2>1, <3>1 DEF StoreInv, ClearTracks
  <2> QED
    BY <2>1, Zenon DEF ClearTracks, Buckets
<1> QED
  BY <1>22, <1>24, <1>25, <1>26, <1>27, <1>29, <1>30, <1>31, <1>32 DEF StoreInv

\* Steps that leave the levels alone.
LEMMA LevelsStay ==
  ASSUME StoreInv, UNCHANGED <<l1, l2, written, latest, floor, reported>>, since' \subseteq Keys
  PROVE  Levels' /\ Histories' /\ KeyedValues' /\ NoResurrection' /\ OneHome' /\ Level1Newest'
<1>1. Levels'
  BY DEF StoreInv, Levels, Buckets
<1>2. Histories'
  BY DEF StoreInv, Histories
<1>3. KeyedValues'
  BY DEF StoreInv, KeyedValues, LiveIn, Buckets
<1>4. NoResurrection' /\ OneHome' /\ Level1Newest'
  BY DEF StoreInv, NoResurrection, OneHome, Level1Newest, Buckets
<1> QED
  BY <1>1, <1>2, <1>3, <1>4

\* Clear collects what is live in the bucket (lru2.go:128-147).
LEMMA ClearCollectKeeps ==
  ASSUME StoreInv, ClearCollect
  PROVE  Loops' /\ ClearTracks'
<1>1. PICK b : b = clear.b
  OBVIOUS
<1>2. clear \in [keys : SUBSET Keys, b : 0 .. NBuckets + 1] /\ b \in Buckets /\ Levels /\ Loops
  BY <1>1 DEF StoreInv, Loops, ClearCollect
<1>3. clear' = [keys |-> clear.keys \cup LiveKeys(b), b |-> b + 1] /\ l1' = l1 /\ l2' = l2 /\ since' = since
  BY <1>1 DEF ClearCollect
<1>4. LiveKeys(b) \subseteq Keys
  BY DEF LiveKeys
<1>5. b + 1 \in 0 .. NBuckets + 1
  BY <1>2, StoreAssumption DEF Buckets
<1>6. clear' \in [keys : SUBSET Keys, b : 0 .. NBuckets + 1]
  BY <1>2, <1>3, <1>4, <1>5
<1>7. Loops'
  BY <1>2, <1>6 DEF Loops, ClearCollect
<1>8. ASSUME NEW x \in LiveIn(b) PROVE x.k \in LiveKeys(b)
  <2>1. GoodList(l1[b]) /\ GoodList(l2[b]) /\ x.k \in Keys
    BY <1>2, LiveFacts DEF Levels
  <2>2. Live(l1[b], x.k) \/ Live(l2[b], x.k)
    BY <2>1, LiveIs DEF LiveIn
  <2> QED
    BY <2>1, <2>2 DEF LiveKeys
<1>9. ASSUME NEW c \in Buckets, c < clear'.b, NEW x \in LiveIn(c)' PROVE x.k \in clear'.keys \cup since'
  <2>1. x \in LiveIn(c)
    BY <1>3 DEF LiveIn
  <2>2. c = b \/ c < clear.b
    BY <1>1, <1>2, <1>3, <1>9 DEF Buckets
  <2>3. CASE c = b
    BY <1>3, <1>8, <2>1, <2>3
  <2>4. CASE c < clear.b
    <3>1. x.k \in clear.keys \cup since
      BY <2>1, <2>4 DEF StoreInv, ClearTracks
    <3> QED
      BY <1>3, <3>1
  <2> QED
    BY <2>2, <2>3, <2>4
<1> QED
  BY <1>7, <1>9 DEF ClearTracks, Buckets

LEMMA StoreInvStep == StoreInv /\ [Next]_vars => StoreInv'
<1> SUFFICES ASSUME StoreInv, [Next]_vars PROVE StoreInv'
  OBVIOUS
<1>1. /\ clear \in [keys : SUBSET Keys, b : 0 .. NBuckets + 1] /\ clean \in [t : Nat, b : 0 .. NBuckets]
      /\ now \in 1 .. MaxTime /\ ticking \in BOOLEAN /\ NBuckets \in Nat \ {0} /\ MaxTime \in Nat \ {0}
      /\ since \subseteq Keys
  BY StoreAssumption DEF StoreInv, Loops, Histories
<1>2. \A k \in Keys : Hash[k] \in Buckets
  BY StoreAssumption DEF Buckets
<1>3. ASSUME NEW b \in Buckets, NEW S, Shrinks(b, S), Loops', NoExpiredHit' PROVE StoreInv'
  BY <1>3, ShrinksKeeps DEF StoreInv
<1>4. ASSUME got' = {} PROVE NoExpiredHit'
  BY <1>4 DEF NoExpiredHit
<1>5. ASSUME UNCHANGED <<l1, l2, written, latest, floor, reported>>, since' \subseteq Keys,
             Loops', NoExpiredHit', ClearTracks'
      PROVE  StoreInv'
  BY <1>5, LevelsStay DEF StoreInv
<1>6. ASSUME UNCHANGED <<l1, l2, clear, since>> PROVE ClearTracks'
  BY <1>6 DEF StoreInv, ClearTracks, LiveIn, Buckets
<1>7. ASSUME NEW k \in Keys, DeleteKey(k) PROVE StoreInv'
  <2>1. Loops' /\ got' = {}
    BY <1>1, <1>7 DEF DeleteKey, Loops
  <2> QED
    BY <1>2, <1>3, <1>4, <1>7, <2>1, DeleteKeyKeeps
<1>8. ASSUME NEW k \in Keys, ClearDelete(k) PROVE StoreInv'
  <2>1. Loops' /\ got' = {}
    BY <1>1, <1>8 DEF ClearDelete, Loops
  <2> QED
    BY <1>2, <1>3, <1>4, <1>8, <2>1, ClearDeleteKeeps
<1>9. ASSUME NEW k \in Keys, GetExpired(k) PROVE StoreInv'
  <2>1. Loops' /\ got' = {}
    BY <1>1, <1>9 DEF GetExpired, Loops
  <2> QED
    BY <1>2, <1>3, <1>4, <1>9, <2>1, GetExpiredKeeps
<1>10. ASSUME NEW k \in Keys, GetLevel2(k) PROVE StoreInv'
  <2>1. Loops'
    BY <1>1, <1>10 DEF GetLevel2, Loops
  <2> QED
    BY <1>2, <1>3, <1>10, <2>1, GetLevel2Keeps
<1>11. ASSUME CleanupBucket PROVE StoreInv'
  <2>1. clean.b \in Buckets /\ got' = {} /\ UNCHANGED <<now, ticking, clear>>
    BY <1>11 DEF CleanupBucket
  <2>2. clean' = IF clean.b = NBuckets THEN [t |-> 0, b |-> 0] ELSE [clean EXCEPT !.b = clean.b + 1]
    BY <1>11 DEF CleanupBucket
  <2>3. clean' \in [t : Nat, b : 0 .. NBuckets]
    BY <1>1, <2>1, <2>2 DEF Buckets
  <2>4. Loops'
    BY <1>1, <2>1, <2>3 DEF Loops
  <2> QED
    BY <1>3, <1>4, <1>11, <2>1, <2>4, CleanupBucketKeeps
<1>12. ASSUME ClearStart PROVE StoreInv'
  <2>1. /\ UNCHANGED <<l1, l2, written, latest, floor, reported, now, ticking, clean>>
        /\ since' = {} /\ got' = {} /\ clear' = [keys |-> {}, b |-> 1]
    BY <1>12 DEF ClearStart
  <2>2. Loops'
    BY <1>1, <2>1 DEF Loops
  <2>3. ClearTracks'
    BY <2>1 DEF ClearTracks, Buckets
  <2> QED
    BY <1>4, <1>5, <2>1, <2>2, <2>3
<1>13. ASSUME ClearCollect PROVE StoreInv'
  <2>1. UNCHANGED <<l1, l2, written, latest, floor, reported, since>> /\ got' = {}
    BY <1>13 DEF ClearCollect
  <2>2. Loops' /\ ClearTracks'
    BY <1>13, ClearCollectKeeps
  <2> QED
    BY <1>1, <1>4, <1>5, <2>1, <2>2
<1>14. ASSUME ClearReturn PROVE StoreInv'
  <2>1. /\ UNCHANGED <<l1, l2, written, latest, floor, reported, now, ticking, clean>>
        /\ since' = {} /\ got' = {} /\ clear' = [keys |-> {}, b |-> 0]
    BY <1>14 DEF ClearReturn
  <2>2. Loops'
    BY <1>1, <2>1 DEF Loops
  <2>3. ClearTracks'
    BY <2>1 DEF ClearTracks, Buckets
  <2> QED
    BY <1>4, <1>5, <2>1, <2>2, <2>3
<1>15. ASSUME CleanupTick PROVE StoreInv'
  <2>1. /\ UNCHANGED <<l1, l2, written, latest, floor, reported, now, ticking, clear, since>>
        /\ got' = {} /\ clean' = [t |-> now, b |-> 1]
    BY <1>15 DEF CleanupTick
  <2>2. Loops'
    BY <1>1, <2>1 DEF Loops
  <2> QED
    BY <1>1, <1>4, <1>5, <1>6, <2>1, <2>2
<1>16. ASSUME Close PROVE StoreInv'
  <2>1. /\ UNCHANGED <<l1, l2, written, latest, floor, reported, now, clean, clear, since>>
        /\ got' = {} /\ ticking' = FALSE
    BY <1>16 DEF Close
  <2>2. Loops'
    BY <1>1, <2>1 DEF Loops
  <2> QED
    BY <1>1, <1>4, <1>5, <1>6, <2>1, <2>2
<1>17. ASSUME Tick PROVE StoreInv'
  <2>1. /\ UNCHANGED <<l1, l2, written, latest, floor, reported, ticking, clean, clear, since>>
        /\ got' = {} /\ now < MaxTime /\ now' = now + 1
    BY <1>17 DEF Tick
  <2>2. Loops'
    BY <1>1, <2>1 DEF Loops
  <2> QED
    BY <1>1, <1>4, <1>5, <1>6, <2>1, <2>2
<1>18. ASSUME UNCHANGED vars PROVE StoreInv'
  <2>1. UNCHANGED <<l1, l2, now, ticking, clean, clear, written, latest, floor, reported, got, since>>
    BY <1>18 DEF vars
  <2>2. Loops'
    BY <1>1, <2>1 DEF Loops
  <2>3. NoExpiredHit'
    BY <2>1 DEF StoreInv, NoExpiredHit
  <2> QED
    BY <1>1, <1>5, <1>6, <2>1, <2>2, <2>3
<1>19. ASSUME NEW k \in Keys, NEW ttl \in TTLs, NEW t \in 1 .. now, SetWithExpiration(k, ttl, t) PROVE StoreInv'
  BY <1>19, SetKeeps
<1>20. ASSUME NEW k \in Keys, GetMove(k) PROVE StoreInv'
  BY <1>20, GetMoveKeeps
<1> QED
  BY <1>7, <1>8, <1>9, <1>10, <1>11, <1>12, <1>13, <1>14, <1>15, <1>16, <1>17, <1>18, <1>19, <1>20 DEF Next

\* For every number of buckets and keys, every capacity of the two levels and every
\* interleaving of Set, Get, Delete, Clear and the sweep (lru2.go:53-183, 346-402): no
\* deleted key comes back, a value has one home, the first level has the latest
\* one, a Get returns nothing expired, and Clear leaves only what was Set meanwhile.
THEOREM StoreSoundAlways == Spec => []StoreSound
<1>1. StoreInv => StoreSound
  <2> SUFFICES ASSUME StoreInv PROVE StoreSound
    OBVIOUS
  <2>1. TypeOK
    BY StoreAssumption DEF StoreInv, Levels, Loops, TypeOK
  <2>2. ClearEmpties
    <3>1. ASSUME clear.b > NBuckets, NEW b \in Buckets PROVE b < clear.b
      BY <3>1, StoreAssumption DEF Buckets, StoreInv, Loops
    <3> QED
      BY <3>1 DEF StoreInv, ClearTracks, ClearEmpties, LiveIn
  <2> QED
    BY <2>1, <2>2 DEF StoreInv, StoreSound
<1> QED
  BY <1>1, StoreInvInit, StoreInvStep, PTL DEF Spec
=============================================================================
