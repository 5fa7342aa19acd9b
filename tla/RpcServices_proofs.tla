------------------------- MODULE RpcServices_proofs -------------------------
(***************************************************************************)
(* Proofs about RpcRegistry and RpcServer: for any servers, timeouts and   *)
(* lists of requests, whatever the order of heartbeats, timers, calls and  *)
(* answers.                                                                *)
(***************************************************************************)
EXTENDS MCRpcServices, FiniteSetTheorems, TLAPS

-----------------------------------------------------------------------------
\* The registry, the discovery and broadcasts (RpcRegistry).

RegistryTypeOK ==
  /\ now \in Nat
  /\ start \in [Servers -> Nat \cup {None}]
  /\ beat \in [Servers -> {"off", "on", "stopped"}]
  /\ due \in [Servers -> Nat]
  /\ servers \in SUBSET Servers
  /\ updated \in Nat \cup {None}
  /\ next \in Nat
  /\ conn \in [Servers -> {"none", "up", "down"}]
  /\ cast \in {"idle", "running", "over"}
  /\ result \in [Servers -> {"none", "todo", "calling", "ok", "err", "canceled"}]
  /\ firstErr \in Servers \cup {None}
  /\ reply \in Servers \cup {None}
  /\ got \in [server : Servers \cup {None}, silent : Int]

\* The ticker of a server that beats was set when the registry last heard of it,
\* and the clock does not pass it (registry.go:98-113).
BeatKept ==
  \A s \in Servers : beat[s] = "on" =>
    start[s] # None /\ due[s] = start[s] + Every /\ now <= due[s]

\* What the discovery holds a copy of was alive when it was copied, and the
\* registry has not dropped it since (discovery_sonnet.go:27-61).
CopyWasAlive ==
  /\ updated # None => updated <= now
  /\ servers # {} => updated # None
  /\ \A s \in servers : start[s] # None /\ updated < start[s] + Timeout

\* Before it starts a broadcast has no calls.  While it runs, calls that returned an error, or were
\* canceled, left an error behind, which is a server's own; those that returned
\* without one left a reply (client.go:76-109).
CastKept ==
  /\ cast = "idle" => \A s \in Servers : result[s] = "none"
  /\ cast = "over" => \A s \in Servers : result[s] \notin {"todo", "calling"}
  /\ firstErr # None => result[firstErr] = "err"
  /\ reply # None => result[reply] = "ok"
  /\ \A s \in Servers : result[s] \in {"err", "canceled"} => firstErr # None
  /\ \A s \in Servers : result[s] = "ok" => reply # None

RegistryInv ==
  /\ RegistryTypeOK /\ BeatKept /\ CopyWasAlive /\ CastKept
  /\ got.silent < Timeout + Update

\* Nth (the round robin of discovery.go:55-68) is defined for every index below
\* the number of servers and yields one of them.
LEMMA NthInSet ==
  ASSUME NEW S0 \in SUBSET Nat, IsFiniteSet(S0), NEW i \in Nat, i < Cardinality(S0)
  PROVE  Nth(S0, i) \in S0
<1> DEFINE Below(s) == {t \in S0 : t < s}
           R == OpToRel(<, Nat)
           Missing == {j \in Nat : j < Cardinality(S0) /\ ~ \E s \in S0 : Cardinality(Below(s)) = j}
<1>1. \A x, y \in Nat : y < x => <<y, x>> \in R
  BY DEF OpToRel
<1>2. IsWellFoundedOn(R, Nat)
  BY NatLessThanWellFounded
<1>3. Cardinality(S0) \in Nat
  BY FS_CardinalityType
<1>4. \A s : IsFiniteSet(Below(s)) /\ Cardinality(Below(s)) \in Nat
  BY FS_Subset, FS_CardinalityType
<1> HIDE DEF R
<1>5. ASSUME NEW T \in SUBSET S0, T # {}
      PROVE  \E s \in T : \A t \in T : s <= t
  <2>1. T \subseteq Nat /\ T # {}
    BY <1>5
  <2>2. PICK x \in T : \A y \in T : ~(<<y, x>> \in R)
    BY <2>1, <1>2, WFMin
  <2>3. ASSUME NEW y \in T PROVE x <= y
    <3>1. x \in Nat /\ y \in Nat
      BY <2>1
    <3>2. ~(y < x)
      BY <3>1, <1>1, <2>2
    <3> QED
      BY <3>1, <3>2
  <2> QED
    BY <2>3
<1>6. ASSUME Missing # {} PROVE FALSE
  <2>1. PICK j \in Missing : \A y \in Missing : ~(<<y, j>> \in R)
    BY <1>6, <1>2, WFMin
  <2>2. j \in Nat /\ j < Cardinality(S0) /\ ~ \E s \in S0 : Cardinality(Below(s)) = j
    OBVIOUS
  <2>3. CASE j = 0
    <3>1. S0 # {}
      BY <2>2, <2>3, FS_EmptySet
    <3>2. PICK s \in S0 : \A t \in S0 : s <= t
      BY <3>1, <1>5
    <3>3. Below(s) = {}
      <4>1. ASSUME NEW t \in S0 PROVE ~(t < s)
        <5>1. t \in Nat /\ s \in Nat /\ s <= t
          BY <3>2
        <5> QED
          BY <5>1
      <4> QED
        BY <4>1
    <3> QED
      BY <3>3, <2>2, <2>3, FS_EmptySet
  <2>4. CASE j # 0
    <3>1. j - 1 \in Nat /\ j - 1 < Cardinality(S0) /\ j - 1 < j
      BY <2>4, <2>2, <1>3
    <3>2. j - 1 \notin Missing
      BY <3>1, <2>1, <2>2, <1>1
    <3>3. PICK s \in S0 : Cardinality(Below(s)) = j - 1
      BY <3>1, <3>2
    <3> DEFINE Low == Below(s) \cup {s}
               High == S0 \ Low
    <3>4. IsFiniteSet(Low) /\ Cardinality(Low) = j
      <4>1. s \notin Below(s)
        <5>1. s \in Nat
          OBVIOUS
        <5>2. ~(s < s)
          BY <5>1
        <5> QED
          BY <5>2
      <4>2. IsFiniteSet(Below(s))
        BY <1>4
      <4> HIDE DEF Below
      <4>3. IsFiniteSet(Low) /\ Cardinality(Low) = Cardinality(Below(s)) + 1
        BY <4>1, <4>2, FS_AddElement
      <4> QED
        BY <4>3, <3>3, <2>2
    <3>5. High # {}
      <4> SUFFICES ASSUME High = {} PROVE FALSE
        OBVIOUS
      <4>1. Low = S0
        OBVIOUS
      <4> HIDE DEF Low
      <4> QED
        BY <4>1, <3>4, <2>2
    <3>6. PICK n \in High : \A t \in High : n <= t
      BY <3>5, <1>5
    <3>7. n \in S0 /\ s < n
      <4>1. n \in S0 /\ n \notin Low
        BY <3>6
      <4>2. n # s /\ ~(n < s) /\ n \in Nat /\ s \in Nat
        BY <4>1
      <4> QED
        BY <4>1, <4>2
    <3>8. Below(n) = Low
      <4>1. ASSUME NEW t \in S0 PROVE t < n <=> t \in Low
        <5>1. t \in Nat /\ n \in Nat /\ s \in Nat
          BY <3>7
        <5>2. CASE t \in Low
          <6>1. t < s \/ t = s
            BY <5>2
          <6> QED
            BY <5>1, <5>2, <6>1, <3>7
        <5>3. CASE t \notin Low
          <6>1. n <= t
            BY <5>3, <3>6
          <6> QED
            BY <5>1, <5>3, <6>1
        <5> QED
          BY <5>2, <5>3
      <4>2. Low \subseteq S0
        OBVIOUS
      <4> QED
        BY <4>1, <4>2
    <3> QED
      BY <3>8, <3>7, <3>4, <2>2
  <2> QED
    BY <2>3, <2>4
<1>7. \E s \in S0 : Cardinality(Below(s)) = i
  BY <1>6
<1> QED
  BY <1>7 DEF Nth

\* A system that starts satisfies the invariant.
LEMMA RegistryInit == Init => RegistryInv
<1> SUFFICES ASSUME Init PROVE RegistryInv
  OBVIOUS
<1> USE RegistryAssumption DEF Init
<1>1. Cardinality(Servers) \in Nat
  BY FS_CardinalityType
<1>2. RegistryTypeOK
  BY <1>1 DEF RegistryTypeOK
<1>3. BeatKept /\ CopyWasAlive /\ CastKept
  BY DEF BeatKept, CopyWasAlive, CastKept
<1>4. got.silent < Timeout + Update
  OBVIOUS
<1> QED
  BY <1>2, <1>3, <1>4 DEF RegistryInv

\* Refresh (discovery_sonnet.go:27-61) keeps the copy sound, and forgets nobody
\* who beats: the registry drops a server only when its ticker must have fired.
LEMMA RefreshKeeps ==
  ASSUME RegistryInv, Refresh, UNCHANGED <<now, beat, due>>
  PROVE  /\ start' \in [Servers -> Nat \cup {None}]
         /\ servers' \in SUBSET Servers
         /\ updated' \in Nat \cup {None}
         /\ BeatKept' /\ CopyWasAlive'
         /\ \A s \in servers' : start[s] \in Nat /\ now - start[s] < Timeout + Update
<1> USE RegistryAssumption DEF RegistryInv, RegistryTypeOK
<1>1. CASE Recent /\ UNCHANGED <<start, servers, updated>>
  <2>1. BeatKept' /\ CopyWasAlive'
    BY <1>1 DEF BeatKept, CopyWasAlive
  <2>2. ASSUME NEW s \in servers' PROVE start[s] \in Nat /\ now - start[s] < Timeout + Update
    <3>1. s \in servers /\ s \in Servers /\ updated \in Nat /\ updated + Update > now
      BY <1>1 DEF Recent
    <3>2. start[s] \in Nat /\ updated < start[s] + Timeout
      BY <3>1 DEF CopyWasAlive
    <3> QED
      BY <3>1, <3>2
  <2> QED
    BY <1>1, <2>1, <2>2
<1>2. CASE ~Recent /\ ServeHTTP /\ updated' = now
  <2>1. servers' = Alive /\ Alive \subseteq Servers
    BY <1>2 DEF ServeHTTP, Alive
  <2>2. start' = [s \in Servers |-> IF s \in Alive THEN start[s] ELSE None]
    BY <1>2 DEF ServeHTTP
  <2>3. \A s \in Alive : start[s] \in Nat /\ start[s] + Timeout > now
    BY DEF Alive
  <2>4. start' \in [Servers -> Nat \cup {None}]
    BY <2>2
  <2>5. BeatKept'
    <3> SUFFICES ASSUME NEW s \in Servers, beat[s] = "on"
                 PROVE  start'[s] # None /\ due[s] = start'[s] + Every /\ now <= due[s]
      BY DEF BeatKept
    <3>1. start[s] \in Nat /\ due[s] = start[s] + Every /\ now <= due[s]
      BY DEF BeatKept
    <3>2. start[s] + Timeout > now
      BY <3>1
    <3>3. s \in Alive
      BY <3>1, <3>2 DEF Alive
    <3> QED
      BY <3>1, <3>3, <2>2
  <2>6. CopyWasAlive'
    BY <1>2, <2>1, <2>2, <2>3 DEF CopyWasAlive
  <2>7. \A s \in servers' : start[s] \in Nat /\ now - start[s] < Timeout + Update
    BY <2>1, <2>3
  <2> QED
    BY <1>2, <2>1, <2>4, <2>5, <2>6, <2>7
<1> QED
  BY <1>1, <1>2 DEF Refresh

\* Heartbeats, servers that come and go, and the clock (registry.go:88-126).
LEMMA TimeKeeps ==
  ASSUME RegistryInv, NEW s \in Servers, Heartbeat(s) \/ Leave(s) \/ Tick
  PROVE  RegistryInv'
<1> USE RegistryAssumption DEF RegistryInv, RegistryTypeOK, listVars, castVars
<1>1. CASE Heartbeat(s)
  <2>1. CastKept' /\ UNCHANGED <<now, listVars, castVars, got, conn>>
    BY <1>1 DEF Heartbeat, CastKept
  <2>2. BeatKept' /\ RegistryTypeOK'
    BY <1>1 DEF Heartbeat, SendHeartbeat, PutServer, BeatKept
  <2>3. CopyWasAlive'
    <3>2. CASE UNCHANGED start
      BY <3>2, <2>1 DEF CopyWasAlive
    <3>3. CASE PutServer(s)
      <4>1. servers # {} => updated \in Nat
        BY DEF CopyWasAlive
      <4> QED
        BY <3>3, <2>1, <4>1 DEF CopyWasAlive, PutServer
    <3> QED
      BY <1>1, <3>2, <3>3 DEF Heartbeat, SendHeartbeat
  <2> QED
    BY <2>1, <2>2, <2>3
<1>2. CASE Leave(s)
  BY <1>2 DEF Leave, BeatKept, CopyWasAlive, CastKept
<1>3. CASE Tick
  BY <1>3 DEF Tick, BeatKept, CopyWasAlive, CastKept
<1> QED
  BY <1>1, <1>2, <1>3

\* Get and Call (client/discovery.go:55-68, client.go:120-157): what is handed out
\* has been silent for less than both timeouts.
LEMMA GetKeeps ==
  ASSUME RegistryInv, Get \/ Call
  PROVE  RegistryInv'
<1> USE RegistryAssumption DEF RegistryInv, RegistryTypeOK, listVars, castVars
<1>1. CASE Get
  <2>1. Refresh /\ UNCHANGED <<now, beat, due, conn, castVars>>
    BY <1>1 DEF Get
  <2>2. /\ start' \in [Servers -> Nat \cup {None}]
        /\ servers' \in SUBSET Servers
        /\ updated' \in Nat \cup {None}
        /\ BeatKept' /\ CopyWasAlive'
        /\ \A s \in servers' : start[s] \in Nat /\ now - start[s] < Timeout + Update
    BY <2>1, RefreshKeeps
  <2>3. CastKept'
    BY <2>1 DEF CastKept
  <2> DEFINE n == Cardinality(servers')
  <2>4. IsFiniteSet(servers') /\ n \in Nat
    BY <2>2, FS_Subset, FS_CardinalityType
  <2>5. ASSUME NEW s \in servers', Took(s)
        PROVE  got' \in [server : Servers \cup {None}, silent : Int] /\ got'.silent < Timeout + Update
    BY <2>5, <2>2 DEF Took
  <2>6. next' \in Nat /\ got' \in [server : Servers \cup {None}, silent : Int]
        /\ got'.silent < Timeout + Update
    <3>1. CASE n = 0
      BY <3>1, <1>1 DEF Get
    <3>2. CASE n # 0 /\ Took(Nth(servers', next % n)) /\ next' = (next + 1) % n
      <4>1. next % n \in Nat /\ next % n < n /\ (next + 1) % n \in Nat
        BY <3>2, <2>4
      <4>2. servers' \in SUBSET Nat
        BY <2>2
      <4>3. Nth(servers', next % n) \in servers'
        BY <4>1, <4>2, <2>4, NthInSet
      <4> QED
        BY <4>1, <4>3, <3>2, <2>5
    <3>3. CASE n # 0 /\ (\E s \in servers' : Took(s)) /\ UNCHANGED next
      BY <3>3, <2>5
    <3> QED
      BY <1>1, <3>1, <3>2, <3>3 DEF Get
  <2> QED
    BY <2>1, <2>2, <2>3, <2>6
<1>2. CASE Call
  BY <1>2 DEF Call, Dial, BeatKept, CopyWasAlive, CastKept
<1> QED
  BY <1>1, <1>2

\* A broadcast from its start to Close (client.go:76-109).
LEMMA CastKeeps ==
  ASSUME RegistryInv,
         Broadcast \/ CastEnds \/ CloseAll \/ \E s \in Servers : CastDial(s) \/ CastReturns(s)
  PROVE  RegistryInv'
<1> USE RegistryAssumption DEF RegistryInv, RegistryTypeOK, listVars, castVars
<1>1. CASE Broadcast
  <2>1. Refresh /\ UNCHANGED <<now, beat, due, conn, next, firstErr, reply, got>>
    BY <1>1 DEF Broadcast, GetAll
  <2>2. /\ start' \in [Servers -> Nat \cup {None}]
        /\ servers' \in SUBSET Servers
        /\ updated' \in Nat \cup {None}
        /\ BeatKept' /\ CopyWasAlive'
    BY <2>1, RefreshKeeps
  <2>3. CastKept' /\ cast' \in {"idle", "running", "over"}
        /\ result' \in [Servers -> {"none", "todo", "calling", "ok", "err", "canceled"}]
    BY <1>1 DEF Broadcast, CastKept
  <2> QED
    BY <2>1, <2>2, <2>3
<1>2. CASE CastEnds
  <2>1. RegistryTypeOK' /\ BeatKept' /\ CopyWasAlive' /\ UNCHANGED got
    BY <1>2 DEF CastEnds, BeatKept, CopyWasAlive
  <2>2. CastKept'
    BY <1>2 DEF CastEnds, CastKept
  <2> QED
    BY <2>1, <2>2
<1>4. CASE CloseAll
  <2>1. RegistryTypeOK' /\ BeatKept' /\ CopyWasAlive' /\ UNCHANGED got
    BY <1>4 DEF CloseAll, BeatKept, CopyWasAlive
  <2>2. CastKept'
    BY <1>4 DEF CloseAll, CastKept
  <2> QED
    BY <2>1, <2>2
<1>3. ASSUME NEW s \in Servers, CastDial(s) \/ CastReturns(s) PROVE RegistryInv'
  <2>1. UNCHANGED <<now, start, beat, due, listVars, cast, got>>
    BY <1>3 DEF CastDial, CastReturns, Merge
  <2>2. BeatKept' /\ CopyWasAlive'
    BY <2>1 DEF BeatKept, CopyWasAlive
  <2>3. conn' \in [Servers -> {"none", "up", "down"}]
    BY <1>3 DEF CastDial, CastReturns, Dial
  <2>4. ASSUME NEW outcome \in {"ok", "err", "canceled"}, Merge(s, outcome),
               result[s] \in {"todo", "calling"}, outcome = "canceled" => firstErr # None
        PROVE  RegistryTypeOK' /\ CastKept'
    <3>1. RegistryTypeOK'
      BY <2>1, <2>3, <2>4 DEF Merge
    <3>2. cast # "over" /\ cast # "idle"
      BY <2>4 DEF CastKept
    <3> QED
      BY <3>1, <3>2, <2>1, <2>4 DEF Merge, CastKept
  <2>5. CASE CastDial(s) /\ Dial(s, TRUE) /\ result' = [result EXCEPT ![s] = "calling"]
             /\ UNCHANGED <<firstErr, reply>>
    <3>1. result[s] = "todo"
      BY <2>5 DEF CastDial
    <3>2. cast # "over" /\ cast # "idle"
      BY <3>1 DEF CastKept
    <3> QED
      BY <2>1, <2>2, <2>3, <2>5, <3>1, <3>2 DEF CastKept
  <2>6. CASE CastDial(s) /\ Merge(s, "err")
    BY <2>1, <2>2, <2>4, <2>6 DEF CastDial
  <2>7. CASE CastReturns(s)
    BY <2>1, <2>2, <2>4, <2>7 DEF CastReturns
  <2> QED
    BY <1>3, <2>5, <2>6, <2>7 DEF CastDial
<1> QED
  BY <1>1, <1>2, <1>3, <1>4

\* The invariant of the registry, the discovery and the broadcasts is inductive.
THEOREM RegistryInvAlways == Spec => []RegistryInv
<1>1. RegistryInv /\ [Next]_vars => RegistryInv'
  <2> SUFFICES ASSUME RegistryInv, [Next]_vars PROVE RegistryInv'
    OBVIOUS
  <2>1. CASE UNCHANGED vars
    BY <2>1 DEF vars, listVars, castVars, RegistryInv, RegistryTypeOK, BeatKept, CopyWasAlive, CastKept
  <2>2. ASSUME NEW s \in Servers, Heartbeat(s) \/ Leave(s) \/ CastDial(s) \/ CastReturns(s)
        PROVE  RegistryInv'
    BY <2>2, TimeKeeps, CastKeeps
  <2>3. CASE Tick
    <3>1. CASE Servers = {}
      BY <2>3, <3>1, RegistryAssumption
         DEF Tick, RegistryInv, RegistryTypeOK, BeatKept, CopyWasAlive, CastKept, listVars, castVars
    <3> QED
      BY <2>3, <3>1, TimeKeeps
  <2>4. CASE Get \/ Call
    BY <2>4, GetKeeps
  <2>5. CASE Broadcast \/ CastEnds \/ CloseAll
    BY <2>5, CastKeeps
  <2> QED
    BY <2>1, <2>2, <2>3, <2>4, <2>5 DEF Next
<1> QED
  BY <1>1, RegistryInit, PTL DEF Spec

\* A server that has not missed a heartbeat is on the registry's list, and the
\* discovery hands out no server that was silent for longer than both timeouts
\* (registry.go:52-65, 98-113, discovery_sonnet.go:27-61).
THEOREM DiscoveryAccurateAlways == Spec => []DiscoveryAccurate
<1>1. RegistryInv => DiscoveryAccurate
  <2> SUFFICES ASSUME RegistryInv PROVE DiscoveryAccurate
    OBVIOUS
  <2>1. ASSUME NEW s \in Servers, beat[s] = "on", now < due[s] PROVE s \in Alive
    <3>1. start[s] \in Nat /\ due[s] = start[s] + Every /\ now \in Nat
      BY <2>1 DEF RegistryInv, RegistryTypeOK, BeatKept
    <3>2. start[s] + Timeout > now
      BY <3>1, <2>1, RegistryAssumption
    <3> QED
      BY <3>1, <3>2, RegistryAssumption DEF Alive
  <2> QED
    BY <2>1 DEF DiscoveryAccurate, RegistryInv
<1> QED
  BY <1>1, RegistryInvAlways, PTL

\* Broadcast returns nil only with every answer in, and otherwise an error that a
\* server caused (client.go:76-109).
THEOREM BroadcastHonestAlways == Spec => []BroadcastHonest
<1>1. RegistryInv => BroadcastHonest
  <2> SUFFICES ASSUME RegistryInv, cast = "over"
               PROVE  IF firstErr = None
                      THEN /\ \A s \in Servers : result[s] \in {"none", "ok"}
                           /\ (reply = None) = (\A s \in Servers : result[s] = "none")
                      ELSE result[firstErr] = "err"
    BY DEF BroadcastHonest
  <2>1. ASSUME firstErr = None, NEW s \in Servers PROVE result[s] \in {"none", "ok"}
    BY <2>1 DEF RegistryInv, RegistryTypeOK, CastKept
  <2>2. ASSUME firstErr = None PROVE (reply = None) <=> (\A s \in Servers : result[s] = "none")
    BY <2>1, <2>2 DEF RegistryInv, RegistryTypeOK, CastKept
  <2> QED
    BY <2>1, <2>2 DEF RegistryInv, CastKept
<1> QED
  BY <1>1, RegistryInvAlways, PTL

-----------------------------------------------------------------------------
\* One connection (RpcServer).

HStates == {"idle", "sent", "refused", "select", "await", "expired", "done"}
GStates == {"idle", "call", "offer", "send", "sent", "over"}

ConnTypeOK ==
  /\ dial \in {"idle", "waiting", "client", "error"}
  /\ clientUp \in BOOLEAN /\ serverUp \in BOOLEAN
  /\ srv \in {"accept", "options", "read", "reply", "wait", "closed"}
  /\ in \in Seq(Reqs)
  /\ bad \in Reqs \cup {None}
  /\ h \in [Reqs -> HStates] /\ g \in [Reqs -> GStates]
  /\ sending \in (Reqs \X {"loop", "method", "timer"}) \cup {None}
  /\ out \in Seq({"head", "body"} \X Reqs)

\* The two ends of the connection: before the dial nothing has happened; under a
\* client that is still there the server's end is open until ServeConn closes it,
\* which it does only when no request is at work, or a reply is cut short.
EndsKept ==
  /\ dial = "idle" => /\ ~clientUp /\ ~serverUp /\ srv = "accept" /\ sending = None /\ out = <<>>
                      /\ \A r \in Reqs : h[r] = "idle"
  /\ clientUp => dial \in {"waiting", "client"} /\ (serverUp \/ srv = "closed" \/ S!CutShort)
  /\ srv = "closed" => ~serverUp
  /\ (srv = "closed" /\ clientUp) => \A r \in Reqs : h[r] \in {"idle", "sent", "refused", "done"}

\* Where the two goroutines of a request can be at the same time, and what the
\* server loop answers itself (server.go:133-195).
PhasesKept ==
  /\ (bad # None) <=> (srv = "reply")
  /\ bad # None => h[bad] = "refused"
  /\ \A r \in Reqs :
       /\ h[r] \in {"idle", "sent", "refused"} => g[r] = "idle"
       /\ h[r] \in {"select", "expired"} => g[r] \in {"call", "offer"}
       /\ h[r] = "await" => g[r] \in {"send", "sent"}
       /\ h[r] = "done" => g[r] \in {"call", "offer", "over"}
  /\ \A i \in DOMAIN in : h[in[i]] = "sent"
  /\ \A i, j \in DOMAIN in : i # j => in[i] # in[j]

\* A header is followed by the body of the same request; while both ends are open
\* the stream stops after a header exactly when somebody holds `sending'.
FramesKept ==
  /\ \A i \in DOMAIN out : i % 2 = 0 => out[i] = <<"body", out[i - 1][2]>>
  /\ \A i \in DOMAIN out : i % 2 = 1 => out[i][1] = "head"
  /\ (clientUp /\ serverUp) =>
       IF sending = None THEN Len(out) % 2 = 0
       ELSE Len(out) % 2 = 1 /\ out[Len(out)] = <<"head", sending[1]>>

\* The answer of a request is still owed.
Owed(r) ==
  \/ h[r] \in {"idle", "sent", "select", "expired"}
  \/ h[r] = "await" /\ g[r] = "send"
  \/ bad = r

\* A request whose answer is owed has none; one whose answer is not has one, if
\* the client is there and no reply was cut short; nobody has two.
BodiesKept ==
  \A r \in Reqs :
    /\ Owed(r) => \A i \in DOMAIN out : out[i] # <<"body", r>>
    /\ (clientUp /\ ~Owed(r)) => (S!CutShort \/ \E i \in DOMAIN out : out[i] = <<"body", r>>)
    /\ \A i, j \in DOMAIN out : (out[i] = <<"body", r>> /\ out[j] = <<"body", r>>) => i = j

ConnInv ==
  /\ ConnTypeOK /\ EndsKept /\ PhasesKept /\ FramesKept /\ BodiesKept
  /\ NoConnLeft

\* Before an even position there is another.
LEMMA Before ==
  ASSUME NEW n \in Nat, NEW i \in 1 .. n, i % 2 = 0
  PROVE  i - 1 \in 1 .. n
<1>1. i # 1
  OBVIOUS
<1> QED
  BY <1>1

\* Even and odd positions alternate.
LEMMA Parity ==
  ASSUME NEW n \in Nat
  PROVE  (n % 2 = 0 => (n + 1) % 2 = 1) /\ (n % 2 = 1 => (n + 1) % 2 = 0)
OBVIOUS

\* Where out holds the body of a request.
BodyAt(o, r, i) == i \in DOMAIN o /\ o[i] = <<"body", r>>

\* A connection that was cut short stays so: nothing is written to it any more.
LEMMA CutStays ==
  ASSUME S!CutShort, UNCHANGED <<setup, out>>, serverUp' => serverUp
  PROVE  S!CutShort'
BY DEF S!CutShort

\* sendResponse writes the header (server.go:153-160).
LEMMA LockKeeps ==
  ASSUME ConnInv, NEW r \in Reqs, NEW who \in {"loop", "method", "timer"}, S!Lock(r, who),
         UNCHANGED <<setup, clientUp>>
  PROVE  /\ sending' = <<r, who>>
         /\ serverUp' \in BOOLEAN /\ (serverUp' => serverUp) /\ (clientUp => serverUp' = serverUp)
         /\ S!CutShort => S!CutShort'
         /\ out' \in Seq({"head", "body"} \X Reqs)
         /\ FramesKept'
         /\ \A q, i : BodyAt(out', q, i) <=> BodyAt(out, q, i)
<1> USE DEF ConnInv, ConnTypeOK
<1>1. sending = None /\ sending' = <<r, who>>
  BY DEF S!Lock
<1>4. serverUp' \in BOOLEAN /\ (serverUp' => serverUp) /\ (clientUp => serverUp' = serverUp)
  BY DEF S!Lock, S!Put
<1>5. S!CutShort => S!CutShort'
  <2>1. S!CutShort => out' = out
    BY DEF S!Lock, S!Put, S!CutShort
  <2> QED
    BY <2>1, <1>4, CutStays
<1>2. CASE clientUp /\ serverUp
  <2>1. out' = Append(out, <<"head", r>>)
    BY <1>2 DEF S!Lock, S!Put
  <2>2. Len(out) \in Nat /\ Len(out) % 2 = 0 /\ (Len(out) + 1) % 2 = 1
    <3>1. Len(out) \in Nat
      OBVIOUS
    <3>2. Len(out) % 2 = 0
      BY <1>1, <1>2 DEF FramesKept
    <3> QED
      BY <3>1, <3>2, Parity
  <2>3. /\ Len(out') = Len(out) + 1 /\ out'[Len(out) + 1] = <<"head", r>>
        /\ \A i \in DOMAIN out : out'[i] = out[i]
        /\ out' \in Seq({"head", "body"} \X Reqs)
    BY <2>1
  <2>4. <<r, who>> # None
    BY ConnAssumption
  <2>5. \A i \in DOMAIN out' : i \in DOMAIN out \/ i = Len(out) + 1
    BY <2>1
  <2>6. FramesKept'
    <3>1. ASSUME NEW i \in DOMAIN out', i % 2 = 0 PROVE out'[i] = <<"body", out'[i - 1][2]>>
      <4>1. i \in DOMAIN out
        BY <3>1, <2>2, <2>5
      <4>2. i - 1 \in DOMAIN out
        <5>1. DOMAIN out = 1 .. Len(out) /\ Len(out) \in Nat
          OBVIOUS
        <5> QED
          BY <3>1, <4>1, <5>1, Before
      <4> QED
        BY <3>1, <4>1, <4>2, <2>3 DEF FramesKept
    <3>2. ASSUME NEW i \in DOMAIN out', i % 2 = 1 PROVE out'[i][1] = "head"
      BY <3>2, <2>3, <2>5 DEF FramesKept
    <3>3. Len(out') % 2 = 1 /\ out'[Len(out')] = <<"head", sending'[1]>> /\ sending' # None
      BY <1>1, <2>2, <2>3, <2>4
    <3> QED
      BY <3>1, <3>2, <3>3 DEF FramesKept
  <2>7. \A q, i : BodyAt(out', q, i) <=> BodyAt(out, q, i)
    BY <2>1, <2>3, <2>5 DEF BodyAt
  <2> QED
    BY <1>1, <1>4, <1>5, <2>3, <2>6, <2>7
<1>3. CASE ~(clientUp /\ serverUp)
  <2>1. out' = out
    BY <1>3 DEF S!Lock, S!Put
  <2>2. FramesKept'
    BY <1>3, <1>4, <2>1 DEF FramesKept
  <2> QED
    BY <1>1, <1>3, <1>4, <1>5, <2>1, <2>2 DEF BodyAt
<1> QED
  BY <1>2, <1>3, <1>4, <1>5

\* sendResponse writes the body, or fails to, and gives the mutex back.
LEMMA UnlockKeeps ==
  ASSUME ConnInv, NEW r \in Reqs, NEW who \in {"loop", "method", "timer"}, S!Unlock(r, who),
         UNCHANGED <<setup, clientUp>>
  PROVE  /\ sending' = None
         /\ serverUp' \in BOOLEAN /\ (serverUp' => serverUp)
         /\ S!CutShort => S!CutShort'
         /\ (clientUp /\ serverUp) => (serverUp' \/ S!CutShort')
         /\ out' \in Seq({"head", "body"} \X Reqs)
         /\ FramesKept'
         /\ \A q \in Reqs : \A i : q # r => (BodyAt(out', q, i) <=> BodyAt(out, q, i))
         /\ IF clientUp /\ serverUp /\ S!Encodes(r, who)
            THEN \A i : BodyAt(out', r, i) <=> (BodyAt(out, r, i) \/ i = Len(out) + 1)
            ELSE out' = out /\ (clientUp /\ serverUp => S!CutShort')
<1> USE DEF ConnInv, ConnTypeOK
<1>1. sending = <<r, who>> /\ sending' = None /\ sending # None
  BY ConnAssumption DEF S!Unlock
<1>4. serverUp' \in BOOLEAN /\ (serverUp' => serverUp)
  BY DEF S!Unlock, S!WriteBody, S!Put
<1>5. /\ S!CutShort => S!CutShort'
      /\ clientUp /\ serverUp /\ ~S!Encodes(r, who) => S!CutShort'
      /\ clientUp /\ serverUp /\ S!Encodes(r, who) => serverUp'
  <2>1. S!CutShort => out' = out
    BY DEF S!Unlock, S!WriteBody, S!Put, S!CutShort
  <2>2. ASSUME clientUp, serverUp, ~S!Encodes(r, who) PROVE S!CutShort'
    <3>1. out[Len(out)] = <<"head", r>> /\ Len(out) % 2 = 1
      BY <1>1, <2>2 DEF FramesKept
    <3>2. out' = out /\ serverUp' = FALSE /\ setup.kind[r] = "opaque"
      BY <2>2 DEF S!Unlock, S!WriteBody, S!Encodes
    <3> QED
      BY <3>1, <3>2 DEF S!CutShort
  <2>3. clientUp /\ serverUp /\ S!Encodes(r, who) => serverUp'
    BY DEF S!Unlock, S!WriteBody, S!Put
  <2> QED
    BY <2>1, <2>2, <2>3, <1>4, CutStays
<1>2. CASE clientUp /\ serverUp /\ S!Encodes(r, who)
  <2>1. out' = Append(out, <<"body", r>>)
    BY <1>2 DEF S!Unlock, S!WriteBody, S!Put
  <2>2. Len(out) \in Nat /\ Len(out) % 2 = 1 /\ (Len(out) + 1) % 2 = 0
        /\ out[Len(out)] = <<"head", r>>
    <3>1. Len(out) \in Nat
      OBVIOUS
    <3>2. Len(out) % 2 = 1 /\ out[Len(out)] = <<"head", r>>
      BY <1>1, <1>2 DEF FramesKept
    <3> QED
      BY <3>1, <3>2, Parity
  <2>3. /\ Len(out') = Len(out) + 1 /\ out'[Len(out) + 1] = <<"body", r>>
        /\ \A i \in DOMAIN out : out'[i] = out[i]
        /\ out' \in Seq({"head", "body"} \X Reqs)
    BY <2>1
  <2>5. \A i \in DOMAIN out' : i \in DOMAIN out \/ i = Len(out) + 1
    BY <2>1
  <2>6. FramesKept'
    <3>1. ASSUME NEW i \in DOMAIN out', i % 2 = 0 PROVE out'[i] = <<"body", out'[i - 1][2]>>
      <4>1. CASE i \in DOMAIN out
        <5>1. i - 1 \in DOMAIN out
          <6>1. DOMAIN out = 1 .. Len(out) /\ Len(out) \in Nat
            OBVIOUS
          <6> QED
            BY <3>1, <4>1, <6>1, Before
        <5> QED
          BY <3>1, <4>1, <5>1, <2>3 DEF FramesKept
      <4>2. CASE i = Len(out) + 1
        <5>1. i - 1 = Len(out) /\ i - 1 \in DOMAIN out
          BY <4>2, <2>2
        <5>2. out'[i] = <<"body", r>>
          BY <4>2, <2>3
        <5>3. out'[i - 1] = <<"head", r>>
          BY <5>1, <2>2, <2>3
        <5> QED
          BY <5>2, <5>3
      <4> QED
        BY <4>1, <4>2, <2>5
    <3>2. ASSUME NEW i \in DOMAIN out', i % 2 = 1 PROVE out'[i][1] = "head"
      BY <3>2, <2>2, <2>3, <2>5 DEF FramesKept
    <3>3. Len(out') % 2 = 0 /\ sending' = None
      BY <1>1, <2>2, <2>3
    <3> QED
      BY <3>1, <3>2, <3>3 DEF FramesKept
  <2>7. \A q \in Reqs : \A i : q # r => (BodyAt(out', q, i) <=> BodyAt(out, q, i))
    BY <2>1, <2>3, <2>5 DEF BodyAt
  <2>8. \A i : BodyAt(out', r, i) <=> (BodyAt(out, r, i) \/ i = Len(out) + 1)
    BY <2>1, <2>2, <2>3, <2>5 DEF BodyAt
  <2> QED
    BY <1>1, <1>2, <1>4, <1>5, <2>3, <2>6, <2>7, <2>8
<1>3. CASE ~(clientUp /\ serverUp /\ S!Encodes(r, who))
  <2>1. out' = out
    BY <1>3 DEF S!Unlock, S!WriteBody, S!Put
  <2>2. (clientUp' /\ serverUp') => FALSE
    BY <1>3, <1>4 DEF S!Unlock, S!WriteBody, S!Put
  <2>3. FramesKept'
    BY <2>1, <2>2 DEF FramesKept
  <2> QED
    BY <1>1, <1>3, <1>4, <1>5, <2>1, <2>3 DEF BodyAt
<1> QED
  BY <1>2, <1>3

\* A connection before the dial.
LEMMA ConnInit == S!Init => ConnInv
<1> SUFFICES ASSUME S!Init PROVE ConnInv
  OBVIOUS
<1> USE ConnAssumption DEF S!Init
<1>1. ConnTypeOK
  <2>1. h \in [Reqs -> HStates] /\ g \in [Reqs -> GStates]
    BY DEF HStates, GStates
  <2>2. in \in Seq(Reqs) /\ out \in Seq({"head", "body"} \X Reqs)
    OBVIOUS
  <2>3. sending \in (Reqs \X {"loop", "method", "timer"}) \cup {None}
    OBVIOUS
  <2> QED
    BY <2>1, <2>2, <2>3 DEF ConnTypeOK
<1>2. EndsKept /\ PhasesKept
  BY DEF EndsKept, PhasesKept
<1>3. FramesKept /\ BodiesKept
  BY DEF FramesKept, BodiesKept, Owed
<1>4. NoConnLeft
  BY DEF NoConnLeft, S!NoConnLeft
<1> QED
  BY <1>1, <1>2, <1>3, <1>4 DEF ConnInv

\* The dial and the end of the client (client.go:247-292) write no response.
LEMMA ClientKeeps ==
  ASSUME ConnInv, S!Client \/ S!HangUp
  PROVE  ConnInv'
<1> USE DEF ConnInv, S!dialVars, S!workVars, S!Dial, S!Connect, S!NewClient, S!DialReturns,
            S!DialTimesOut, S!HangUp, S!Client
<1>1. UNCHANGED <<setup, srv, in, bad, h, g, sending, out>>
  OBVIOUS
<1>8. S!CutShort => S!CutShort'
  <2>1. S!CutShort => dial # "idle"
    BY DEF EndsKept, S!CutShort
  <2>2. dial # "idle" => serverUp' = serverUp
    OBVIOUS
  <2> QED
    BY <1>1, <2>1, <2>2, CutStays
<1>2. ConnTypeOK'
  BY <1>1, ZenonT(40) DEF ConnTypeOK
<1>3. PhasesKept'
  BY <1>1 DEF PhasesKept
<1>4. clientUp' => (clientUp /\ serverUp' = serverUp) \/ (dial = "idle" /\ serverUp')
  BY DEF ConnTypeOK
<1>5. EndsKept' /\ NoConnLeft'
  BY <1>1, <1>8 DEF ConnTypeOK, EndsKept, NoConnLeft, S!NoConnLeft
<1>6. FramesKept'
  BY <1>1, <1>4 DEF FramesKept, EndsKept
<1>7. BodiesKept'
  <2>1. CASE clientUp' => clientUp
    BY <2>1, <1>1, <1>8 DEF BodiesKept, Owed
  <2>2. CASE dial = "idle"
    BY <2>2, <1>1 DEF BodiesKept, Owed, EndsKept
  <2> QED
    BY <1>4, <2>1, <2>2
<1> QED
  BY <1>2, <1>3, <1>5, <1>6, <1>7

\* What is left of a sequence without its first n elements.
LEMMA SuffixOf ==
  ASSUME NEW X, NEW q \in Seq(X), NEW n \in 0 .. Len(q)
  PROVE  LET rest == SubSeq(q, n + 1, Len(q)) IN
         /\ rest \in Seq(X) /\ Len(rest) = Len(q) - n
         /\ \A i \in 1 .. Len(rest) : rest[i] = q[i + n]
<1>1. Len(q) \in Nat /\ n \in Nat /\ n <= Len(q)
  OBVIOUS
<1>2. \A i \in n + 1 .. Len(q) : q[i] \in X
  OBVIOUS
<1> QED
  BY <1>1, <1>2

\* A request on its way, and the server loop up to its end (server.go:52-150),
\* but for the answers the loop gives itself.
LEMMA LoopKeeps ==
  ASSUME ConnInv,
         \/ \E r \in Reqs : S!SendRequest(r)
         \/ S!Accept \/ S!ServeHTTP \/ S!ReadOptions \/ S!ReadRequest \/ S!ReadFails \/ S!Close
  PROVE  ConnInv'
<1> USE ConnAssumption DEF ConnInv, S!dialVars, S!workVars
<1>7. S!CutShort => S!CutShort'
  BY CutStays DEF S!SendRequest, S!Accept, S!ServeHTTP, S!TakeOn, S!ReadOptions, S!ReadRequest,
                  S!ReadFails, S!Close, S!CloseConn
<1> USE <1>7
<1>1. ASSUME NEW r \in Reqs, S!SendRequest(r) PROVE ConnInv'
  <2> USE <1>1 DEF S!SendRequest
  <2>1. ConnTypeOK'
    BY DEF ConnTypeOK, HStates
  <2>2. EndsKept' /\ NoConnLeft'
    BY DEF EndsKept, NoConnLeft, S!NoConnLeft, ConnTypeOK
  <2>3. PhasesKept'
    BY DEF PhasesKept, ConnTypeOK, HStates
  <2>4. FramesKept'
    BY DEF FramesKept
  <2>5. BodiesKept'
    BY DEF BodiesKept, Owed, ConnTypeOK
  <2> QED
    BY <2>1, <2>2, <2>3, <2>4, <2>5
<1>2. CASE S!TakeOn
  BY <1>2 DEF S!TakeOn, ConnTypeOK, EndsKept, NoConnLeft, S!NoConnLeft, PhasesKept, FramesKept,
              BodiesKept, Owed
<1>3. CASE S!ReadOptions
  <2> USE <1>3 DEF S!ReadOptions, S!CloseConn
  <2>1. ConnTypeOK' /\ PhasesKept'
    <3>1. CASE UNCHANGED in
      BY <3>1, ZenonT(40) DEF ConnTypeOK, PhasesKept
    <3>2. ASSUME NEW n \in 0 .. Len(in), in' = SubSeq(in, n + 1, Len(in)), srv' = "read", UNCHANGED serverUp
          PROVE  ConnTypeOK' /\ PhasesKept'
      <4>1. in \in Seq(Reqs)
        BY DEF ConnTypeOK
      <4>2. in' \in Seq(Reqs) /\ Len(in') = Len(in) - n /\ \A i \in 1 .. Len(in') : in'[i] = in[i + n]
        BY <3>2, <4>1, SuffixOf, SMTT(30)
      <4>3. \A i \in DOMAIN in' : i + n \in DOMAIN in /\ in'[i] = in[i + n]
        BY <4>1, <4>2
      <4>4. ConnTypeOK'
        BY <3>2, <4>2 DEF ConnTypeOK
      <4>5. \A i \in DOMAIN in' : i \in Nat
        BY <4>2
      <4>6. \A i, j \in DOMAIN in' : i # j => in'[i] # in'[j]
        BY <4>3, <4>5 DEF PhasesKept
      <4>7. \A i \in DOMAIN in' : h[in'[i]] = "sent"
        BY <4>3 DEF PhasesKept
      <4> QED
        BY <3>2, <4>4, <4>6, <4>7 DEF PhasesKept
    <3> QED
      BY <3>1, <3>2
  <2>2. EndsKept' /\ NoConnLeft'
    BY DEF EndsKept, NoConnLeft, S!NoConnLeft
  <2>3. FramesKept' /\ BodiesKept'
    BY DEF FramesKept, BodiesKept, Owed, EndsKept
  <2> QED
    BY <2>1, <2>2, <2>3
<1>4. CASE S!ReadRequest
  <2> DEFINE r == Head(in)
  <2> USE <1>4 DEF S!ReadRequest
  <2>1. in \in Seq(Reqs) /\ in # <<>> /\ in' = Tail(in) /\ srv = "read" /\ bad = None
    BY DEF ConnTypeOK, PhasesKept
  <2>2. r \in Reqs /\ h[r] = "sent" /\ g[r] = "idle"
    BY <2>1 DEF PhasesKept
  <2>3. in' \in Seq(Reqs) /\ \A i \in DOMAIN in' : i \in Nat /\ i + 1 \in DOMAIN in /\ in'[i] = in[i + 1]
    BY <2>1
  <2>4. \A i \in DOMAIN in' : in'[i] # r /\ h[in'[i]] = "sent"
    BY <2>1, <2>3 DEF PhasesKept
  <2>5. \A i, j \in DOMAIN in' : i # j => in'[i] # in'[j]
    BY <2>3 DEF PhasesKept
  <2>6. \/ /\ srv' = "reply" /\ bad' = r /\ h' = [h EXCEPT ![r] = "refused"] /\ UNCHANGED g
        \/ /\ h' = [h EXCEPT ![r] = "select"] /\ g' = [g EXCEPT ![r] = "call"]
           /\ UNCHANGED <<srv, bad>>
    OBVIOUS
  <2> HIDE DEF r
  <2>7. UNCHANGED <<dial, clientUp, serverUp, sending, out>>
    OBVIOUS
  <2> HIDE <1>4
  <2>8. ConnTypeOK'
    BY <2>2, <2>3, <2>6, <2>7 DEF ConnTypeOK, HStates, GStates
  <2>9. PhasesKept'
    BY <2>1, <2>2, <2>3, <2>4, <2>5, <2>6 DEF PhasesKept, ConnTypeOK
  <2>10. EndsKept' /\ NoConnLeft'
    BY <2>1, <2>2, <2>6, <2>7 DEF EndsKept, NoConnLeft, S!NoConnLeft, ConnTypeOK
  <2>11. FramesKept'
    BY <2>7 DEF FramesKept
  <2>12. BodiesKept'
    BY <2>1, <2>2, <2>6, <2>7 DEF BodiesKept, Owed, ConnTypeOK
  <2> QED
    BY <2>8, <2>9, <2>10, <2>11, <2>12
<1>5. CASE S!ReadFails
  BY <1>5 DEF S!ReadFails, ConnTypeOK, EndsKept, NoConnLeft, S!NoConnLeft, PhasesKept, FramesKept,
              BodiesKept, Owed
<1>6. CASE S!Close
  <2> USE <1>6 DEF S!Close, S!CloseConn
  <2>1. ConnTypeOK'
    BY DEF ConnTypeOK
  <2>4. PhasesKept'
    BY DEF PhasesKept
  <2>2. EndsKept' /\ NoConnLeft'
    BY DEF EndsKept, NoConnLeft, S!NoConnLeft
  <2>3. FramesKept' /\ BodiesKept'
    BY DEF FramesKept, BodiesKept, Owed
  <2> QED
    BY <2>1, <2>2, <2>3, <2>4
<1> QED
  BY <1>1, <1>2, <1>3, <1>4, <1>5, <1>6 DEF S!Accept, S!ServeHTTP

\* The meetings of the two goroutines of a request and its timer (server.go:162-195).
LEMMA MeetKeeps ==
  ASSUME ConnInv, NEW r \in Reqs,
         S!CallReturns(r) \/ S!Called(r) \/ S!Sent(r) \/ S!HandleTimesOut(r)
  PROVE  ConnInv'
<1> USE ConnAssumption DEF ConnInv, S!CallReturns, S!Called, S!Sent, S!HandleTimesOut, S!serving,
            S!dialVars
<1>1. UNCHANGED <<setup, dial, clientUp, serverUp, srv, in, bad, sending, out>>
  BY DEF S!loopVars
<1>10. S!CutShort' <=> S!CutShort
  BY <1>1 DEF S!CutShort
<1>2. ConnTypeOK'
  BY <1>1 DEF ConnTypeOK, HStates, GStates
<1>3. h[r] \in {"select", "await", "expired", "done"}
  BY DEF PhasesKept, ConnTypeOK, HStates
<1>4. \A q \in Reqs : q # r => h'[q] = h[q] /\ g'[q] = g[q]
  BY DEF ConnTypeOK
<1>5. PhasesKept'
  BY <1>1, <1>3, <1>4 DEF PhasesKept, ConnTypeOK
<1>6. EndsKept' /\ NoConnLeft'
  BY <1>1, <1>3, <1>4, <1>10 DEF EndsKept, NoConnLeft, S!NoConnLeft, ConnTypeOK
<1>7. FramesKept'
  BY <1>1 DEF FramesKept
<1>8. ASSUME NEW q \in Reqs PROVE Owed(q)' <=> Owed(q)
  BY <1>1, <1>3, <1>4 DEF Owed, ConnTypeOK, PhasesKept
<1>9. BodiesKept'
  BY <1>1, <1>8, <1>10 DEF BodiesKept
<1> QED
  BY <1>2, <1>5, <1>6, <1>7, <1>9

\* The header of a response changes nobody's phase.
LEMMA HeadKeeps ==
  ASSUME ConnInv, NEW r \in Reqs, NEW who \in {"loop", "method", "timer"}, S!Lock(r, who),
         UNCHANGED <<setup, dial, clientUp, srv, in, bad, h, g>>, dial # "idle"
  PROVE  ConnInv'
<1>1. /\ sending' = <<r, who>>
      /\ serverUp' \in BOOLEAN /\ (serverUp' => serverUp) /\ (clientUp => serverUp' = serverUp)
      /\ S!CutShort => S!CutShort'
      /\ out' \in Seq({"head", "body"} \X Reqs)
      /\ FramesKept'
      /\ \A q, i : BodyAt(out', q, i) <=> BodyAt(out, q, i)
  BY LockKeeps
<1>2. ConnTypeOK'
  BY <1>1 DEF ConnInv, ConnTypeOK
<1>3. EndsKept' /\ NoConnLeft' /\ PhasesKept'
  BY <1>1 DEF ConnInv, EndsKept, NoConnLeft, S!NoConnLeft, PhasesKept
<1>4. BodiesKept'
  BY <1>1 DEF ConnInv, BodiesKept, Owed, BodyAt
<1> QED
  BY <1>1, <1>2, <1>3, <1>4 DEF ConnInv

\* The body of a response that was owed settles it, or is cut short.
LEMMA BodyKeeps ==
  ASSUME ConnInv, NEW r \in Reqs, NEW who \in {"loop", "method", "timer"}, S!Unlock(r, who),
         UNCHANGED <<setup, dial, clientUp>>, Owed(r), ~Owed(r)',
         clientUp => serverUp \/ S!CutShort,
         \A q \in Reqs : q # r => (Owed(q)' <=> Owed(q))
  PROVE  /\ sending' = None /\ out' \in Seq({"head", "body"} \X Reqs)
         /\ serverUp' \in BOOLEAN /\ (serverUp' => serverUp)
         /\ clientUp' => (serverUp' \/ S!CutShort')
         /\ FramesKept' /\ BodiesKept'
<1>1. /\ sending' = None
      /\ serverUp' \in BOOLEAN /\ (serverUp' => serverUp)
      /\ S!CutShort => S!CutShort'
      /\ (clientUp /\ serverUp) => (serverUp' \/ S!CutShort')
      /\ out' \in Seq({"head", "body"} \X Reqs)
      /\ FramesKept'
      /\ \A q \in Reqs : \A i : q # r => (BodyAt(out', q, i) <=> BodyAt(out, q, i))
      /\ IF clientUp /\ serverUp /\ S!Encodes(r, who)
         THEN \A i : BodyAt(out', r, i) <=> (BodyAt(out, r, i) \/ i = Len(out) + 1)
         ELSE out' = out /\ (clientUp /\ serverUp => S!CutShort')
  BY UnlockKeeps
<1>2. ASSUME NEW q \in Reqs, q # r
      PROVE  /\ Owed(q)' => \A i \in DOMAIN out' : out'[i] # <<"body", q>>
             /\ (clientUp' /\ ~Owed(q)') => S!CutShort' \/ \E i \in DOMAIN out' : out'[i] = <<"body", q>>
             /\ \A i, j \in DOMAIN out' : (out'[i] = <<"body", q>> /\ out'[j] = <<"body", q>>) => i = j
  <2>1. /\ Owed(q) => \A i : ~BodyAt(out, q, i)
        /\ (clientUp /\ ~Owed(q)) => S!CutShort \/ \E i : BodyAt(out, q, i)
        /\ \A i, j : (BodyAt(out, q, i) /\ BodyAt(out, q, j)) => i = j
    BY DEF ConnInv, BodiesKept, BodyAt
  <2>2. /\ Owed(q)' => \A i : ~BodyAt(out', q, i)
        /\ (clientUp' /\ ~Owed(q)') => S!CutShort' \/ \E i : BodyAt(out', q, i)
        /\ \A i, j : (BodyAt(out', q, i) /\ BodyAt(out', q, j)) => i = j
    <3>1. \A i : BodyAt(out', q, i) <=> BodyAt(out, q, i)
      BY <1>1, <1>2
    <3>2. Owed(q)' <=> Owed(q)
      BY <1>2
    <3> QED
      BY <1>1, <2>1, <3>1, <3>2
  <2> QED
    BY <2>2 DEF BodyAt
<1>3. /\ (clientUp' /\ ~Owed(r)') => S!CutShort' \/ \E i \in DOMAIN out' : out'[i] = <<"body", r>>
      /\ \A i, j \in DOMAIN out' : (out'[i] = <<"body", r>> /\ out'[j] = <<"body", r>>) => i = j
  <2>1. \A i : ~BodyAt(out, r, i)
    BY DEF ConnInv, BodiesKept, BodyAt
  <2>2. CASE clientUp /\ serverUp /\ S!Encodes(r, who)
    <3>1. \A i : BodyAt(out', r, i) <=> i = Len(out) + 1
      BY <1>1, <2>1, <2>2
    <3>2. BodyAt(out', r, Len(out) + 1)
      BY <3>1
    <3> QED
      BY <3>1, <3>2 DEF BodyAt
  <2>3. CASE ~(clientUp /\ serverUp /\ S!Encodes(r, who))
    <3>1. \A i : ~BodyAt(out', r, i)
      BY <1>1, <2>1, <2>3
    <3>2. clientUp => S!CutShort'
      BY <1>1, <2>3
    <3> QED
      BY <3>1, <3>2 DEF BodyAt
  <2> QED
    BY <2>2, <2>3
<1>5. clientUp' => (serverUp' \/ S!CutShort')
  BY <1>1
<1>4. BodiesKept'
  <2> SUFFICES ASSUME NEW q \in Reqs
               PROVE  /\ Owed(q)' => \A i \in DOMAIN out' : out'[i] # <<"body", q>>
                      /\ (clientUp' /\ ~Owed(q)') => S!CutShort' \/ \E i \in DOMAIN out' : out'[i] = <<"body", q>>
                      /\ \A i, j \in DOMAIN out' :
                           (out'[i] = <<"body", q>> /\ out'[j] = <<"body", q>>) => i = j
    BY DEF BodiesKept
  <2>1. CASE q # r
    BY <2>1, <1>2
  <2>2. CASE q = r
    BY <2>2, <1>3
  <2> QED
    BY <2>1, <2>2
<1> QED
  BY <1>1, <1>4, <1>5

\* The three that answer: the server loop, the method's goroutine and the timer
\* (server.go:74-92, 162-195).
LEMMA RespondKeeps ==
  ASSUME ConnInv, S!ReplyInvalid \/ \E r \in Reqs : S!Answer(r) \/ S!ReplyExpired(r)
  PROVE  ConnInv'
<1> USE ConnAssumption DEF ConnInv, S!loopVars, S!dialVars, S!workVars, S!Respond, S!Written
<1>1. CASE S!ReplyInvalid
  <2> USE <1>1 DEF S!ReplyInvalid
  <2>1. srv = "reply" /\ bad \in Reqs /\ h[bad] = "refused"
    BY DEF PhasesKept, ConnTypeOK
  <2>2. dial # "idle" /\ (clientUp => serverUp \/ S!CutShort)
    BY <2>1 DEF EndsKept
  <2>3. CASE S!Lock(bad, "loop")
    <3>1. sending # <<bad, "loop">>
      BY <2>1, <2>3 DEF S!Lock
    <3> QED
      BY <3>1, <2>1, <2>2, <2>3, HeadKeeps
  <2>4. CASE S!Unlock(bad, "loop")
    <3>1. srv' = "read" /\ bad' = None /\ UNCHANGED <<setup, dial, clientUp, in, h, g>>
      BY <2>4 DEF S!Unlock
    <3>2. PICK b \in Reqs : b = bad
      BY <2>1
    <3>3. Owed(b) /\ ~Owed(b)'
      BY <2>1, <3>1, <3>2 DEF Owed
    <3>4. \A q \in Reqs : q # b => (Owed(q)' <=> Owed(q))
      BY <2>1, <3>1, <3>2 DEF Owed
    <3>5. /\ sending' = None /\ out' \in Seq({"head", "body"} \X Reqs) /\ FramesKept' /\ BodiesKept'
          /\ serverUp' \in BOOLEAN /\ (serverUp' => serverUp) /\ (clientUp' => serverUp' \/ S!CutShort')
      BY <2>2, <2>4, <3>1, <3>2, <3>3, <3>4, BodyKeeps
    <3>6. ConnTypeOK'
      BY <3>1, <3>5 DEF ConnTypeOK
    <3>7. EndsKept' /\ NoConnLeft' /\ PhasesKept'
      BY <2>1, <2>2, <3>1, <3>5 DEF EndsKept, NoConnLeft, S!NoConnLeft, PhasesKept
    <3> QED
      BY <3>5, <3>6, <3>7
  <2> QED
    BY <2>3, <2>4
<1>2. ASSUME NEW r \in Reqs, S!Answer(r) PROVE ConnInv'
  <2> USE <1>2 DEF S!Answer
  <2>1. g[r] = "send" /\ h[r] = "await"
    BY DEF PhasesKept, ConnTypeOK, HStates
  <2>2. dial # "idle" /\ (clientUp => serverUp \/ S!CutShort) /\ bad # r
    BY <2>1 DEF EndsKept, PhasesKept, ConnTypeOK
  <2>3. CASE S!Lock(r, "method")
    <3>1. sending # <<r, "method">>
      BY <2>3 DEF S!Lock
    <3> QED
      BY <3>1, <2>2, <2>3, HeadKeeps
  <2>4. CASE S!Unlock(r, "method")
    <3>1. g' = [g EXCEPT ![r] = "sent"] /\ UNCHANGED <<setup, dial, clientUp, srv, in, bad, h>>
      BY <2>4 DEF S!Unlock
    <3>2. Owed(r) /\ ~Owed(r)'
      BY <2>1, <2>2, <3>1 DEF Owed, ConnTypeOK
    <3>3. \A q \in Reqs : q # r => (Owed(q)' <=> Owed(q))
      BY <3>1 DEF Owed, ConnTypeOK
    <3>5. /\ sending' = None /\ out' \in Seq({"head", "body"} \X Reqs) /\ FramesKept' /\ BodiesKept'
          /\ serverUp' \in BOOLEAN /\ (serverUp' => serverUp) /\ (clientUp' => serverUp' \/ S!CutShort')
      BY <2>2, <2>4, <3>1, <3>2, <3>3, BodyKeeps
    <3>6. ConnTypeOK'
      BY <3>1, <3>5 DEF ConnTypeOK, GStates
    <3>7. EndsKept' /\ NoConnLeft' /\ PhasesKept'
      BY <2>1, <2>2, <3>1, <3>5 DEF EndsKept, NoConnLeft, S!NoConnLeft, PhasesKept, ConnTypeOK
    <3> QED
      BY <3>5, <3>6, <3>7
  <2> QED
    BY <2>3, <2>4
<1>3. ASSUME NEW r \in Reqs, S!ReplyExpired(r) PROVE ConnInv'
  <2> USE <1>3 DEF S!ReplyExpired
  <2>1. h[r] = "expired" /\ g[r] \in {"call", "offer"}
    BY DEF PhasesKept
  <2>2. dial # "idle" /\ (clientUp => serverUp \/ S!CutShort) /\ bad # r
    BY <2>1 DEF EndsKept, PhasesKept, ConnTypeOK
  <2>3. CASE S!Lock(r, "timer")
    <3>1. sending # <<r, "timer">>
      BY <2>3 DEF S!Lock
    <3> QED
      BY <3>1, <2>2, <2>3, HeadKeeps
  <2>4. CASE S!Unlock(r, "timer")
    <3>1. h' = [h EXCEPT ![r] = "done"] /\ UNCHANGED <<setup, dial, clientUp, srv, in, bad, g>>
      BY <2>4 DEF S!Unlock
    <3>2. Owed(r) /\ ~Owed(r)'
      BY <2>1, <2>2, <3>1 DEF Owed, ConnTypeOK
    <3>3. \A q \in Reqs : q # r => (Owed(q)' <=> Owed(q))
      BY <3>1 DEF Owed, ConnTypeOK
    <3>5. /\ sending' = None /\ out' \in Seq({"head", "body"} \X Reqs) /\ FramesKept' /\ BodiesKept'
          /\ serverUp' \in BOOLEAN /\ (serverUp' => serverUp) /\ (clientUp' => serverUp' \/ S!CutShort')
      BY <2>2, <2>4, <3>1, <3>2, <3>3, BodyKeeps
    <3>6. ConnTypeOK'
      BY <3>1, <3>5 DEF ConnTypeOK, HStates
    <3>7. EndsKept' /\ NoConnLeft' /\ PhasesKept'
      BY <2>1, <2>2, <3>1, <3>5 DEF EndsKept, NoConnLeft, S!NoConnLeft, PhasesKept, ConnTypeOK
    <3> QED
      BY <3>5, <3>6, <3>7
  <2> QED
    BY <2>3, <2>4
<1> QED
  BY <1>1, <1>2, <1>3

\* The invariant of a connection is inductive.
THEOREM ConnInvAlways == S!Spec => []ConnInv
<1>1. ConnInv /\ [S!Next]_(S!vars) => ConnInv'
  <2> SUFFICES ASSUME ConnInv, [S!Next]_(S!vars) PROVE ConnInv'
    OBVIOUS
  <2>1. CASE UNCHANGED S!vars
    BY <2>1 DEF S!vars, S!dialVars, S!workVars, ConnInv, ConnTypeOK, EndsKept, PhasesKept, FramesKept,
                BodiesKept, Owed, NoConnLeft, S!NoConnLeft, S!CutShort
  <2>2. CASE S!Client \/ S!HangUp
    BY <2>2, ClientKeeps
  <2>3. CASE S!ServeConn
    BY <2>3, LoopKeeps, RespondKeeps DEF S!ServeConn
  <2>4. ASSUME NEW r \in Reqs, S!SendRequest(r) \/ S!HandleRequest(r) PROVE ConnInv'
    BY <2>4, LoopKeeps, MeetKeeps, RespondKeeps DEF S!HandleRequest
  <2> QED
    BY <2>1, <2>2, <2>3, <2>4 DEF S!Next
<1> QED
  BY <1>1, ConnInit, PTL DEF S!Spec

\* A dial that failed has left no connection open (client.go:247-277).
THEOREM NoConnLeftAlways == S!Spec => []NoConnLeft
<1>1. ConnInv => NoConnLeft
  BY DEF ConnInv
<1> QED
  BY <1>1, ConnInvAlways, PTL

\* The responses on a connection are whole and no request has two; the server's end
\* is closed under a client that is still there only when every request it accepted
\* has its own, or by a reply that gob cannot encode, whose header is the last thing
\* sent (server.go:74-92, 166-195, gob.go:37-57).
THEOREM AnsweredOnceAlways == S!Spec => []AnsweredOnce
<1>1. ConnInv => AnsweredOnce
  <2> SUFFICES ASSUME ConnInv PROVE AnsweredOnce
    OBVIOUS
  <2> USE DEF ConnInv
  <2>1. ASSUME NEW r \in Reqs
        PROVE  S!Responses(r) <= 1 /\ ((\E i \in DOMAIN out : out[i] = <<"body", r>>) => S!Responses(r) = 1)
    <3> DEFINE B == {i \in DOMAIN out : out[i] = <<"body", r>>}
    <3>3. S!Responses(r) = Cardinality(B)
      BY DEF S!Responses, S!Cardinality, Cardinality
    <3>4. (\E i \in DOMAIN out : out[i] = <<"body", r>>) => B # {}
      OBVIOUS
    <3>1. CASE B = {}
      <4> HIDE DEF B
      <4> QED
        BY <3>1, <3>3, <3>4, FS_EmptySet
    <3>2. CASE B # {}
      <4>1. PICK i \in B : TRUE
        BY <3>2
      <4>2. B = {i}
        BY <4>1 DEF BodiesKept
      <4>3. Cardinality(B) = 1
        BY <4>2, FS_Singleton
      <4> HIDE DEF B
      <4> QED
        BY <4>3, <3>3
    <3> QED
      BY <3>1, <3>2
  <2>3. (clientUp /\ ~serverUp) => (S!CutShort \/ srv = "closed")
    BY DEF EndsKept
  <2>2. ASSUME srv = "closed", clientUp, ~S!CutShort, NEW r \in S!Accepted PROVE S!Responses(r) = 1
    <3>1. r \in Reqs /\ h[r] \in {"refused", "done"} /\ bad = None
      BY <2>2 DEF S!Accepted, EndsKept, PhasesKept
    <3>2. ~Owed(r)
      BY <3>1, ConnAssumption DEF Owed
    <3> QED
      BY <3>1, <3>2, <2>1, <2>2 DEF BodiesKept
  <2> QED
    BY <2>1, <2>2, <2>3 DEF AnsweredOnce, S!AnsweredOnce, FramesKept
<1> QED
  BY <1>1, ConnInvAlways, PTL
=============================================================================
