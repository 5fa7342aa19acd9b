------------------------------ MODULE RpcPool ------------------------------
(***************************************************************************)
(* The connection pools of a sonnet-rpc-v2 client: getPool and Close of    *)
(* client.go, Acquire and Close of transport/tcp_connection_pool.go.       *)
(* Every operation of a pool runs under its mutex; the client's map of     *)
(* pools is a sync.Map, whose Range meets the entries one by one.          *)
(***************************************************************************)
EXTENDS Naturals, Sequences, FiniteSets

CONSTANTS Addrs, Ids, None, MaxActive

\* A ConnectionPool: at most maxActive connections, the one to look at first.
Pool == [conns : UNION {[1 .. n -> Ids] : n \in 0 .. MaxActive}, next : 0 .. MaxActive - 1, closed : BOOLEAN]

ASSUME PoolAssumption ==
  /\ MaxActive \in Nat \ {0}
  /\ None \notin Ids /\ None \notin Addrs /\ None \notin Pool

VARIABLES
  pools,    \* the pool of each address: its connections, next, closed; None before getPool
  conn,     \* each connection: "none", "live", "dead"
  home,     \* the address each connection was made for
  closer,   \* Client.Close: "idle", "range", "over"
  todo      \* the pools it has not met

vars == <<pools, conn, home, closer, todo>>

NewPool == [conns |-> <<>>, next |-> 0, closed |-> FALSE]

Init ==
  /\ pools = [a \in Addrs |-> None]
  /\ conn = [i \in Ids |-> "none"] /\ home = [i \in Ids |-> None]
  /\ closer = "idle" /\ todo = {}

\* LoadOrStore; Range may or may not meet a pool that is stored meanwhile.
GetPool(a) ==
  /\ pools[a] = None
  /\ pools' = [pools EXCEPT ![a] = NewPool]
  /\ todo' \in IF closer = "range" THEN {todo, todo \cup {a}} ELSE {todo}
  /\ UNCHANGED <<conn, home, closer>>

\* newTCPClient: a connection at the end of the list, or an error.
Connect(a, conns, next) ==
  \/ \E i \in Ids :
       /\ conn[i] = "none"
       /\ conn' = [conn EXCEPT ![i] = "live"] /\ home' = [home EXCEPT ![i] = a]
       /\ pools' = [pools EXCEPT ![a] = [@ EXCEPT !.conns = Append(conns, i), !.next = next]]
  \/ /\ pools' = [pools EXCEPT ![a] = [@ EXCEPT !.conns = conns, !.next = next]]
     /\ UNCHANGED <<conn, home>>

\* Faulty variant: the connection after the dead one is removed.
RemoveNext(seq, i) ==
  IF i = Len(seq) THEN SubSeq(seq, 1, i - 1)
  ELSE SubSeq(seq, 1, i) \o SubSeq(seq, i + 2, Len(seq))

Remove(seq, i) == SubSeq(seq, 1, i - 1) \o SubSeq(seq, i + 1, Len(seq))

\* An iteration of the loop of Acquire, the n-th, from what the one before left: a
\* connection that lives is found, a dead one removed.
ScanStep(p, s, n) ==
  LET len == Len(s.conns)  at == ((p.next + n - 1) % len) + 1 IN
  IF s.found # None \/ n - 1 >= len THEN s
  ELSE IF conn[s.conns[at]] = "live"
       THEN [s EXCEPT !.found = s.conns[at], !.next = at % len]
       ELSE [s EXCEPT !.conns = Remove(s.conns, at)]

\* The loop after k iterations: i counts up while the list gets shorter, so a
\* connection behind a dead one may be passed over.
Scan(p, k) ==
  LET S[n \in 0 .. k] == IF n = 0 THEN [conns |-> p.conns, found |-> None, next |-> p.next]
                                  ELSE ScanStep(p, S[n - 1], n)
  IN S[k]

\* Acquire: a new connection while the pool is not full; then the next one that
\* lives, removing dead ones; then a new one again.
Acquire(a) ==
  LET p == pools[a] IN
  /\ p # None /\ ~p.closed
  /\ IF Len(p.conns) < MaxActive
     THEN Connect(a, p.conns, p.next)
     ELSE LET s == Scan(p, Len(p.conns)) IN
          IF s.found # None
          THEN /\ pools' = [pools EXCEPT ![a] = [@ EXCEPT !.conns = s.conns, !.next = s.next]]
               /\ UNCHANGED <<conn, home>>
          ELSE Connect(a, s.conns, s.next)
  /\ UNCHANGED <<closer, todo>>

\* The connection fails (TCPClient.fail).
Break(i) ==
  /\ conn[i] = "live" /\ conn' = [conn EXCEPT ![i] = "dead"]
  /\ UNCHANGED <<pools, home, closer, todo>>

Close ==
  /\ closer = "idle" /\ closer' = "range"
  /\ todo' = {a \in Addrs : pools[a] # None}
  /\ UNCHANGED <<pools, conn, home>>

ClosePool(a) ==
  /\ closer = "range" /\ a \in todo /\ todo' = todo \ {a}
  /\ pools' = [pools EXCEPT ![a].closed = TRUE]
  /\ conn' = [i \in Ids |-> IF \E k \in DOMAIN pools[a].conns : pools[a].conns[k] = i
                            THEN "dead" ELSE conn[i]]
  /\ UNCHANGED <<home, closer>>

CloseReturns ==
  /\ closer = "range" /\ todo = {} /\ closer' = "over"
  /\ UNCHANGED <<pools, conn, home, todo>>

Next ==
  \/ \E a \in Addrs : GetPool(a) \/ Acquire(a) \/ ClosePool(a)
  \/ \E i \in Ids : Break(i)
  \/ Close \/ CloseReturns

Spec == Init /\ [][Next]_vars

-----------------------------------------------------------------------------
\* Properties.

Listed(a, i) == {k \in DOMAIN pools[a].conns : pools[a].conns[k] = i}

\* A pool holds at most maxActive connections although Acquire shortens the list
\* it iterates, and knows every connection it made that is still alive, so none
\* outlives Close (tcp_connection_pool.go:32-89).
PoolKeepsTrack ==
  /\ \A a \in Addrs : pools[a] # None =>
       /\ Len(pools[a].conns) <= MaxActive
       /\ pools[a].closed => \A i \in Ids : home[i] = a => conn[i] = "dead"
  /\ \A i \in Ids : conn[i] = "live" => Cardinality(Listed(home[i], i)) = 1
=============================================================================
