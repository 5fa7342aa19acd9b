---------------------------- MODULE RpcRegistry ----------------------------
(***************************************************************************)
(* Finding servers in sonnet-rpc: the registry and the heartbeats of the   *)
(* servers (registry/registry.go), the discovery that keeps a copy of the  *)
(* list (client/discovery*.go) and the client that calls one server or all *)
(* of them over connections it keeps (client/client.go).                   *)
(*                                                                         *)
(* Time is counted in minutes.  A heartbeat that is due is sent before the *)
(* clock moves on.  Servers are their addresses, in their order.           *)
(***************************************************************************)
EXTENDS Naturals, FiniteSets

CONSTANTS
  Servers, None,
  Timeout,   \* of the registry; defaultTimeout is 5 minutes
  Every,     \* the heartbeat; Timeout - 1 by default
  Update,    \* the discovery's own timeout
  MaxTime

ASSUME RegistryAssumption ==
  /\ Servers \subseteq Nat /\ IsFiniteSet(Servers) /\ None \notin Nat
  /\ Timeout \in Nat \ {0} /\ Every \in 1 .. Timeout - 1 /\ Update \in Nat /\ MaxTime \in Nat

VARIABLES
  mode,       \* the configuration: "time" passes, or "calls" are made meanwhile
  now,
  start,      \* registry: when each server was last heard of, None when not listed
  beat,       \* Heartbeat of each server: "off", "on", "stopped"
  due,        \* when its ticker fires next
  servers,    \* discovery: the copy of the list
  updated,    \* lastUpdate, None at first
  next,       \* discovery: index
  conn,       \* the client's connection to each server: "none", "up", "down"
  cast,       \* Broadcast: "idle", "running", "over"
  result,     \* its calls: "none", "todo", "calling", "ok", "err", "canceled"
  firstErr,   \* e: the server whose call gave the error, None for nil
  reply,      \* the server whose reply was copied
  got         \* history: the server the last Get returned, and how long it had been silent

listVars == <<servers, updated, next>>
castVars == <<cast, result, firstErr, reply>>
vars == <<mode, now, start, beat, due, listVars, conn, castVars, got>>

Init ==
  /\ mode \in {"time", "calls"}
  /\ now = 0 /\ start = [s \in Servers |-> None]
  /\ beat = [s \in Servers |-> "off"] /\ due = [s \in Servers |-> 0]
  /\ servers = {} /\ updated = None /\ next \in 0 .. Cardinality(Servers)
  /\ conn = [s \in Servers |-> "none"]
  /\ cast = "idle" /\ result = [s \in Servers |-> "none"] /\ firstErr = None /\ reply = None
  /\ got = [server |-> None, silent |-> 0]

-----------------------------------------------------------------------------
PutServer(s) == start' = [start EXCEPT ![s] = now]

\* sendHeartbeat; an error ends the loop.
SendHeartbeat(s) ==
  \/ /\ PutServer(s)
     /\ beat' = [beat EXCEPT ![s] = "on"] /\ due' = [due EXCEPT ![s] = now + Every]
  \/ beat' = [beat EXCEPT ![s] = "stopped"] /\ UNCHANGED <<start, due>>

\* Heartbeat sends once and then at every tick of its ticker, until one fails.
Heartbeat(s) ==
  /\ beat[s] = "off" \/ (beat[s] = "on" /\ now >= due[s])
  /\ SendHeartbeat(s)
  /\ UNCHANGED <<mode, now, listVars, conn, castVars, got>>

\* The server process ends and its ticker with it; another one may come up.
Leave(s) ==
  /\ beat[s] # "off"
  /\ beat' = [beat EXCEPT ![s] = "off"]
  /\ conn' = [conn EXCEPT ![s] = IF @ = "up" THEN "down" ELSE @]
  /\ UNCHANGED <<mode, now, start, due, listVars, castVars, got>>

Tick ==
  /\ mode = "time" /\ now < MaxTime /\ \A s \in Servers : beat[s] = "on" => now < due[s]
  /\ now' = now + 1
  /\ UNCHANGED <<mode, start, beat, due, listVars, conn, castVars, got>>

\* Faulty variant: a server that was heard of stays on the list.
AliveForever == {s \in Servers : start[s] # None}

\* aliveServers.
Alive == {s \in Servers : start[s] # None /\ start[s] + Timeout > now}

\* GET at the registry: the list of those alive; the others are dropped.
ServeHTTP ==
  /\ servers' = Alive
  /\ start' = [s \in Servers |-> IF s \in Alive THEN start[s] ELSE None]

\* Refresh asks the registry, unless the copy is recent.
Recent == updated # None /\ updated + Update > now
Refresh ==
  \/ Recent /\ UNCHANGED <<start, servers, updated>>
  \/ ~Recent /\ ServeHTTP /\ updated' = now
GetAll == Refresh

\* The servers in the order of their addresses.
Nth(S, i) == CHOOSE s \in S : Cardinality({t \in S : t < s}) = i

Took(s) == got' = [server |-> s, silent |-> now - start[s]]

\* Get of the discovery: round robin, or any server.
Get ==
  /\ Refresh
  /\ LET n == Cardinality(servers') IN
     IF n = 0
     THEN UNCHANGED <<next, got>>
     ELSE \/ Took(Nth(servers', next % n)) /\ next' = (next + 1) % n
          \/ (\E s \in servers' : Took(s)) /\ UNCHANGED next
  /\ UNCHANGED <<mode, now, beat, due, conn, castVars>>

\* dial: a connection that is down is closed and made again.
Dial(s, up) ==
  /\ IF up THEN conn[s] = "up" \/ beat[s] # "off" ELSE conn[s] # "up"
  /\ conn' = [conn EXCEPT ![s] = IF up THEN "up" ELSE "none"]

\* Call dials the server that Get gave; what it does then is RpcClient.
Call ==
  /\ mode = "calls" /\ got.server # None
  /\ \E up \in BOOLEAN : Dial(got.server, up)
  /\ UNCHANGED <<mode, now, start, beat, due, listVars, castVars, got>>

-----------------------------------------------------------------------------
\* Broadcast: GetAll, then a goroutine for every server.
Broadcast ==
  /\ mode = "calls" /\ cast = "idle" /\ GetAll
  /\ cast' = "running"
  /\ result' = [s \in Servers |-> IF s \in servers' THEN "todo" ELSE "none"]
  /\ UNCHANGED <<mode, now, beat, due, next, conn, firstErr, reply, got>>

\* Faulty variant: the last error is kept.
MergeLast(s, outcome) ==
  /\ result' = [result EXCEPT ![s] = outcome]
  /\ firstErr' = IF outcome # "ok" THEN s ELSE firstErr
  /\ reply' = IF outcome = "ok" /\ reply = None THEN s ELSE reply
  /\ UNCHANGED <<mode, now, start, beat, due, listVars, cast, got>>

\* The goroutine finishes under `mu': the first error is kept and cancels the others.
Merge(s, outcome) ==
  /\ result' = [result EXCEPT ![s] = outcome]
  /\ firstErr' = IF outcome # "ok" /\ firstErr = None THEN s ELSE firstErr
  /\ reply' = IF outcome = "ok" /\ reply = None THEN s ELSE reply
  /\ UNCHANGED <<mode, now, start, beat, due, listVars, cast, got>>

CastDial(s) ==
  /\ result[s] = "todo"
  /\ \/ /\ Dial(s, TRUE) /\ result' = [result EXCEPT ![s] = "calling"]
        /\ UNCHANGED <<mode, now, start, beat, due, listVars, cast, firstErr, reply, got>>
     \/ Dial(s, FALSE) /\ Merge(s, "err")

CastReturns(s) ==
  /\ result[s] = "calling"
  /\ \/ conn[s] = "up" /\ Merge(s, "ok")
     \/ Merge(s, "err")
     \/ firstErr # None /\ Merge(s, "canceled")
  /\ UNCHANGED conn

CastEnds ==
  /\ cast = "running" /\ \A s \in Servers : result[s] \notin {"todo", "calling"}
  /\ cast' = "over"
  /\ UNCHANGED <<mode, now, start, beat, due, listVars, conn, result, firstErr, reply, got>>

\* Close drops every connection.
CloseAll ==
  /\ cast = "over" /\ \E s \in Servers : conn[s] # "none"
  /\ conn' = [s \in Servers |-> "none"]
  /\ UNCHANGED <<mode, now, start, beat, due, listVars, castVars, got>>

Next ==
  \/ \E s \in Servers : Heartbeat(s) \/ Leave(s) \/ CastDial(s) \/ CastReturns(s)
  \/ Tick \/ Get \/ Call \/ Broadcast \/ CastEnds \/ CloseAll

Spec == Init /\ [][Next]_vars

-----------------------------------------------------------------------------
\* Properties.

\* A server that has never missed a heartbeat is on the list at any moment
\* (registry.go:52-65, 98-113: the ticker leaves a minute before the entry is
\* dropped), and discovery never hands out one that has been silent for longer
\* than both timeouts together (discovery_sonnet.go:27-61).
DiscoveryAccurate ==
  /\ \A s \in Servers : (beat[s] = "on" /\ now < due[s]) => s \in Alive
  /\ got.silent < Timeout + Update

\* Broadcast returns nil only when every server on its list has answered, and
\* then with a reply unless the list was empty; the error it returns is one a
\* server caused, never the cancellation that followed from it
\* (client.go:76-109).
BroadcastHonest ==
  cast = "over" =>
    IF firstErr = None
    THEN /\ \A s \in Servers : result[s] \in {"none", "ok"}
         /\ (reply = None) = (\A s \in Servers : result[s] = "none")
    ELSE result[firstErr] = "err"
=============================================================================
