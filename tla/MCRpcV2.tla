------------------------------ MODULE MCRpcV2 ------------------------------
(***************************************************************************)
(* A call of sonnet-rpc-v2 but for its transport, each part explored on    *)
(* its own: invocations behind the breaker of one address, the client's    *)
(* connection pools, the registry's cache of instances, and the server     *)
(* with two connections.                                                   *)
(***************************************************************************)
EXTENDS RpcPool, RpcInvoke, TLC

CONSTANTS Conns, Msgs, Size, Over, Rate, MaxFills, Setups, Finders, Watcher, MaxEvents,
          c1, c2, m1, m2

VARIABLES
  which,
  setup, listening, closing, crashed, served, up, tracked, written, writeMu, pipe, buffer, msg,
  garbled, replies, tokens, fills, downs, closes, late,
  etcd, changes, feed, cache, watch, event, pc, reads, writer, missed

Server == INSTANCE RpcServerV2 WITH conn <- served, todo <- closes
Directory == INSTANCE RpcDirectory

serverVars == <<setup, listening, closing, crashed, served, up, tracked, written, writeMu, pipe, buffer,
                msg, garbled, replies, tokens, fills, downs, closes, late>>
dirVars == <<etcd, changes, feed, cache, watch, event, pc, reads, writer, missed>>

\* What stands for nil is no set of addresses, no event and no message; every message
\* has units and a connection.
ASSUME V2Assumption ==
  /\ \A A \in SUBSET Addrs : A # None
  /\ \A e \in [addr : Addrs, put : BOOLEAN] : e # None
  /\ None \notin Msgs
  /\ Size \in [Msgs -> Nat \ {0}] /\ Over \in [Msgs -> Conns]

MCSize == m1 :> 2 @@ m2 :> 2
MCOver == m1 :> c1 @@ m2 :> c1
MCSetups == {[shutdowns |-> 0, unknown |-> {m2}], [shutdowns |-> 2, unknown |-> {}]}

MCInit ==
  /\ Init /\ InvokeInit /\ Server!Init /\ Directory!Init
  /\ which \in {"invoke", "server", "pool", "directory"}
  /\ which # "server" => setup = [shutdowns |-> 2, unknown |-> {}]
  /\ which # "directory" => etcd = {}

MCNext ==
  /\ UNCHANGED which
  /\ \/ which = "invoke" /\ InvokeNext /\ UNCHANGED <<vars, serverVars, dirVars>>
     \/ which = "server" /\ Server!Next /\ UNCHANGED <<invokeVars, vars, dirVars>>
     \/ which = "pool" /\ Next /\ UNCHANGED <<invokeVars, serverVars, dirVars>>
     \/ which = "directory" /\ Directory!Next /\ UNCHANGED <<invokeVars, vars, serverVars>>

\* Each part on its own: the others stand still, and owe nothing.
MCFairness ==
  /\ which = "invoke" => InvokeFairness
  /\ which = "directory" => Directory!Fairness

MCSpec == MCInit /\ [][MCNext]_<<which, invokeVars, vars, serverVars, dirVars>> /\ MCFairness

\* Requests cut into pieces are answered once each (tcp_connection.go:19-110): see
\* RpcServerV2.
OneAnswerEach == Server!OneAnswerEach

\* Shutdown closes every connection but the late ones (server.go:122-134): see
\* RpcServerV2.
ShutdownLeavesLate == Server!ShutdownLeavesLate

\* The cache of instances follows etcd (registry.go:97-156): see RpcDirectory.
CacheTracksEtcd == Directory!CacheTracksEtcd

\* Discover returns unless its nested read lock meets a writer (registry.go:79-94):
\* see RpcDirectory.
DiscoverEnds == Directory!DiscoverEnds
=============================================================================
