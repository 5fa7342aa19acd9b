--------------------------- MODULE MCRpcServices ---------------------------
(***************************************************************************)
(* The two halves of sonnet-rpc around its client, each explored on its    *)
(* own: a connection from the dial to the last response, with requests of  *)
(* every kind, and the registry with discovery and broadcasts.             *)
(***************************************************************************)
EXTENDS RpcRegistry, Sequences

CONSTANTS Reqs, Setups

VARIABLES which, setup, dial, maker, clientUp, serverUp, srv, opened, in, lost, skewed, bad,
          h, g, sending, out

\* No request, and no pair of a request and a sender, is the value that stands for nil.
ASSUME ConnAssumption ==
  None \notin Reqs /\ None \notin Reqs \X {"loop", "method", "timer"}

S == INSTANCE RpcServer
connVars == <<setup, dial, maker, clientUp, serverUp, srv, opened, in, lost, skewed, bad,
              h, g, sending, out>>

Kinds == {"fine", "unknown", "garbled", "hangs", "opaque"}
MCSetups == {[http |-> t, timed |-> t, kind |-> k] : t \in BOOLEAN, k \in [Reqs -> Kinds]}

MCInit ==
  /\ Init /\ S!Init
  /\ \/ which = "conn" /\ mode = "calls" /\ next = 0
     \/ which = "list" /\ setup = CHOOSE x \in Setups : TRUE

MCNext ==
  /\ UNCHANGED which
  /\ \/ which = "conn" /\ S!Next /\ UNCHANGED vars
     \/ which = "list" /\ Next /\ UNCHANGED connVars

MCSpec == MCInit /\ [][MCNext]_<<which, vars, connVars>> /\ S!Fairness

\* One whole response to each request (server.go:74-92, 166-195): see RpcServer.
AnsweredOnce == S!AnsweredOnce

\* A failed dial leaves no connection open (client.go:247-277): see RpcServer.
NoConnLeft == S!NoConnLeft

\* Requests are answered in the end (server.go:52-92, 133-195): see RpcServer.
RequestsEnd == S!RequestsEnd
=============================================================================
