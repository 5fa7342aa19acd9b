---------------------------- MODULE MCLoadStore ----------------------------
(***************************************************************************)
(* How a value is loaded once and kept, each part explored on its own: Do  *)
(* of sonnet-cache, with its mutex; Do of sonnet-cache-v2, on a sync.Map;  *)
(* and the two-level store with two keys that evict each other in one      *)
(* bucket.                                                                 *)
(***************************************************************************)
EXTENDS SingleFlight, Lru2Store

CONSTANTS k1, k2, p1, p2, p3, p4

VARIABLES
  which,
  m2, pc2, key2, ref2, val2, result2    \* the state of the second Do

V2 == INSTANCE SingleFlightV2
        WITH m <- m2, pc <- pc2, key <- key2, ref <- ref2, val <- val2, result <- result2

vars2 == <<m2, pc2, key2, ref2, val2, result2>>

MCKeys == {k1, k2}
MCCallers == {p1, p2, p3, p4}
\* The keys share a bucket.
MCHash == k1 :> 1 @@ k2 :> 1

MCInit ==
  /\ which \in {"Do", "Do v2", "store"}
  /\ FlightInit /\ V2!FlightInit /\ key2 = key /\ Init
  /\ key[p1] = k1    \* or the same with the keys exchanged
  /\ which = "store" => key = [p \in Callers |-> k1]

MCNext ==
  /\ UNCHANGED which
  /\ \/ which = "Do" /\ FlightNext /\ UNCHANGED <<vars2, vars>>
     \/ which = "Do v2" /\ V2!NextV2 /\ UNCHANGED <<flightVars, vars>>
     \/ which = "store" /\ Next /\ UNCHANGED <<flightVars, vars2>>

\* Goroutines run on, fn returns (or panics), and ticks are delivered.
MCFairness ==
  /\ \A p \in Callers :
       /\ WF_flightVars(which = "Do" /\ (Step(p) \/ Panic(p)))
       /\ WF_vars2(which = "Do v2" /\ (V2!StepV2(p) \/ V2!Panic(p)))
  /\ WF_vars(which = "store" /\ CleanupTick)
  /\ WF_vars(which = "store" /\ CleanupBucket)

MCSpec == MCInit /\ [][MCNext]_<<which, flightVars, vars2, vars>> /\ MCFairness

\* p has its answer, or never gets one because fn panicked for its key.
Settled(p) ==
  CASE which = "Do" ->
         pc[p] = "returned" \/ \E q \in Callers : pc[q] = "panicked" /\ key[q] = key[p]
    [] which = "Do v2" ->
         pc2[p] = "returned" \/ \E q \in Callers : pc2[q] = "panicked" /\ key2[q] = key2[p]
    [] OTHER -> TRUE

\* Every invocation of Do returns in both versions, unless fn panicked for its
\* key; that of sonnet-cache-v2 with the result of an execution for its key,
\* although Load and Store there are two steps and Delete takes away whatever
\* call is under the key by then, and never the call of a caller that is through
\* (single_flight.go:26-46).
CallersServed == []V2!SameResult /\ []V2!EntryOwned /\ <>(\A p \in Callers : Settled(p))
=============================================================================
