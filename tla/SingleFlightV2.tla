--------------------------- MODULE SingleFlightV2 ---------------------------
(***************************************************************************)
(* Duplicate suppression of sonnet-cache-v2 (single_flight.go): the same   *)
(* algorithm on a sync.Map without a mutex.  Load and Store are separate   *)
(* steps, and Delete removes whatever call is under the key.  Everything   *)
(* after the Store is as in SingleFlight.                                  *)
(***************************************************************************)
EXTENDS SingleFlight

\* g.m.Load(key)
Load(p) ==
  /\ pc[p] = "idle"
  /\ \/ /\ m[key[p]] # None
        /\ ref' = [ref EXCEPT ![p] = m[key[p]]]
        /\ pc' = [pc EXCEPT ![p] = "wait"]
     \/ /\ m[key[p]] = None
        /\ pc' = [pc EXCEPT ![p] = "miss"]
        /\ UNCHANGED ref
  /\ UNCHANGED <<m, key, val, result>>

\* c := &call{}; g.m.Store(key, c), whatever is there by now.
Store(p) ==
  /\ pc[p] = "miss"
  /\ ref' = [ref EXCEPT ![p] = p]
  /\ m' = [m EXCEPT ![key[p]] = p]
  /\ pc' = [pc EXCEPT ![p] = "exec"]
  /\ UNCHANGED <<key, val, result>>

\* c.val, c.err = fn(); c.wg.Done()
Run(p) == \E v \in Values : Execute(p, v)

\* g.m.Delete(key), then return.
DeleteCall(p) == Leave(p)

StepV2(p) == Load(p) \/ Store(p) \/ Run(p) \/ DeleteCall(p) \/ Wake(p)

NextV2 == \E p \in Callers : StepV2(p) \/ Panic(p)

SpecV2 == FlightInit /\ [][NextV2]_flightVars /\ \A p \in Callers : WF_flightVars(StepV2(p) \/ Panic(p))
=============================================================================
