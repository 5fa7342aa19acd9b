---------------------------- MODULE SingleFlight ----------------------------
(***************************************************************************)
(* Duplicate suppression of sonnet-cache (single_flight/single_flight.go). *)
(*                                                                         *)
(* Each member of Callers is one invocation of Do.  A `call' object is     *)
(* identified with the invocation that created it; the map m holds at most *)
(* one per key.  fn is the user's loader: it takes any time, returns any   *)
(* value (an error is a value), or panics, which unwinds Do.               *)
(***************************************************************************)
EXTENDS Naturals, FiniteSets

CONSTANTS
  Callers, FlightKeys, Values,
  None        \* no call object, no value yet

ASSUME SingleFlightAssumption == None \notin Callers \cup Values

VARIABLES
  m,        \* g.m
  pc,       \* where each invocation of Do is
  key,      \* its argument
  ref,      \* the call object it uses: its own, or the one it waits on
  val,      \* c.val, c.err of the call object it created
  result    \* what it returned

flightVars == <<m, pc, key, ref, val, result>>

FlightInit ==
  /\ m = [k \in FlightKeys |-> None]
  /\ pc = [p \in Callers |-> "idle"]
  /\ key \in [Callers -> FlightKeys]
  /\ ref = [p \in Callers |-> None]
  /\ val = [p \in Callers |-> None]
  /\ result = [p \in Callers |-> None]

\* Faulty variant: the new call is not entered in the map.
EnterUnrecorded(p) ==
  /\ pc[p] = "idle"
  /\ ref' = [ref EXCEPT ![p] = p]
  /\ pc' = [pc EXCEPT ![p] = "exec"]
  /\ UNCHANGED <<m, key, val, result>>

\* g.mu.Lock() ... g.mu.Unlock(): find a call for the key or enter a new one.
Enter(p) ==
  /\ pc[p] = "idle"
  /\ \/ /\ m[key[p]] # None
        /\ ref' = [ref EXCEPT ![p] = m[key[p]]]
        /\ pc' = [pc EXCEPT ![p] = "wait"]
        /\ UNCHANGED m
     \/ /\ m[key[p]] = None
        /\ ref' = [ref EXCEPT ![p] = p]
        /\ m' = [m EXCEPT ![key[p]] = p]
        /\ pc' = [pc EXCEPT ![p] = "exec"]
  /\ UNCHANGED <<key, val, result>>

\* c.val, c.err = fn(); c.wg.Done()
Execute(p, v) ==
  /\ pc[p] = "exec"
  /\ val' = [val EXCEPT ![p] = v]
  /\ pc' = [pc EXCEPT ![p] = "cleanup"]
  /\ UNCHANGED <<m, key, ref, result>>

\* fn panics: neither wg.Done nor the delete is deferred.
Panic(p) ==
  /\ pc[p] = "exec"
  /\ pc' = [pc EXCEPT ![p] = "panicked"]
  /\ UNCHANGED <<m, key, ref, val, result>>

\* Faulty variant: the call stays in the map.
LeaveEntered(p) ==
  /\ pc[p] = "cleanup"
  /\ result' = [result EXCEPT ![p] = val[p]]
  /\ pc' = [pc EXCEPT ![p] = "returned"]
  /\ UNCHANGED <<m, key, ref, val>>

\* delete(g.m, key) under the mutex, then return.
Leave(p) ==
  /\ pc[p] = "cleanup"
  /\ m' = [m EXCEPT ![key[p]] = None]
  /\ result' = [result EXCEPT ![p] = val[p]]
  /\ pc' = [pc EXCEPT ![p] = "returned"]
  /\ UNCHANGED <<key, ref, val>>

\* Faulty variants: a duplicate does not wait; the end of fn is signalled but
\* not remembered for those who come to wait later.
WakeEarly(p) ==
  /\ pc[p] = "wait"
  /\ result' = [result EXCEPT ![p] = val[ref[p]]]
  /\ pc' = [pc EXCEPT ![p] = "returned"]
  /\ UNCHANGED <<m, key, ref, val>>
WakeSignal(p) == pc[p] = "wait" /\ pc[ref[p]] = "cleanup" /\ WakeEarly(p)

\* c.wg.Wait() returns once the creator of the call has run wg.Done.
Wake(p) ==
  /\ pc[p] = "wait" /\ pc[ref[p]] \in {"cleanup", "returned"}
  /\ result' = [result EXCEPT ![p] = val[ref[p]]]
  /\ pc' = [pc EXCEPT ![p] = "returned"]
  /\ UNCHANGED <<m, key, ref, val>>

Step(p) ==
  \/ Enter(p)
  \/ \E v \in Values : Execute(p, v)
  \/ Leave(p) \/ Wake(p)

FlightNext == \E p \in Callers : Step(p) \/ Panic(p)

FlightSpec == FlightInit /\ [][FlightNext]_flightVars

-----------------------------------------------------------------------------
FlightTypeOK ==
  /\ m \in [FlightKeys -> Callers \cup {None}]
  /\ pc \in [Callers -> {"idle", "miss", "wait", "exec", "cleanup", "panicked", "returned"}]
  /\ key \in [Callers -> FlightKeys]
  /\ ref \in [Callers -> Callers \cup {None}]
  /\ val \in [Callers -> Values \cup {None}]
  /\ result \in [Callers -> Values \cup {None}]

\* Do makes "sure that only one execution is in-flight for a given key at a
\* time": two invocations for one key are never both running fn.
OneInFlight ==
  \A p, q \in Callers : pc[p] = "exec" /\ pc[q] = "exec" /\ key[p] = key[q] => p = q

\* The map never holds a call that is over, which would answer every later Do
\* for that key with an old result: its creator has yet to delete it, or fn
\* panicked and it stays for good (single_flight.go:26-46).
EntryOwned ==
  \A k \in FlightKeys : m[k] # None =>
    pc[m[k]] \in {"exec", "cleanup", "panicked"} /\ key[m[k]] = k

\* "The duplicate caller ... receives the same results": whoever returned got
\* the value of an execution of fn for its own key, after that had ended.
SameResult ==
  \A p \in Callers : pc[p] = "returned" =>
    /\ ref[p] # None /\ key[ref[p]] = key[p]
    /\ val[ref[p]] # None /\ result[p] = val[ref[p]]

-----------------------------------------------------------------------------
\* Call objects in use were created for the same key, and are finished when
\* somebody has returned their value.
References ==
  \A p \in Callers :
    /\ pc[p] \in {"exec", "cleanup", "panicked"} => ref[p] = p
    /\ pc[p] \in {"wait", "returned"} =>
         /\ ref[p] # None /\ key[ref[p]] = key[p]
         /\ ref[p] = p \/ ref[ref[p]] = ref[p]
    /\ pc[p] = "wait" => pc[ref[p]] \in {"exec", "cleanup", "panicked", "returned"}
    /\ pc[p] \in {"cleanup", "returned"} => val[ref[p]] # None
    /\ pc[p] = "returned" => result[p] = val[ref[p]] /\ pc[ref[p]] \in {"cleanup", "returned"}

\* The inductive invariant of Do: who is running fn or cleaning up is the one in
\* the map under its key, besides what References and EntryOwned say.
IInv ==
  /\ FlightTypeOK /\ EntryOwned /\ References
  /\ \A p \in Callers :
       /\ pc[p] # "miss"
       /\ pc[p] \in {"exec", "cleanup", "panicked"} => m[key[p]] = p
=============================================================================
