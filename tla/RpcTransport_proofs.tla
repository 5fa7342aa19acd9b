------------------------- MODULE RpcTransport_proofs -------------------------
(***************************************************************************)
(* Proofs about RpcTransport, for every set of concurrent invocations.     *)
(***************************************************************************)
EXTENDS RpcTransport, TLAPS

USE DEF failVars, readVars, netVars

\* A new connection satisfies the inductive invariant.
LEMMA InitIInv == Init => IInv
<1> SUFFICES ASSUME Init PROVE IInv
  OBVIOUS
<1> USE TransportAssumption DEF Init
<1>1. TypeOK
  <2>1. closed \in BOOLEAN /\ connUp \in BOOLEAN /\ peerUp \in BOOLEAN
    BY Zenon
  <2> QED
    BY <2>1 DEF TypeOK
<1>2. Phases
  BY DEF Phases
<1>3. Tracking /\ SoleOwner
  BY DEF Tracking, SoleOwner
<1> QED
  BY <1>1, <1>2, <1>3 DEF IInv

\* Every step of SendAsync, fail, readLoop, Close and the network preserves it.
LEMMA NextIInv == IInv /\ [Next]_vars => IInv'
<1> SUFFICES ASSUME IInv, [Next]_vars PROVE IInv'
  OBVIOUS
<1> USE TransportAssumption
<1>1. ASSUME NEW c \in Calls, SendCheck(c) PROVE IInv'
  <2>1. TypeOK'
    BY <1>1 DEF IInv, TypeOK, SendCheck, GoTo
  <2>2. Phases'
    BY <1>1 DEF IInv, TypeOK, Phases, Tracking, SendCheck, GoTo
  <2>3. Tracking'
    BY <1>1 DEF IInv, TypeOK, Phases, Tracking, SendCheck, GoTo
  <2>4. SoleOwner'
    BY <1>1 DEF IInv, TypeOK, Phases, Tracking, SoleOwner, SendCheck, GoTo
  <2> QED
    BY <2>1, <2>2, <2>3, <2>4 DEF IInv
<1>2. ASSUME NEW c \in Calls, SendStore(c) PROVE IInv'
  <2>1. TypeOK'
    BY <1>2 DEF IInv, TypeOK, SendStore, GoTo
  <2>2. Phases'
    BY <1>2 DEF IInv, TypeOK, Phases, Tracking, SendStore, GoTo
  <2>3. Tracking'
    BY <1>2 DEF IInv, TypeOK, Phases, Tracking, SendStore, GoTo
  <2>4. SoleOwner'
    BY <1>2 DEF IInv, TypeOK, Phases, Tracking, SoleOwner, SendStore, GoTo
  <2> QED
    BY <2>1, <2>2, <2>3, <2>4 DEF IInv
<1>3. ASSUME NEW c \in Calls, SendWrite(c) PROVE IInv'
  <2>1. TypeOK'
    BY <1>3 DEF IInv, TypeOK, SendWrite, GoTo
  <2>2. Phases'
    BY <1>3 DEF IInv, TypeOK, Phases, Tracking, SendWrite, GoTo
  <2>3. Tracking'
    BY <1>3 DEF IInv, TypeOK, Phases, Tracking, SendWrite, GoTo
  <2>4. SoleOwner'
    BY <1>3 DEF IInv, TypeOK, Phases, Tracking, SoleOwner, SendWrite, GoTo
  <2> QED
    BY <2>1, <2>2, <2>3, <2>4 DEF IInv
<1>4. ASSUME NEW c \in Calls, SendWriteErr(c) PROVE IInv'
  <2>1. TypeOK'
    BY <1>4 DEF IInv, TypeOK, SendWriteErr, GoTo
  <2>2. Phases'
    BY <1>4 DEF IInv, TypeOK, Phases, Tracking, SendWriteErr, GoTo
  <2>3. Tracking'
    BY <1>4 DEF IInv, TypeOK, Phases, Tracking, SendWriteErr, GoTo
  <2>4. SoleOwner'
    BY <1>4 DEF IInv, TypeOK, Phases, Tracking, SoleOwner, SendWriteErr, GoTo
  <2> QED
    BY <2>1, <2>2, <2>3, <2>4 DEF IInv
<1>5. ASSUME NEW c \in Calls, Respond(c) PROVE IInv'
  <2>1. TypeOK'
    BY <1>5 DEF IInv, TypeOK, Respond
  <2>2. Phases'
    BY <1>5 DEF IInv, TypeOK, Phases, Tracking, Respond
  <2>3. Tracking'
    BY <1>5 DEF IInv, TypeOK, Phases, Tracking, Respond
  <2>4. SoleOwner'
    BY <1>5 DEF IInv, TypeOK, Phases, Tracking, SoleOwner, Respond
  <2> QED
    BY <2>1, <2>2, <2>3, <2>4 DEF IInv
<1>6. ASSUME NEW a \in Calls \cup {Reader}, FailCas(a) PROVE IInv'
  <2>1. TypeOK'
    BY <1>6 DEF IInv, TypeOK, FailCas, AtFail, LeaveFail
  <2>2. Phases'
    BY <1>6 DEF IInv, TypeOK, Phases, Tracking, FailCas, AtFail, LeaveFail
  <2>3. Tracking'
    BY <1>6 DEF IInv, TypeOK, Phases, Tracking, FailCas, AtFail, LeaveFail
  <2>4. SoleOwner'
    BY <1>6 DEF IInv, TypeOK, Phases, Tracking, SoleOwner, FailCas, AtFail, LeaveFail
  <2> QED
    BY <2>1, <2>2, <2>3, <2>4 DEF IInv
<1>7. ASSUME FailClose PROVE IInv'
  <2>1. TypeOK'
    BY <1>7 DEF IInv, TypeOK, FailClose
  <2>2. Phases'
    BY <1>7 DEF IInv, TypeOK, Phases, Tracking, FailClose
  <2>3. Tracking'
    BY <1>7 DEF IInv, TypeOK, Phases, Tracking, FailClose
  <2>4. SoleOwner'
    BY <1>7 DEF IInv, TypeOK, Phases, Tracking, SoleOwner, FailClose
  <2> QED
    BY <2>1, <2>2, <2>3, <2>4 DEF IInv
<1>8. ASSUME NEW k \in Calls, RangeLoad(k) PROVE IInv'
  <2>1. TypeOK'
    BY <1>8 DEF IInv, TypeOK, RangeLoad
  <2>2. Phases'
    BY <1>8 DEF IInv, TypeOK, Phases, Tracking, RangeLoad
  <2>3. Tracking'
    BY <1>8 DEF IInv, TypeOK, Phases, Tracking, RangeLoad
  <2>4. SoleOwner'
    BY <1>8 DEF IInv, TypeOK, Phases, Tracking, SoleOwner, RangeLoad
  <2> QED
    BY <2>1, <2>2, <2>3, <2>4 DEF IInv
<1>9. ASSUME RangeDone PROVE IInv'
  <2>1. TypeOK'
    BY <1>9 DEF IInv, TypeOK, Phases, RangeDone, Done
  <2>2. Phases'
    BY <1>9 DEF IInv, TypeOK, Phases, Tracking, RangeDone, Done
  <2>3. Tracking'
    BY <1>9 DEF IInv, TypeOK, Phases, Tracking, RangeDone, Done
  <2>4. SoleOwner'
    BY <1>9 DEF IInv, TypeOK, Phases, Tracking, SoleOwner, RangeDone, Done
  <2> QED
    BY <2>1, <2>2, <2>3, <2>4 DEF IInv
<1>10. ASSUME RangeDelete PROVE IInv'
  <2>1. TypeOK'
    BY <1>10 DEF IInv, TypeOK, RangeDelete
  <2>2. Phases'
    BY <1>10 DEF IInv, TypeOK, Phases, Tracking, RangeDelete
  <2>3. Tracking'
    BY <1>10 DEF IInv, TypeOK, Phases, Tracking, RangeDelete
  <2>4. SoleOwner'
    BY <1>10 DEF IInv, TypeOK, Phases, Tracking, SoleOwner, RangeDelete
  <2> QED
    BY <2>1, <2>2, <2>3, <2>4 DEF IInv
<1>11. ASSUME RangeEnd PROVE IInv'
  <2>1. TypeOK'
    BY <1>11 DEF IInv, TypeOK, Phases, RangeEnd, LeaveFail
  <2>2. Phases'
    BY <1>11 DEF IInv, TypeOK, Phases, Tracking, RangeEnd, LeaveFail
  <2>3. Tracking'
    BY <1>11 DEF IInv, TypeOK, Phases, Tracking, RangeEnd, LeaveFail
  <2>4. SoleOwner'
    BY <1>11 DEF IInv, TypeOK, Phases, Tracking, SoleOwner, RangeEnd, LeaveFail
  <2> QED
    BY <2>1, <2>2, <2>3, <2>4 DEF IInv
<1>12. ASSUME NEW c \in Calls, ReadMsg(c) PROVE IInv'
  <2>1. TypeOK'
    BY <1>12 DEF IInv, TypeOK, ReadMsg
  <2>2. Phases'
    BY <1>12 DEF IInv, TypeOK, Phases, Tracking, ReadMsg
  <2>3. Tracking'
    BY <1>12 DEF IInv, TypeOK, Phases, Tracking, ReadMsg
  <2>4. SoleOwner'
    BY <1>12 DEF IInv, TypeOK, Phases, Tracking, SoleOwner, ReadMsg
  <2> QED
    BY <2>1, <2>2, <2>3, <2>4 DEF IInv
<1>13. ASSUME ReadErr PROVE IInv'
  <2>1. TypeOK'
    BY <1>13 DEF IInv, TypeOK, ReadErr
  <2>2. Phases'
    BY <1>13 DEF IInv, TypeOK, Phases, Tracking, ReadErr
  <2>3. Tracking'
    BY <1>13 DEF IInv, TypeOK, Phases, Tracking, ReadErr
  <2>4. SoleOwner'
    BY <1>13 DEF IInv, TypeOK, Phases, Tracking, SoleOwner, ReadErr
  <2> QED
    BY <2>1, <2>2, <2>3, <2>4 DEF IInv
<1>14. ASSUME ReadTake PROVE IInv'
  <2>1. TypeOK'
    BY <1>14 DEF IInv, TypeOK, ReadTake
  <2>2. Phases'
    BY <1>14 DEF IInv, TypeOK, Phases, Tracking, ReadTake
  <2>3. Tracking'
    BY <1>14 DEF IInv, TypeOK, Phases, Tracking, ReadTake
  <2>4. SoleOwner'
    BY <1>14 DEF IInv, TypeOK, Phases, Tracking, SoleOwner, ReadTake
  <2> QED
    BY <2>1, <2>2, <2>3, <2>4 DEF IInv
<1>15. ASSUME ReadDone PROVE IInv'
  <2>1. TypeOK'
    BY <1>15 DEF IInv, TypeOK, Phases, ReadDone, Done
  <2>2. Phases'
    BY <1>15 DEF IInv, TypeOK, Phases, Tracking, ReadDone, Done
  <2>3. Tracking'
    BY <1>15 DEF IInv, TypeOK, Phases, Tracking, ReadDone, Done
  <2>4. SoleOwner'
    BY <1>15 DEF IInv, TypeOK, Phases, Tracking, SoleOwner, ReadDone, Done
  <2> QED
    BY <2>1, <2>2, <2>3, <2>4 DEF IInv
<1>16. ASSUME Close PROVE IInv'
  <2>1. TypeOK'
    BY <1>16 DEF IInv, TypeOK, Close
  <2>2. Phases'
    BY <1>16 DEF IInv, TypeOK, Phases, Tracking, Close
  <2>3. Tracking'
    BY <1>16 DEF IInv, TypeOK, Phases, Tracking, Close
  <2>4. SoleOwner'
    BY <1>16 DEF IInv, TypeOK, Phases, Tracking, SoleOwner, Close
  <2> QED
    BY <2>1, <2>2, <2>3, <2>4 DEF IInv
<1>17. ASSUME Break PROVE IInv'
  <2>1. TypeOK'
    BY <1>17 DEF IInv, TypeOK, Break
  <2>2. Phases'
    BY <1>17 DEF IInv, TypeOK, Phases, Tracking, Break
  <2>3. Tracking'
    BY <1>17 DEF IInv, TypeOK, Phases, Tracking, Break
  <2>4. SoleOwner'
    BY <1>17 DEF IInv, TypeOK, Phases, Tracking, SoleOwner, Break
  <2> QED
    BY <2>1, <2>2, <2>3, <2>4 DEF IInv
<1>18. CASE UNCHANGED vars
  BY <1>18 DEF vars, IInv, TypeOK, Phases, Tracking, SoleOwner
<1> QED
  BY <1>1, <1>2, <1>3, <1>4, <1>5, <1>6, <1>7, <1>8, <1>9, <1>10, <1>11, <1>12, <1>13, <1>14, <1>15, <1>16, <1>17, <1>18 DEF Next, SendStep, FailStep, ReadStep

\* The whereabouts of every future are known in every reachable state.
THEOREM FuturesTracked == Spec => []IInv
  BY InitIInv, NextIInv, PTL DEF Spec

\* Unless Close wins, no future that SendAsync handed out is left behind
\* incomplete, although closed is checked before the future is stored and Range
\* is no snapshot.
THEOREM NoFutureHangsAlways == Spec => []NoFutureHangs
<1>1. IInv => NoFutureHangs
  BY TransportAssumption DEF IInv, TypeOK, Phases, Tracking, NoFutureHangs, AllComplete, Unserved
<1> QED
  BY <1>1, FuturesTracked, PTL

\* Unless Close wins, the pending map drains when the connection is dead.
THEOREM PendingDrainsAlways == Spec => []PendingDrains
<1>1. IInv => PendingDrains
  BY TransportAssumption DEF IInv, TypeOK, Phases, Tracking, PendingDrains, Unserved
<1> QED
  BY <1>1, FuturesTracked, PTL

\* Only a sender's fail() can complete a future twice.
THEOREM DoubleDoneBySenderAlways == Spec => []DoubleDoneOnlyBySender
<1>1. IInv => DoubleDoneOnlyBySender
  BY DEF IInv, TypeOK, SoleOwner, DoubleDoneOnlyBySender, Panicked
<1> QED
  BY <1>1, FuturesTracked, PTL
=============================================================================
