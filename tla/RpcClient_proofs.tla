-------------------------- MODULE RpcClient_proofs --------------------------
(***************************************************************************)
(* Proofs about RpcClient, for every set of calls and every capacity of    *)
(* the shared Done channel.                                                *)
(***************************************************************************)
EXTENDS RpcClient, TLAPS

USE DEF clientVars, recvVars, netVars, doneVars, NextSeq, Rejects

\* The initial state of newClientCodec satisfies the inductive invariant.
LEMMA InitIInv == Init => IInv
<1> SUFFICES ASSUME Init PROVE IInv
  OBVIOUS
<1> USE CallsAssumption DEF Init
<1>1. TypeOK
  <2>1. /\ pc \in [Calls -> {"idle", "rejected", "writing", "writeFailed", "failing",
                            "returned", "timedOut", "finished"}]
        /\ outcome \in [Calls -> {"none", "error"} \cup Calls]
    BY Zenon
  <2>2. closing \in BOOLEAN /\ shutdown \in BOOLEAN /\ muHeld \in BOOLEAN
        /\ connUp \in BOOLEAN /\ bodyErr \in BOOLEAN
    BY Zenon
  <2> QED
    BY <2>1, <2>2 DEF TypeOK
<1>2. Locks
  BY DEF Locks
<1>3. Numbers
  BY DEF Numbers
<1>4. Ownership /\ RepliesMatch
  BY DEF Ownership, RepliesMatch
<1> QED
  BY <1>1, <1>2, <1>3, <1>4 DEF IInv

\* Every step of a sender, of receive(), of the user and of the peer preserves
\* the inductive invariant.
LEMMA NextIInv == IInv /\ [Next]_vars => IInv'
<1> SUFFICES ASSUME IInv, [Next]_vars PROVE IInv'
  OBVIOUS
<1> USE CallsAssumption
<1>1. ASSUME NEW c \in Calls, Send(c) PROVE IInv'
  <2>1. TypeOK'
    BY <1>1 DEF IInv, TypeOK, Send, Pending
  <2>2. Locks'
    BY <1>1 DEF IInv, TypeOK, Locks, Ownership, Send, Pending
  <2>3. Numbers'
    BY <1>1 DEF IInv, TypeOK, Locks, Numbers, Send, Pending
  <2>4. Ownership'
    BY <1>1 DEF IInv, TypeOK, Locks, Numbers, Ownership, Send, Pending
  <2>5. RepliesMatch'
    BY <1>1 DEF IInv, TypeOK, Numbers, RepliesMatch, Send, Pending
  <2> QED
    BY <2>1, <2>2, <2>3, <2>4, <2>5 DEF IInv
<1>2. ASSUME NEW c \in Calls, WriteOk(c) PROVE IInv'
  <2>0. /\ Request(c) \in [seq : Nat, call : Calls]
        /\ Request(c).seq = seqOf[c] /\ Request(c).call = c
        /\ wire' = wire \cup {Request(c)} \/ wire' = wire
    BY <1>2 DEF IInv, TypeOK, Request, WriteOk
  <2>1. TypeOK'
    BY <1>2, <2>0 DEF IInv, TypeOK, WriteOk
  <2>2. Locks'
    BY <1>2 DEF IInv, TypeOK, Locks, Ownership, WriteOk
  <2>3. Numbers'
    BY <1>2, <2>0 DEF IInv, TypeOK, Locks, Numbers, WriteOk
  <2>4. Ownership'
    BY <1>2 DEF IInv, TypeOK, Locks, Numbers, Ownership, WriteOk
  <2>5. RepliesMatch'
    BY <1>2 DEF IInv, TypeOK, Numbers, RepliesMatch, WriteOk
  <2> QED
    BY <2>1, <2>2, <2>3, <2>4, <2>5 DEF IInv
<1>3. ASSUME NEW c \in Calls, WriteErr(c) PROVE IInv'
  <2>0. /\ Request(c) \in [seq : Nat, call : Calls]
        /\ Request(c).seq = seqOf[c] /\ Request(c).call = c
        /\ wire' = wire \cup {Request(c)} \/ wire' = wire
    BY <1>3 DEF IInv, TypeOK, Request, WriteErr
  <2>1. TypeOK'
    BY <1>3, <2>0 DEF IInv, TypeOK, WriteErr
  <2>2. Locks'
    BY <1>3 DEF IInv, TypeOK, Locks, Ownership, WriteErr
  <2>3. Numbers'
    BY <1>3, <2>0 DEF IInv, TypeOK, Locks, Numbers, WriteErr
  <2>4. Ownership'
    BY <1>3 DEF IInv, TypeOK, Locks, Numbers, Ownership, WriteErr
  <2>5. RepliesMatch'
    BY <1>3 DEF IInv, TypeOK, Numbers, RepliesMatch, WriteErr
  <2> QED
    BY <2>1, <2>2, <2>3, <2>4, <2>5 DEF IInv
<1>4. ASSUME NEW c \in Calls, SendRemove(c) PROVE IInv'
  <2>1. TypeOK'
    BY <1>4 DEF IInv, TypeOK, SendRemove, Pending
  <2>2. Locks'
    BY <1>4 DEF IInv, TypeOK, Locks, Ownership, SendRemove, Pending
  <2>3. Numbers'
    BY <1>4 DEF IInv, TypeOK, Locks, Numbers, SendRemove, Pending
  <2>4. Ownership'
    BY <1>4 DEF IInv, TypeOK, Locks, Numbers, Ownership, SendRemove, Pending
  <2>5. RepliesMatch'
    BY <1>4 DEF IInv, TypeOK, Numbers, RepliesMatch, SendRemove, Pending
  <2> QED
    BY <2>1, <2>2, <2>3, <2>4, <2>5 DEF IInv
<1>5. ASSUME NEW c \in Calls, SendFail(c) PROVE IInv'
  <2>1. TypeOK'
    BY <1>5 DEF IInv, TypeOK, SendFail, Deliver
  <2>2. Locks'
    BY <1>5 DEF IInv, TypeOK, Locks, Ownership, SendFail, Deliver
  <2>3. Numbers'
    BY <1>5 DEF IInv, TypeOK, Locks, Numbers, SendFail, Deliver
  <2>4. Ownership'
    BY <1>5 DEF IInv, TypeOK, Locks, Numbers, Ownership, SendFail, Deliver
  <2>5. RepliesMatch'
    BY <1>5 DEF IInv, TypeOK, Numbers, RepliesMatch, SendFail, Deliver
  <2> QED
    BY <2>1, <2>2, <2>3, <2>4, <2>5 DEF IInv
<1>6. ASSUME NEW c \in Calls, Timeout(c) PROVE IInv'
  <2>1. TypeOK'
    BY <1>6 DEF IInv, TypeOK, Timeout, Pending
  <2>2. Locks'
    BY <1>6 DEF IInv, TypeOK, Locks, Ownership, Timeout, Pending
  <2>3. Numbers'
    BY <1>6 DEF IInv, TypeOK, Locks, Numbers, Timeout, Pending
  <2>4. Ownership'
    BY <1>6 DEF IInv, TypeOK, Locks, Numbers, Ownership, Timeout, Pending
  <2>5. RepliesMatch'
    BY <1>6 DEF IInv, TypeOK, Numbers, RepliesMatch, Timeout, Pending
  <2> QED
    BY <2>1, <2>2, <2>3, <2>4, <2>5 DEF IInv
<1>7. ASSUME NEW c \in Calls, TakeDone(c) PROVE IInv'
  <2>1. TypeOK'
    BY <1>7 DEF IInv, TypeOK, TakeDone
  <2>2. Locks'
    BY <1>7 DEF IInv, TypeOK, Locks, Ownership, TakeDone
  <2>3. Numbers'
    BY <1>7 DEF IInv, TypeOK, Locks, Numbers, TakeDone
  <2>4. Ownership'
    BY <1>7 DEF IInv, TypeOK, Locks, Numbers, Ownership, TakeDone
  <2>5. RepliesMatch'
    BY <1>7 DEF IInv, TypeOK, Numbers, RepliesMatch, TakeDone
  <2> QED
    BY <2>1, <2>2, <2>3, <2>4, <2>5 DEF IInv
<1>8. ASSUME NEW r \in replies, NEW e \in BOOLEAN, ReadReply(r, e) PROVE IInv'
  <2>1. TypeOK'
    BY <1>8 DEF IInv, TypeOK, ReadReply, Pending
  <2>2. Locks'
    BY <1>8 DEF IInv, TypeOK, Locks, Ownership, ReadReply, Pending
  <2>3. Numbers'
    BY <1>8 DEF IInv, TypeOK, Locks, Numbers, ReadReply, Pending
  <2>4. Ownership'
    BY <1>8 DEF IInv, TypeOK, Locks, Numbers, Ownership, ReadReply, Pending
  <2>5. RepliesMatch'
    BY <1>8 DEF IInv, TypeOK, Numbers, RepliesMatch, ReadReply, Pending
  <2> QED
    BY <2>1, <2>2, <2>3, <2>4, <2>5 DEF IInv
<1>9. ASSUME ReceiveDone PROVE IInv'
  <2>1. TypeOK'
    BY <1>9 DEF IInv, TypeOK, Ownership, ReceiveDone, Deliver
  <2>2. Locks'
    BY <1>9 DEF IInv, TypeOK, Locks, Ownership, ReceiveDone, Deliver
  <2>3. Numbers'
    BY <1>9 DEF IInv, TypeOK, Locks, Numbers, ReceiveDone, Deliver
  <2>4. Ownership'
    BY <1>9 DEF IInv, TypeOK, Locks, Numbers, Ownership, ReceiveDone, Deliver
  <2>5. RepliesMatch'
    BY <1>9 DEF IInv, TypeOK, Numbers, RepliesMatch, ReceiveDone, Deliver
  <2> QED
    BY <2>1, <2>2, <2>3, <2>4, <2>5 DEF IInv
<1>10. ASSUME ReadErr PROVE IInv'
  <2>1. TypeOK'
    BY <1>10 DEF IInv, TypeOK, ReadErr
  <2>2. Locks'
    BY <1>10 DEF IInv, TypeOK, Locks, Ownership, ReadErr
  <2>3. Numbers'
    BY <1>10 DEF IInv, TypeOK, Locks, Numbers, ReadErr
  <2>4. Ownership'
    BY <1>10 DEF IInv, TypeOK, Locks, Numbers, Ownership, ReadErr
  <2>5. RepliesMatch'
    BY <1>10 DEF IInv, TypeOK, Numbers, RepliesMatch, ReadErr
  <2> QED
    BY <2>1, <2>2, <2>3, <2>4, <2>5 DEF IInv
<1>11. ASSUME TerminateLock PROVE IInv'
  <2>1. TypeOK'
    BY <1>11 DEF IInv, TypeOK, TerminateLock
  <2>2. Locks'
    BY <1>11 DEF IInv, TypeOK, Locks, Ownership, TerminateLock
  <2>3. Numbers'
    BY <1>11 DEF IInv, TypeOK, Locks, Numbers, TerminateLock
  <2>4. Ownership'
    BY <1>11 DEF IInv, TypeOK, Locks, Numbers, Ownership, TerminateLock
  <2>5. RepliesMatch'
    BY <1>11 DEF IInv, TypeOK, Numbers, RepliesMatch, TerminateLock
  <2> QED
    BY <2>1, <2>2, <2>3, <2>4, <2>5 DEF IInv
<1>12. ASSUME NEW c \in Calls, TerminateOne(c) PROVE IInv'
  <2>1. TypeOK'
    BY <1>12 DEF IInv, TypeOK, TerminateOne, Deliver
  <2>2. Locks'
    BY <1>12 DEF IInv, TypeOK, Locks, Ownership, TerminateOne, Deliver
  <2>3. Numbers'
    BY <1>12 DEF IInv, TypeOK, Locks, Numbers, TerminateOne, Deliver
  <2>4. Ownership'
    BY <1>12 DEF IInv, TypeOK, Locks, Numbers, Ownership, TerminateOne, Deliver
  <2>5. RepliesMatch'
    BY <1>12 DEF IInv, TypeOK, Numbers, RepliesMatch, TerminateOne, Deliver
  <2> QED
    BY <2>1, <2>2, <2>3, <2>4, <2>5 DEF IInv
<1>13. ASSUME TerminateEnd PROVE IInv'
  <2>1. TypeOK'
    BY <1>13 DEF IInv, TypeOK, TerminateEnd
  <2>2. Locks'
    BY <1>13 DEF IInv, TypeOK, Locks, Ownership, TerminateEnd
  <2>3. Numbers'
    BY <1>13 DEF IInv, TypeOK, Locks, Numbers, TerminateEnd
  <2>4. Ownership'
    BY <1>13 DEF IInv, TypeOK, Locks, Numbers, Ownership, TerminateEnd
  <2>5. RepliesMatch'
    BY <1>13 DEF IInv, TypeOK, Numbers, RepliesMatch, TerminateEnd
  <2> QED
    BY <2>1, <2>2, <2>3, <2>4, <2>5 DEF IInv
<1>14. ASSUME Close PROVE IInv'
  <2>1. TypeOK'
    BY <1>14 DEF IInv, TypeOK, Close
  <2>2. Locks'
    BY <1>14 DEF IInv, TypeOK, Locks, Ownership, Close
  <2>3. Numbers'
    BY <1>14 DEF IInv, TypeOK, Locks, Numbers, Close
  <2>4. Ownership'
    BY <1>14 DEF IInv, TypeOK, Locks, Numbers, Ownership, Close
  <2>5. RepliesMatch'
    BY <1>14 DEF IInv, TypeOK, Numbers, RepliesMatch, Close
  <2> QED
    BY <2>1, <2>2, <2>3, <2>4, <2>5 DEF IInv
<1>15. ASSUME NEW w \in wire, Respond(w) PROVE IInv'
  <2>1. TypeOK'
    BY <1>15 DEF IInv, TypeOK, Respond
  <2>2. Locks'
    BY <1>15 DEF IInv, TypeOK, Locks, Ownership, Respond
  <2>3. Numbers'
    BY <1>15 DEF IInv, TypeOK, Locks, Numbers, Respond
  <2>4. Ownership'
    BY <1>15 DEF IInv, TypeOK, Locks, Numbers, Ownership, Respond
  <2>5. RepliesMatch'
    BY <1>15 DEF IInv, TypeOK, Numbers, RepliesMatch, Respond
  <2> QED
    BY <2>1, <2>2, <2>3, <2>4, <2>5 DEF IInv
<1>16. ASSUME Break PROVE IInv'
  <2>1. TypeOK'
    BY <1>16 DEF IInv, TypeOK, Break
  <2>2. Locks'
    BY <1>16 DEF IInv, TypeOK, Locks, Ownership, Break
  <2>3. Numbers'
    BY <1>16 DEF IInv, TypeOK, Locks, Numbers, Break
  <2>4. Ownership'
    BY <1>16 DEF IInv, TypeOK, Locks, Numbers, Ownership, Break
  <2>5. RepliesMatch'
    BY <1>16 DEF IInv, TypeOK, Numbers, RepliesMatch, Break
  <2> QED
    BY <2>1, <2>2, <2>3, <2>4, <2>5 DEF IInv
<1>17. CASE UNCHANGED vars
  BY <1>17 DEF vars, IInv, TypeOK, Locks, Numbers, Ownership, RepliesMatch
<1> QED
  BY <1>1, <1>2, <1>3, <1>4, <1>5, <1>6, <1>7, <1>8, <1>9, <1>10, <1>11, <1>12, <1>13, <1>14, <1>15, <1>16, <1>17 DEF Next, SendStep, ReceiveStep

\* The accounting of calls holds in every reachable state of the client.
THEOREM Accounting == Spec => []IInv
  BY InitIInv, NextIInv, PTL DEF Spec

\* The client's state is well typed in every reachable state.
THEOREM TypeCorrect == Spec => []TypeOK
<1>1. IInv => TypeOK
  BY DEF IInv
<1> QED
  BY <1>1, Accounting, PTL

\* No call is completed twice: not by its sender and receive(), not by
\* receive() and terminateCalls, not by its sender and terminateCalls.
THEOREM CompletedAtMostOnce == Spec => []AtMostOnce
<1>1. IInv => AtMostOnce
  BY DEF IInv, Ownership, AtMostOnce
<1> QED
  BY <1>1, Accounting, PTL

\* No call is lost, and none is outstanding when receive() has stopped,
\* whatever the order of failed writes, responses, timeouts and Close.
THEOREM CallsNeverLost == Spec => []NoCallLost
<1>1. IInv => NoCallLost
  BY CallsAssumption DEF IInv, TypeOK, Locks, Ownership, NoCallLost
<1> QED
  BY <1>1, Accounting, PTL

\* A reply is only ever stored in the call whose request it answers.
THEOREM RepliesNeverCrossed == Spec => []RepliesMatch
<1>1. IInv => RepliesMatch
  BY DEF IInv
<1> QED
  BY <1>1, Accounting, PTL
=============================================================================
