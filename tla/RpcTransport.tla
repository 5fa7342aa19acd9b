---------------------------- MODULE RpcTransport ----------------------------
(***************************************************************************)
(* One multiplexed connection of sonnet-rpc-v2 and its futures             *)
(* (internal/transport/tcp_client.go, future.go).                          *)
(*                                                                         *)
(* Goroutines run SendAsync, one goroutine runs readLoop, and whichever    *)
(* first meets an error runs fail(); the pool may call Close.  Nothing but *)
(* atomic operations orders them, so every sync.Map operation, the CAS on  *)
(* closed and the write are steps of their own.  nextSeq is an atomic add, *)
(* so request ids are unique and the call itself stands for its id.        *)
(*                                                                         *)
(* sync.Map.Range is not a snapshot: it visits each key at most once, every*)
(* key that is present throughout, and perhaps keys stored meanwhile; the  *)
(* value is loaded in one step and used in a later one.                    *)
(***************************************************************************)
EXTENDS Naturals, FiniteSets

CONSTANTS
  Calls,      \* invocations of SendAsync, each with its Future
  Reader,     \* the goroutine running readLoop
  None

ASSUME TransportAssumption ==
  Reader \notin Calls /\ None \notin Calls \cup {Reader}

VARIABLES
  closed,     \* c.closed
  connUp,     \* the socket has not been closed on this side
  peerUp,     \* reads succeed: the peer is there and sends what Decode accepts
  pending,    \* keys of c.pending
  pc,         \* where each SendAsync is
  rd,         \* where readLoop is
  msg,        \* the call whose response readLoop has in hand
  failer,     \* who won the CAS in fail(), or None
  fstep,      \* where it is in fail()
  begin,      \* keys present when Range began
  visited,    \* keys Range has visited
  fcur,       \* the key Range is visiting
  completed,  \* how often Done ran on each future; twice panics the process
  wire,       \* requests at the peer
  replies     \* responses readable by readLoop

failVars == <<failer, fstep, begin, visited, fcur>>
readVars == <<rd, msg>>
netVars  == <<wire, replies>>
vars == <<closed, connUp, peerUp, pending, pc, readVars, failVars, completed, netVars>>

\* newTCPClient
Init ==
  /\ closed = FALSE /\ connUp = TRUE /\ peerUp = TRUE /\ pending = {}
  /\ pc = [c \in Calls |-> "idle"]
  /\ rd = "reading" /\ msg = None
  /\ failer = None /\ fstep = "none" /\ begin = {} /\ visited = {} /\ fcur = None
  /\ completed = [c \in Calls |-> 0]
  /\ wire = {} /\ replies = {}

\* close(f.done) of a closed channel has killed the process.
Panicked == \E c \in Calls : completed[c] > 1

\* Future.Done
Done(c) == completed' = [completed EXCEPT ![c] = @ + 1]

GoTo(c, from, to) == pc[c] = from /\ pc' = [pc EXCEPT ![c] = to]

-----------------------------------------------------------------------------
\* SendAsync: the check of c.closed, separate from everything after it.
SendCheck(c) ==
  /\ \/ closed /\ GoTo(c, "idle", "errored")
     \/ ~closed /\ GoTo(c, "idle", "checked")
  /\ UNCHANGED <<closed, connUp, peerUp, pending, readVars, failVars, completed, netVars>>

\* nextSeq and c.pending.Store(seq, future)
SendStore(c) ==
  /\ GoTo(c, "checked", "stored")
  /\ pending' = pending \cup {c}
  /\ UNCHANGED <<closed, connUp, peerUp, readVars, failVars, completed, netVars>>

\* c.conn.Write succeeds and the future is returned.  The kernel also accepts
\* what a vanished peer will not read, but nothing once the socket is closed.
SendWrite(c) ==
  /\ connUp /\ GoTo(c, "stored", "returned")
  /\ \/ wire' = wire \cup {c}
     \/ ~peerUp /\ UNCHANGED wire
  /\ UNCHANGED <<closed, connUp, peerUp, pending, readVars, failVars, completed, replies>>

\* c.conn.Write fails, in encoding or on the connection; pending.Delete(seq).
SendWriteErr(c) ==
  /\ GoTo(c, "stored", "failing")
  /\ pending' = pending \ {c}
  /\ UNCHANGED <<closed, connUp, peerUp, readVars, failVars, completed, netVars>>

-----------------------------------------------------------------------------
\* The goroutine a enters fail, or returns from it.
AtFail(a) == IF a = Reader THEN rd = "failing" ELSE pc[a] = "failing"
LeaveFail(a) ==
  IF a = Reader THEN rd' = "stopped" /\ UNCHANGED <<msg, pc>>
                ELSE pc' = [pc EXCEPT ![a] = "errored"] /\ UNCHANGED readVars

\* fail: the CAS; whoever loses it returns at once.
FailCas(a) ==
  /\ AtFail(a) /\ failer # a
  /\ \/ closed /\ LeaveFail(a) /\ UNCHANGED <<closed, failVars>>
     \/ /\ ~closed /\ closed' = TRUE
        /\ failer' = a /\ fstep' = "close"
        /\ UNCHANGED <<pc, readVars, begin, visited, fcur>>
  /\ UNCHANGED <<connUp, peerUp, pending, completed, netVars>>

\* Faulty variant: the connection is not closed before Range begins.
FailWithoutClose ==
  /\ fstep = "close" /\ fstep' = "range"
  /\ begin' = pending /\ visited' = {}
  /\ UNCHANGED <<closed, connUp, peerUp, pending, pc, readVars, failer, fcur, completed, netVars>>

\* c.conn.Close(), after which Range begins.
FailClose ==
  /\ fstep = "close" /\ fstep' = "range"
  /\ connUp' = FALSE
  /\ begin' = pending /\ visited' = {}
  /\ UNCHANGED <<closed, peerUp, pending, pc, readVars, failer, fcur, completed, netVars>>

RangeLoad(k) ==
  /\ fstep = "range" /\ k \in pending \ visited
  /\ fstep' = "done" /\ fcur' = k /\ visited' = visited \cup {k}
  /\ UNCHANGED <<closed, connUp, peerUp, pending, pc, readVars, failer, begin, completed, netVars>>

RangeDone ==
  /\ fstep = "done" /\ fstep' = "delete"
  /\ Done(fcur)
  /\ UNCHANGED <<closed, connUp, peerUp, pending, pc, readVars, failer, begin, visited, fcur, netVars>>

RangeDelete ==
  /\ fstep = "delete" /\ fstep' = "range"
  /\ pending' = pending \ {fcur} /\ fcur' = None
  /\ UNCHANGED <<closed, connUp, peerUp, pc, readVars, failer, begin, visited, completed, netVars>>

RangeEnd ==
  /\ fstep = "range" /\ begin \cap pending \subseteq visited
  /\ fstep' = "ended"
  /\ LeaveFail(failer)
  /\ UNCHANGED <<closed, connUp, peerUp, pending, failer, begin, visited, fcur, completed, netVars>>

-----------------------------------------------------------------------------
\* readLoop: conn.Read returns a message; buffered frames outlive the connection.
ReadMsg(c) ==
  /\ rd = "reading" /\ c \in replies
  /\ rd' = "got" /\ msg' = c /\ replies' = replies \ {c}
  /\ UNCHANGED <<closed, connUp, peerUp, pending, pc, failVars, completed, wire>>

\* Faulty variant: readLoop returns on an error without calling fail.
ReadErrQuiet ==
  /\ rd = "reading" /\ (~connUp \/ ~peerUp) /\ rd' = "stopped"
  /\ UNCHANGED <<closed, connUp, peerUp, pending, pc, msg, failVars, completed, netVars>>

\* readLoop: conn.Read returns an error.
ReadErr ==
  /\ rd = "reading" /\ (~connUp \/ ~peerUp) /\ rd' = "failing"
  /\ UNCHANGED <<closed, connUp, peerUp, pending, pc, msg, failVars, completed, netVars>>

\* Faulty variant: Load instead of LoadAndDelete.
ReadLoad ==
  /\ rd = "got"
  /\ rd' = IF msg \in pending THEN "deliver" ELSE "reading"
  /\ UNCHANGED <<closed, connUp, peerUp, pending, pc, msg, failVars, completed, netVars>>

\* readLoop: c.pending.LoadAndDelete(seq); an unknown id is skipped.
ReadTake ==
  /\ rd = "got"
  /\ rd' = IF msg \in pending THEN "deliver" ELSE "reading"
  /\ pending' = pending \ {msg}
  /\ UNCHANGED <<closed, connUp, peerUp, pc, msg, failVars, completed, netVars>>

\* readLoop: future.Done with the body or the error of the response.
ReadDone ==
  /\ rd = "deliver" /\ rd' = "reading"
  /\ Done(msg)
  /\ UNCHANGED <<closed, connUp, peerUp, pending, pc, msg, failVars, netVars>>

\* Close: the CAS and conn.Close.
Close ==
  /\ ~closed /\ closed' = TRUE /\ connUp' = FALSE
  /\ UNCHANGED <<peerUp, pending, pc, readVars, failVars, completed, netVars>>

\* The peer answers a request.
Respond(c) ==
  /\ c \in wire /\ wire' = wire \ {c} /\ replies' = replies \cup {c}
  /\ UNCHANGED <<closed, connUp, peerUp, pending, pc, readVars, failVars, completed>>

\* The peer goes away, or sends something that Decode rejects.
Break ==
  /\ peerUp /\ peerUp' = FALSE
  /\ UNCHANGED <<closed, connUp, pending, pc, readVars, failVars, completed, netVars>>

SendStep(c) == SendCheck(c) \/ SendStore(c) \/ SendWrite(c) \/ SendWriteErr(c)
FailStep ==
  \/ \E a \in Calls \cup {Reader} : FailCas(a)
  \/ FailClose
  \/ \E k \in Calls : RangeLoad(k)
  \/ RangeDone \/ RangeDelete \/ RangeEnd
ReadStep == (\E c \in Calls : ReadMsg(c)) \/ ReadErr \/ ReadTake \/ ReadDone

Next ==
  /\ ~Panicked
  /\ \/ \E c \in Calls : SendStep(c) \/ Respond(c)
     \/ FailStep \/ ReadStep \/ Close \/ Break

Spec == Init /\ [][Next]_vars

\* Goroutines that can run do run; a read on a dead connection returns.
FairSpec ==
  Spec /\ WF_vars(~Panicked /\ ReadStep) /\ WF_vars(~Panicked /\ FailStep)

-----------------------------------------------------------------------------
TypeOK ==
  /\ closed \in BOOLEAN /\ connUp \in BOOLEAN /\ peerUp \in BOOLEAN
  /\ pending \subseteq Calls /\ begin \subseteq Calls /\ visited \subseteq Calls
  /\ wire \subseteq Calls /\ replies \subseteq Calls
  /\ pc \in [Calls -> {"idle", "checked", "stored", "returned", "failing", "errored"}]
  /\ rd \in {"reading", "got", "deliver", "failing", "stopped"}
  /\ msg \in Calls \cup {None} /\ fcur \in Calls \cup {None}
  /\ failer \in Calls \cup {Reader, None}
  /\ fstep \in {"none", "close", "range", "done", "delete", "ended"}
  /\ completed \in [Calls -> Nat]

\* readLoop has returned and no fail() is running.
Unserved == rd = "stopped" /\ fstep \in {"none", "ended"}

AllComplete == \A c \in Calls : pc[c] = "returned" => completed[c] > 0

\* When the connection has failed (it was not Close that won the CAS), and
\* readLoop and fail() have returned, every future that SendAsync handed out is
\* complete, for nobody is left to complete it.  It holds although closed is
\* read long before the future is stored, because fail closes the connection
\* before it ranges.
NoFutureHangs == Unserved /\ failer # None => AllComplete

\* tcp_client.go:101 "Fail all pending requests": the same however the
\* connection came to be closed.
FailsAllPending == Unserved => AllComplete

\* A future is completed twice (and the process panics) only if a sender, not
\* readLoop, ran fail: readLoop may have a response in hand that Range has also
\* loaded.  A read error alone never does it.
DoubleDoneOnlyBySender == Panicked => failer \in Calls

\* The pending map of a failed connection drains: when nobody is left to serve the connection, it holds
\* only requests whose own SendAsync is about to fail and delete them, even those
\* stored after Range had passed.
PendingDrains ==
  Unserved /\ failer # None => \A c \in pending : pc[c] = "stored"

\* Once the connection is down, every future handed out completes, unless Close
\* got in before fail().
BrokenCompletes ==
  \A c \in Calls :
    (~connUp \/ ~peerUp) /\ pc[c] = "returned"
      ~> completed[c] > 0 \/ Panicked \/ (closed /\ failer = None)
-----------------------------------------------------------------------------
\* The strengthening that makes these invariants inductive.

\* What the phases of fail() mean.
Phases ==
  /\ failer = None <=> fstep = "none"
  /\ failer # None => closed
  /\ rd = "stopped" => closed
  /\ failer = Reader /\ fstep # "ended" => rd = "failing"
  /\ failer = Reader /\ fstep = "ended" => rd = "stopped"
  /\ failer \in Calls /\ fstep # "ended" => pc[failer] = "failing"
  /\ failer \in Calls /\ fstep = "ended" => pc[failer] = "errored"
  /\ fstep \in {"range", "done", "delete", "ended"} => ~connUp
  /\ fstep \in {"done", "delete"} => fcur \in visited
  /\ rd \in {"got", "deliver"} => msg \in Calls /\ pc[msg] = "returned"

\* Where a stored future can be; Range leaves none of those handed out behind.
Tracking ==
  /\ \A c \in wire \cup replies : pc[c] = "returned"
  /\ \A c \in Calls : pc[c] = "stored" /\ connUp => c \in pending
  /\ \A c \in pending : pc[c] \in {"stored", "returned"}
  /\ \A c \in visited : pc[c] \notin {"idle", "checked"}
  /\ \A c \in pending \cap visited : fstep \in {"done", "delete"} /\ fcur = c
  /\ \A c \in pending : pc[c] = "returned" =>
       /\ fstep # "ended"
       /\ fstep \in {"range", "done", "delete"} => c \in begin
  /\ fstep = "delete" => completed[fcur] > 0
  /\ \A c \in Calls : pc[c] = "returned" /\ completed[c] = 0 =>
       \/ c \in pending
       \/ rd = "deliver" /\ msg = c
       \/ fstep = "done" /\ fcur = c

\* Unless a sender runs fail(), a future is in the hands of one party only.
SoleOwner ==
  failer \notin Calls =>
    \A c \in Calls :
      /\ completed[c] <= 1
      /\ pc[c] \in {"idle", "checked"} => completed[c] = 0
      /\ c \in pending /\ ~(fstep = "delete" /\ fcur = c) => completed[c] = 0
      /\ fstep = "done" /\ fcur = c => completed[c] = 0
      /\ rd = "deliver" /\ msg = c =>
           completed[c] = 0 /\ c \notin pending /\ pc[c] \notin {"idle", "checked"}

\* The inductive invariant of one connection: TypeOK, the phases of fail(), the
\* whereabouts of every future, and its sole owner.
IInv == TypeOK /\ Phases /\ Tracking /\ SoleOwner
=============================================================================
