----------------------------- MODULE RpcClient -----------------------------
(***************************************************************************)
(* The asynchronous client of sonnet-rpc (sonnet-rpc/client.go).           *)
(*                                                                         *)
(* Any number of goroutines call Go or Call on one Client; one goroutine   *)
(* runs receive().  They share the pending map under `mu' and the encoder  *)
(* under `sending'.  A Call object is a member of Calls and is used once.  *)
(* Calls in Async are started with Go and share one user-supplied Done     *)
(* channel of capacity DoneCap; the others are started with Call, which    *)
(* makes a private channel of capacity 1 and waits with a context.         *)
(*                                                                         *)
(* `mu' is released before any other step in every critical section but    *)
(* the one of terminateCalls, so it is the Boolean muHeld; `sending' is    *)
(* held across several steps, so its holder is recorded.                   *)
(***************************************************************************)
EXTENDS Naturals, FiniteSets

CONSTANTS
  Calls,     \* the Call objects, one per invocation
  Async,     \* those started with Go(..., done) on one shared Done channel
  DoneCap,   \* capacity of that channel
  NoCall,    \* the nil *Call; also the free `sending' mutex
  Receiver   \* the goroutine running receive()

ASSUME CallsAssumption ==
  /\ Async \subseteq Calls
  /\ NoCall \notin Calls /\ Receiver \notin Calls /\ Receiver # NoCall
ASSUME CapAssumption == DoneCap \in Nat \ {0}   \* Go panics when cap(done) = 0

VARIABLES
  seq,       \* client.seq, starts with 1; 0 means invalid call
  seqOf,     \* call.Seq
  pending,   \* the Calls in client.pending; the key of c is seqOf[c]
  closing, shutdown,
  sending,   \* holder of client.sending: NoCall, a call in send(), Receiver
  muHeld,    \* terminateCalls holds client.mu
  pc,        \* where the goroutine that issued the call is
  rpc,       \* where receive() is
  cur,       \* the call receive() has taken from pending
  bodyErr,   \* the error ReadBody returned to receive()
  left,      \* calls terminateCalls still has to complete
  queued,    \* calls sitting in their Done channel
  connUp,    \* the connection has not been closed or broken
  wire,      \* requests at the server, [seq, call]
  replies,   \* responses in the stream to the client, [seq, call]
  done,      \* history: how often call.done() was executed
  outcome    \* history: "none", "error", or the call whose reply was stored

clientVars == <<seq, seqOf, pending, closing, shutdown>>
recvVars   == <<rpc, cur, bodyErr, left>>
netVars    == <<wire, replies>>
doneVars   == <<queued, done, outcome>>
vars == <<clientVars, sending, muHeld, pc, recvVars, doneVars, connUp, netVars>>

\* newClientCodec: seq starts with 1, nothing pending, receive() started.
Init ==
  /\ seq = 1 /\ seqOf = [c \in Calls |-> 0] /\ pending = {}
  /\ closing = FALSE /\ shutdown = FALSE
  /\ sending = NoCall /\ muHeld = FALSE
  /\ pc = [c \in Calls |-> "idle"]
  /\ rpc = "reading" /\ cur = NoCall /\ bodyErr = FALSE /\ left = {}
  /\ queued = {} /\ done = [c \in Calls |-> 0]
  /\ outcome = [c \in Calls |-> "none"]
  /\ connUp = TRUE /\ wire = {} /\ replies = {}

-----------------------------------------------------------------------------
\* The channel send in call.done() blocks while the Done channel is full.
CanDeliver(c) ==
  IF c \in Async THEN Cardinality(queued \cap Async) < DoneCap
                 ELSE c \notin queued

\* call.Error or *call.Reply has been set to o, then call.done().
Deliver(c, o) ==
  /\ CanDeliver(c)
  /\ queued' = queued \cup {c}
  /\ done' = [done EXCEPT ![c] = @ + 1]
  /\ outcome' = [outcome EXCEPT ![c] = o]

\* removeCall: client.pending[seq], which is nil or one call, is deleted.
Pending(s) == {d \in pending : seqOf[d] = s}

\* Faulty variant: a client whose server is gone still accepts calls.
RejectsOnlyClosing == closing

\* registerCall's refusal.
Rejects == closing \/ shutdown

\* Faulty variant: the number is used again by the next call.
SameSeq == seq

\* client.seq++
NextSeq == seq + 1

\* send, up to and including registerCall; the caller holds `sending' after it.
Send(c) ==
  /\ pc[c] = "idle" /\ sending = NoCall /\ ~muHeld
  /\ sending' = c
  /\ IF Rejects
       THEN pc' = [pc EXCEPT ![c] = "rejected"] /\ UNCHANGED clientVars
       ELSE /\ pc' = [pc EXCEPT ![c] = "writing"]
            /\ seqOf' = [seqOf EXCEPT ![c] = seq]
            /\ pending' = (pending \ Pending(seq)) \cup {c}
            /\ seq' = NextSeq
            /\ UNCHANGED <<closing, shutdown>>
  /\ UNCHANGED <<muHeld, recvVars, doneVars, connUp, netVars>>

Request(c) == [seq |-> seqOf[c], call |-> c]

\* cc.Write returns nil.  The codec ignores the error of Flush, so on a broken
\* connection the request may be lost without the client being told.
WriteOk(c) ==
  /\ pc[c] = "writing"
  /\ pc' = [pc EXCEPT ![c] = "returned"] /\ sending' = NoCall
  /\ \/ connUp /\ wire' = wire \cup {Request(c)}
     \/ ~connUp /\ UNCHANGED wire
  /\ UNCHANGED <<clientVars, muHeld, recvVars, doneVars, connUp, replies>>

\* cc.Write fails and closes the connection; part of the request, enough for
\* the server to answer, may have been sent.
WriteErr(c) ==
  /\ pc[c] = "writing"
  /\ pc' = [pc EXCEPT ![c] = "writeFailed"]
  /\ connUp' = FALSE
  /\ \/ connUp /\ wire' = wire \cup {Request(c)}
     \/ UNCHANGED wire
  /\ UNCHANGED <<clientVars, sending, muHeld, recvVars, doneVars, replies>>

\* send after a failed Write: call := removeCall(seq), which "may be nil".
SendRemove(c) ==
  /\ pc[c] = "writeFailed" /\ ~muHeld
  /\ pending' = pending \ Pending(seqOf[c])
  /\ IF c \in pending
       THEN pc' = [pc EXCEPT ![c] = "failing"] /\ UNCHANGED sending
       ELSE pc' = [pc EXCEPT ![c] = "returned"] /\ sending' = NoCall
  /\ UNCHANGED <<seq, seqOf, closing, shutdown, muHeld, recvVars, doneVars,
                 connUp, netVars>>

\* send: the call is completed with an error, then `sending' is released.
SendFail(c) ==
  /\ pc[c] \in {"rejected", "failing"}
  /\ Deliver(c, "error")
  /\ pc' = [pc EXCEPT ![c] = "returned"] /\ sending' = NoCall
  /\ UNCHANGED <<clientVars, muHeld, recvVars, connUp, netVars>>

\* Call: ctx.Done() is chosen by the select; the call is withdrawn.
Timeout(c) ==
  /\ c \notin Async /\ pc[c] = "returned" /\ ~muHeld
  /\ pc' = [pc EXCEPT ![c] = "timedOut"]
  /\ pending' = pending \ Pending(seqOf[c])
  /\ UNCHANGED <<seq, seqOf, closing, shutdown, sending, muHeld, recvVars,
                 doneVars, connUp, netVars>>

\* The user receives from the Done channel (in Call, the other select case).
TakeDone(c) ==
  /\ c \in queued
  /\ queued' = queued \ {c}
  /\ IF c \in Async THEN UNCHANGED pc
     ELSE pc[c] = "returned" /\ pc' = [pc EXCEPT ![c] = "finished"]
  /\ UNCHANGED <<clientVars, sending, muHeld, recvVars, done, outcome,
                 connUp, netVars>>

\* Close; a second Close returns ErrShutdown and changes nothing.
Close ==
  /\ ~muHeld /\ ~closing
  /\ closing' = TRUE /\ connUp' = FALSE
  /\ UNCHANGED <<seq, seqOf, pending, shutdown, sending, muHeld, pc, recvVars,
                 doneVars, netVars>>

-----------------------------------------------------------------------------
\* receive: ReadHeader, removeCall(h.Seq) and ReadBody, which may fail (e).
\* Responses read before the connection broke are still decoded.  A reply and
\* the error a server reports (h.Error) are both the answer to r.call.
ReadReply(r, e) ==
  /\ rpc = "reading" /\ ~muHeld /\ r \in replies
  /\ replies' = replies \ {r}
  /\ pending' = pending \ Pending(r.seq)
  /\ bodyErr' = e
  /\ IF Pending(r.seq) = {}
       THEN rpc' = (IF e THEN "term" ELSE "reading") /\ UNCHANGED <<cur, outcome>>
       ELSE /\ rpc' = "deliver"
            /\ cur' \in Pending(r.seq)
            /\ outcome' = [outcome EXCEPT ![cur'] = IF e THEN "error" ELSE r.call]
  /\ UNCHANGED <<seq, seqOf, closing, shutdown, sending, muHeld, pc, left,
                 queued, done, connUp, wire>>

\* receive: call.done(), then the loop condition err == nil.
ReceiveDone ==
  /\ rpc = "deliver"
  /\ Deliver(cur, outcome[cur])
  /\ cur' = NoCall
  /\ rpc' = IF bodyErr THEN "term" ELSE "reading"
  /\ UNCHANGED <<clientVars, sending, muHeld, pc, bodyErr, left, connUp, netVars>>

\* Faulty variant: receive returns on an error without terminateCalls.
ReadErrQuiet ==
  /\ rpc = "reading" /\ ~connUp
  /\ rpc' = "stopped"
  /\ UNCHANGED <<clientVars, sending, muHeld, pc, cur, bodyErr, left, doneVars,
                 connUp, netVars>>

\* receive: ReadHeader fails because the connection is closed or broken.
ReadErr ==
  /\ rpc = "reading" /\ ~connUp
  /\ rpc' = "term"
  /\ UNCHANGED <<clientVars, sending, muHeld, pc, cur, bodyErr, left, doneVars,
                 connUp, netVars>>

\* Faulty variant: terminateCalls takes `mu' only.
TerminateLockMuOnly ==
  /\ rpc = "term" /\ ~muHeld
  /\ rpc' = "terminating" /\ muHeld' = TRUE
  /\ shutdown' = TRUE /\ left' = pending
  /\ UNCHANGED <<seq, seqOf, pending, closing, sending, pc, cur, bodyErr, doneVars,
                 connUp, netVars>>

\* terminateCalls takes `sending', then `mu', and sets shutdown.
TerminateLock ==
  /\ rpc = "term" /\ sending = NoCall /\ ~muHeld
  /\ rpc' = "terminating"
  /\ sending' = Receiver /\ muHeld' = TRUE
  /\ shutdown' = TRUE /\ left' = pending
  /\ UNCHANGED <<seq, seqOf, pending, closing, pc, cur, bodyErr, doneVars,
                 connUp, netVars>>

\* One turn of its loop: the call is completed and stays in the map.
TerminateOne(c) ==
  /\ rpc = "terminating" /\ c \in left
  /\ Deliver(c, "error")
  /\ left' = left \ {c}
  /\ UNCHANGED <<clientVars, sending, muHeld, pc, rpc, cur, bodyErr, connUp,
                 netVars>>

\* Both mutexes are released and receive() returns.
TerminateEnd ==
  /\ rpc = "terminating" /\ left = {}
  /\ rpc' = "stopped" /\ sending' = NoCall /\ muHeld' = FALSE
  /\ UNCHANGED <<clientVars, pc, cur, bodyErr, left, doneVars, connUp, netVars>>

-----------------------------------------------------------------------------
\* The peer answers a request it has read, in any order.
Respond(w) ==
  /\ w \in wire
  /\ wire' = wire \ {w}
  /\ replies' = replies \cup {w}
  /\ UNCHANGED <<clientVars, sending, muHeld, pc, recvVars, doneVars, connUp>>

\* The connection breaks without the client's doing.
Break ==
  /\ connUp /\ connUp' = FALSE
  /\ UNCHANGED <<clientVars, sending, muHeld, pc, recvVars, doneVars, netVars>>

SendStep(c) == Send(c) \/ WriteOk(c) \/ WriteErr(c) \/ SendRemove(c) \/ SendFail(c)
ReceiveStep ==
  \/ \E r \in replies, e \in BOOLEAN : ReadReply(r, e)
  \/ ReceiveDone \/ ReadErr \/ TerminateLock
  \/ \E c \in Calls : TerminateOne(c)
  \/ TerminateEnd

Next ==
  \/ \E c \in Calls : SendStep(c) \/ Timeout(c) \/ TakeDone(c)
  \/ ReceiveStep
  \/ Close
  \/ \E w \in wire : Respond(w)
  \/ Break

Spec == Init /\ [][Next]_vars

\* Goroutines that can run do run, Go's mutexes are handed over in turn, and
\* the user of a shared Done channel keeps receiving from it.  Nothing is
\* assumed of Close, of the peer or of contexts.
Fairness ==
  /\ \A c \in Calls : WF_vars(SendStep(c)) /\ WF_vars(TakeDone(c))
  /\ WF_vars(ReceiveStep)

FairSpec == Spec /\ Fairness

-----------------------------------------------------------------------------
TypeOK ==
  /\ seq \in Nat \ {0} /\ seqOf \in [Calls -> Nat]
  /\ pending \subseteq Calls /\ left \subseteq Calls /\ queued \subseteq Calls
  /\ closing \in BOOLEAN /\ shutdown \in BOOLEAN /\ muHeld \in BOOLEAN
  /\ connUp \in BOOLEAN /\ bodyErr \in BOOLEAN
  /\ sending \in Calls \cup {NoCall, Receiver}
  /\ pc \in [Calls -> {"idle", "rejected", "writing", "writeFailed", "failing",
                       "returned", "timedOut", "finished"}]
  /\ rpc \in {"reading", "deliver", "term", "terminating", "stopped"}
  /\ cur \in Calls \cup {NoCall}
  /\ wire \subseteq [seq : Nat, call : Calls]
  /\ replies \subseteq [seq : Nat, call : Calls]
  /\ done \in [Calls -> Nat]
  /\ outcome \in [Calls -> {"none", "error"} \cup Calls]

\* A call is completed at most once, whoever gets to it: its sender after a
\* failed Write, receive() with a response, or terminateCalls.  (A second
\* call.done() on the private channel of Call would block its goroutine for
\* good, with both mutexes held in the case of terminateCalls.)
AtMostOnce == \A c \in Calls : done[c] <= 1

\* A call whose send() has returned is never lost: it has been completed, or it
\* is still in the pending map, or receive() has it in hand, or its own context
\* withdrew it.  In particular none is left when receive() has stopped.
NoCallLost ==
  \A c \in Calls : pc[c] = "returned" =>
    /\ done[c] > 0 \/ c \in pending \/ cur = c
    /\ rpc = "stopped" => done[c] > 0

\* A call never gets the reply to another call's request, although replies come
\* in any order and sequence numbers are all that links the two.
RepliesMatch == \A c \in Calls : outcome[c] \in {"none", "error", c}

\* Once the connection is closed or broken, every call that was issued completes
\* or is withdrawn by its context, also when the shared Done channel is smaller
\* than the number of calls to complete.
BrokenCompletes ==
  \A c \in Calls :
    (~connUp /\ pc[c] # "idle") ~> (done[c] > 0 \/ pc[c] = "timedOut")
-----------------------------------------------------------------------------
\* The strengthening that makes the three invariants inductive.

\* Who holds which mutex, and what shutdown implies: a sender between Write and
\* its removeCall excludes terminateCalls because both hold `sending'.
Locks ==
  /\ \A c \in Calls :
       sending = c <=> pc[c] \in {"rejected", "writing", "writeFailed", "failing"}
  /\ muHeld <=> rpc = "terminating"
  /\ sending = Receiver <=> rpc = "terminating"
  /\ shutdown <=> rpc \in {"terminating", "stopped"}
  /\ shutdown => \A c \in Calls : pc[c] \notin {"writing", "writeFailed", "failing"}

\* A sequence number belongs to one call, and travels with its request.
Numbers ==
  /\ \A c \in Calls : /\ seqOf[c] < seq
                      /\ pc[c] \in {"idle", "rejected"} => seqOf[c] = 0
                      /\ pc[c] = "writing" => seqOf[c] # 0
  /\ \A c, d \in Calls : seqOf[c] = seqOf[d] /\ seqOf[c] # 0 => c = d
  /\ \A r \in wire \cup replies : r.seq = seqOf[r.call] /\ r.seq # 0

\* Each issued call is owned by exactly one party until it is completed.
Ownership ==
  /\ cur # NoCall <=> rpc = "deliver"
  /\ left # {} => rpc = "terminating"
  /\ left \subseteq pending
  /\ \A c \in Calls :
       /\ done[c] <= 1
       /\ c \in pending => /\ seqOf[c] # 0
                           /\ pc[c] \in {"writing", "writeFailed", "returned", "finished"}
                           /\ done[c] = (IF shutdown /\ c \notin left THEN 1 ELSE 0)
       /\ cur = c => done[c] = 0 /\ c \notin pending
       /\ pc[c] \in {"idle", "rejected", "failing"} =>
            done[c] = 0 /\ c \notin pending /\ cur # c
       /\ pc[c] \in {"writing", "writeFailed", "returned"} =>
            done[c] > 0 \/ c \in pending \/ cur = c

\* The inductive invariant: every call of client.go is owned by its sender, by
\* the pending map, by receive() or by terminateCalls, and by one of them only.
IInv == TypeOK /\ Locks /\ Numbers /\ Ownership /\ RepliesMatch
=============================================================================
