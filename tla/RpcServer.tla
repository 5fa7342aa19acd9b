----------------------------- MODULE RpcServer -----------------------------
(***************************************************************************)
(* One connection of sonnet-rpc from the dial to the last response:        *)
(* dialTimeout and the goroutine that makes the client (client.go), and    *)
(* ServeConn, serveCodec and handleRequest of the server (server.go).      *)
(*                                                                         *)
(* A request is handled by two goroutines: handleRequest, which waits for  *)
(* the timer or for `called', and the one that calls the method, answers   *)
(* and then sends on `sent'; both channels are unbuffered.  Responses are  *)
(* a header and a body, written under the mutex `sending'.                 *)
(***************************************************************************)
EXTENDS Naturals, Sequences, FiniteSets

CONSTANTS Reqs, None,
          Setups   \* [http, timed (ConnectTimeout, HandleTimeout # 0), kind of each request]

VARIABLES
  setup,
  dial,      \* dialTimeout: "idle", "waiting", "client", "error"
  maker,     \* its goroutine: "idle", "connect", "options", "offer", "made", "failed", "over"
  clientUp,  \* the client's end of the connection is open
  serverUp,  \* the server's end
  srv,       \* ServeConn: "accept", "options", "read", "reply", "wait", "closed"
  opened,    \* the options are on their way or have been read
  in,        \* requests sent and not read
  lost,      \* requests the decoder of the options took with them
  skewed,    \* the body of a refused request is still in the stream
  bad,       \* the request the server loop answers itself
  h,         \* handleRequest of each request
  g,         \* the goroutine that calls the method
  sending,   \* the holder of the mutex
  out        \* what the client has been sent: <<"head", r>> and <<"body", r>>

dialVars == <<dial, maker>>
workVars == <<h, g>>
vars == <<setup, dialVars, clientUp, serverUp, srv, opened, in, lost, skewed, bad, workVars,
          sending, out>>

Init ==
  /\ setup \in Setups
  /\ dial = "idle" /\ maker = "idle" /\ clientUp = FALSE /\ serverUp = FALSE
  /\ srv = "accept" /\ opened = FALSE /\ in = <<>> /\ lost = {} /\ skewed = FALSE
  /\ bad = None /\ sending = None /\ out = <<>>
  /\ h = [r \in Reqs |-> "idle"] /\ g = [r \in Reqs |-> "idle"]

-----------------------------------------------------------------------------
\* The client.

\* parseOptions and net.DialTimeout; then the goroutine starts.
Dial ==
  /\ dial = "idle"
  /\ \/ /\ dial' = "waiting" /\ maker' = IF setup.http THEN "connect" ELSE "options"
        /\ clientUp' = TRUE /\ serverUp' = TRUE
     \/ dial' = "error" /\ UNCHANGED <<maker, clientUp, serverUp>>
  /\ UNCHANGED <<setup, srv, opened, in, lost, skewed, bad, workVars, sending, out>>

\* NewHTTPClient: CONNECT, and the answer that ServeHTTP gives, or another one.
Connect ==
  /\ maker = "connect"
  /\ \/ clientUp /\ serverUp /\ maker' = "options"
     \/ maker' = "failed"
  /\ UNCHANGED <<setup, dial, clientUp, serverUp, srv, opened, in, lost, skewed, bad, workVars,
                 sending, out>>

\* NewClient: the codec must be known and the options be written.
NewClient ==
  /\ maker = "options"
  /\ \/ clientUp /\ maker' = "offer" /\ opened' = TRUE
     \/ maker' = "failed" /\ UNCHANGED opened
  /\ UNCHANGED <<setup, dial, clientUp, serverUp, srv, in, lost, skewed, bad, workVars, sending, out>>

\* dialTimeout receives what the goroutine offers; an error closes the connection.
DialReturns ==
  /\ dial = "waiting" /\ maker \in {"offer", "failed"}
  /\ IF maker = "offer" THEN dial' = "client" /\ maker' = "made" /\ UNCHANGED clientUp
                        ELSE dial' = "error" /\ maker' = "over" /\ clientUp' = FALSE
  /\ UNCHANGED <<setup, serverUp, srv, opened, in, lost, skewed, bad, workVars, sending, out>>

\* Faulty variant: the connection stays open when the timer fires.
DialTimesOutOpen ==
  /\ dial = "waiting" /\ setup.timed
  /\ dial' = "error"
  /\ UNCHANGED <<setup, maker, clientUp, serverUp, srv, opened, in, lost, skewed, bad, workVars,
                 sending, out>>

\* The timer fires: the connection is closed, and the goroutine will offer its
\* result to nobody.
DialTimesOut ==
  /\ dial = "waiting" /\ setup.timed
  /\ dial' = "error" /\ clientUp' = FALSE
  /\ UNCHANGED <<setup, maker, serverUp, srv, opened, in, lost, skewed, bad, workVars, sending, out>>

\* The client sends a request (RpcClient), or hangs up.
SendRequest(r) ==
  /\ dial = "client" /\ clientUp /\ serverUp
  /\ h[r] = "idle" /\ r \notin lost /\ \A i \in DOMAIN in : in[i] # r
  /\ in' = Append(in, r) /\ h' = [h EXCEPT ![r] = "sent"]
  /\ UNCHANGED <<setup, dialVars, clientUp, serverUp, srv, opened, lost, skewed, bad, g, sending, out>>

HangUp ==
  /\ dial = "client" /\ clientUp /\ clientUp' = FALSE
  /\ UNCHANGED <<setup, dialVars, serverUp, srv, opened, in, lost, skewed, bad, workVars, sending, out>>

-----------------------------------------------------------------------------
\* The server.

\* ServeConn returns: conn.Close.
CloseConn == srv' = "closed" /\ serverUp' = FALSE

\* The listener gives the connection to ServeConn, or ServeHTTP does, once it
\* has answered CONNECT.
TakeOn ==
  /\ srv = "accept" /\ serverUp /\ srv' = "options"
  /\ UNCHANGED <<setup, dialVars, clientUp, serverUp, opened, in, lost, skewed, bad, workVars,
                 sending, out>>
Accept == ~setup.http /\ TakeOn
ServeHTTP == setup.http /\ maker # "connect" /\ TakeOn

\* The options: the decoder reads what has arrived, so requests that came with
\* them are gone with its buffer, and so is the start of the stream.  Options with
\* another magic number or an unknown codec, upon which ServeConn returns as well,
\* are never sent: parseOptions sets the number, NewClient knows the codec.
ReadOptions ==
  /\ srv = "options"
  /\ \/ /\ opened
        /\ \E n \in 0 .. Len(in) :
             /\ lost' = {in[i] : i \in 1 .. n}
             /\ in' = SubSeq(in, n + 1, Len(in))
             /\ skewed' = (n > 0)
        /\ srv' = "read" /\ UNCHANGED serverUp
     \/ ~opened /\ ~clientUp /\ CloseConn /\ UNCHANGED <<in, lost, skewed>>
  /\ UNCHANGED <<setup, dialVars, clientUp, opened, bad, workVars, sending, out>>

\* findService, and cc.ReadBody into the arguments of the method it found.
FindService(r) == setup.kind[r] # "unknown"
ReadBody(r) == setup.kind[r] # "garbled"

\* readRequest.  The body of a request for an unknown method is
\* not read, so it is taken for the next header, which cannot be recovered from;
\* a body that does not decode is only answered with an error.
ReadRequest ==
  /\ srv = "read" /\ in # <<>> /\ ~skewed
  /\ LET r == Head(in) IN
     /\ in' = Tail(in)
     /\ IF ~FindService(r) \/ ~ReadBody(r)
        THEN /\ srv' = "reply" /\ bad' = r /\ skewed' = ~FindService(r)
             /\ h' = [h EXCEPT ![r] = "refused"] /\ UNCHANGED g
        ELSE /\ h' = [h EXCEPT ![r] = "select"] /\ g' = [g EXCEPT ![r] = "call"]
             /\ UNCHANGED <<srv, bad, skewed>>
  /\ UNCHANGED <<setup, dialVars, clientUp, serverUp, opened, lost, sending, out>>

\* The next header cannot be read: the client has gone, a failed answer has
\* closed the connection, or the stream is skewed (a body is left in it, or
\* something arrives after what the decoder took).
ReadFails ==
  /\ srv = "read"
  /\ (in = <<>> /\ ~clientUp) \/ ~serverUp \/ (skewed /\ (in # <<>> \/ lost = {}))
  /\ srv' = "wait"
  /\ UNCHANGED <<setup, dialVars, clientUp, serverUp, opened, in, lost, skewed, bad, workVars,
                 sending, out>>

\* wg.Wait, then cc.Close.
Close ==
  /\ srv = "wait" /\ \A r \in Reqs : h[r] \in {"idle", "sent", "refused", "done"}
  /\ CloseConn
  /\ UNCHANGED <<setup, dialVars, clientUp, opened, in, lost, skewed, bad, workVars, sending, out>>

\* What is written to a connection with a closed end is lost.  The error of Flush
\* is dropped, but the buffer keeps it: a later Encode may fail, which closes the
\* connection.
Put(item) ==
  /\ out' = IF clientUp /\ serverUp THEN Append(out, item) ELSE out
  /\ IF clientUp THEN UNCHANGED serverUp ELSE serverUp' \in {serverUp, FALSE}

\* gob encodes the empty struct of an error, but not every reply of a method.
Encodes(r, who) == who = "method" => setup.kind[r] # "opaque"

\* GobCodec.Write, from the body on: when it cannot be encoded, the header has
\* been sent alone and the connection is closed.
WriteBody(r, who) ==
  IF Encodes(r, who) THEN Put(<<"body", r>>) ELSE UNCHANGED out /\ serverUp' = FALSE

\* sendResponse: the header, then the body, under the mutex.
Lock(r, who) == sending = None /\ sending' = <<r, who>> /\ Put(<<"head", r>>)
\* Faulty variant: the mutex is not released.
UnlockMissing(r, who) == sending = <<r, who>> /\ UNCHANGED sending /\ WriteBody(r, who)
Unlock(r, who) == sending = <<r, who>> /\ sending' = None /\ WriteBody(r, who)
Respond(r, who) == Lock(r, who) \/ Unlock(r, who)
Written(r, who) == sending = <<r, who>>

ReplyInvalid ==
  /\ srv = "reply" /\ Respond(bad, "loop")
  /\ IF Written(bad, "loop") THEN srv' = "read" /\ bad' = None ELSE UNCHANGED <<srv, bad>>
  /\ UNCHANGED <<setup, dialVars, clientUp, opened, in, lost, skewed, workVars>>

loopVars == <<setup, dialVars, clientUp, srv, opened, in, lost, skewed, bad>>
serving == <<loopVars, serverUp>>

\* service.call returns.
CallReturns(r) ==
  /\ g[r] = "call" /\ setup.kind[r] # "hangs"
  /\ g' = [g EXCEPT ![r] = "offer"]
  /\ UNCHANGED <<serving, h, sending, out>>

\* Faulty variant: the result is offered on a buffered channel, and answered.
CalledBuffered(r) ==
  /\ g[r] = "offer" /\ h[r] \in {"select", "expired", "done"}
  /\ g' = [g EXCEPT ![r] = "send"]
  /\ h' = [h EXCEPT ![r] = IF @ = "select" THEN "await" ELSE @]
  /\ UNCHANGED <<serving, sending, out>>

\* called <- struct{}{} meets <-called.
Called(r) ==
  /\ g[r] = "offer" /\ h[r] = "select"
  /\ g' = [g EXCEPT ![r] = "send"] /\ h' = [h EXCEPT ![r] = "await"]
  /\ UNCHANGED <<serving, sending, out>>

\* The method's goroutine answers, then meets <-sent.
Answer(r) ==
  /\ g[r] = "send" /\ Respond(r, "method")
  /\ g' = IF Written(r, "method") THEN [g EXCEPT ![r] = "sent"] ELSE g
  /\ UNCHANGED <<loopVars, h>>

Sent(r) ==
  /\ g[r] = "sent" /\ h[r] = "await"
  /\ g' = [g EXCEPT ![r] = "over"] /\ h' = [h EXCEPT ![r] = "done"]
  /\ UNCHANGED <<serving, sending, out>>

\* time.After: the error is answered; nobody receives from `called' any more.
HandleTimesOut(r) ==
  /\ setup.timed /\ h[r] = "select"
  /\ h' = [h EXCEPT ![r] = "expired"]
  /\ UNCHANGED <<serving, g, sending, out>>

ReplyExpired(r) ==
  /\ h[r] = "expired" /\ Respond(r, "timer")
  /\ h' = IF Written(r, "timer") THEN [h EXCEPT ![r] = "done"] ELSE h
  /\ UNCHANGED <<loopVars, g>>

HandleRequest(r) ==
  \/ CallReturns(r) \/ Called(r) \/ Answer(r) \/ Sent(r)
  \/ HandleTimesOut(r) \/ ReplyExpired(r)

ServeConn ==
  \/ Accept \/ ServeHTTP \/ ReadOptions \/ ReadRequest \/ ReadFails \/ ReplyInvalid \/ Close

Client == Dial \/ Connect \/ NewClient \/ DialReturns \/ DialTimesOut
Next ==
  \/ Client \/ HangUp \/ ServeConn
  \/ \E r \in Reqs : SendRequest(r) \/ HandleRequest(r)

\* The server's goroutines run, its timer fires, and mutexes are granted in the end.
Fairness ==
  /\ WF_vars(ServeConn)
  /\ \A r \in Reqs : /\ WF_vars(CallReturns(r) \/ Called(r) \/ Sent(r)) /\ WF_vars(HandleTimesOut(r))
                     /\ SF_vars(Answer(r)) /\ SF_vars(ReplyExpired(r))
  /\ SF_vars(ReplyInvalid)

Spec == Init /\ [][Next]_vars /\ Fairness

-----------------------------------------------------------------------------
\* Properties.

Accepted == {r \in Reqs : h[r] \notin {"idle", "sent"}}
Responses(r) == Cardinality({i \in DOMAIN out : out[i] = <<"body", r>>})

\* A reply that could not be encoded has ended the connection: its header is the
\* last thing the client has been sent.
CutShort ==
  /\ ~serverUp /\ out # <<>>
  /\ \E q \in Reqs : setup.kind[q] = "opaque" /\ out[Len(out)] = <<"head", q>>

\* The responses are whole and each request has at most one, also when its timer
\* fires while its method returns (server.go:166-195): the goroutine that comes
\* late is never received from.  While its client is still there, the server's end
\* is closed only when every request it accepted has its response
\* (server.go:74-92), or by a reply that gob cannot encode (gob.go:37-57), after
\* whose header nothing is sent any more.
AnsweredOnce ==
  /\ \A i \in DOMAIN out : i % 2 = 0 => out[i] = <<"body", out[i - 1][2]>>
  /\ \A i \in DOMAIN out : i % 2 = 1 => out[i][1] = "head"
  /\ \A r \in Reqs : Responses(r) <= 1
  /\ (clientUp /\ ~serverUp) =>
       CutShort \/ (srv = "closed" /\ \A r \in Accepted : Responses(r) = 1)

\* A dial that has failed leaves no connection open at the client, however late
\* its goroutine finishes (client.go:247-277).
NoConnLeft == dial = "error" => ~clientUp

\* A request is answered, unless its client goes, the decoder of the options took
\* a request with it, a request for an unknown method was sent on the same
\* connection, its method never returns and there is no timeout, or a reply that
\* gob cannot encode has closed the connection (server.go:52-92, 133-195).
RequestsEnd ==
  \A r \in Reqs :
    h[r] = "sent" ~> \/ Responses(r) = 1 \/ ~clientUp \/ lost # {}
                     \/ \E q \in Reqs : setup.kind[q] = "unknown"
                     \/ ~setup.timed /\ setup.kind[r] = "hangs"
                     \/ CutShort
=============================================================================
