---------------------------- MODULE RpcServerV2 ----------------------------
(***************************************************************************)
(* The server of sonnet-rpc-v2 (internal/server) with its token bucket     *)
(* (internal/limiter), and the framing of messages on a connection         *)
(* (internal/protocol, transport/tcp_connection.go).                       *)
(*                                                                         *)
(* A message is a run of units: the first one carries the magic number and *)
(* the lengths, so it tells how many belong to it.  A write may take only  *)
(* some of the units, a read gives some of those that have arrived.        *)
(***************************************************************************)
EXTENDS Naturals, Sequences, FiniteSets

CONSTANTS Conns, Msgs, None,
          Size,     \* units of each message
          Over,     \* the connection of each message
          Rate,     \* of the token bucket
          MaxFills,
          Setups    \* [shutdowns: how often, unknown: messages for an unknown service]

VARIABLES
  setup,
  listening, closing, crashed,
  conn,      \* "none", "accepted", "serving", "left", "gone"
  up,        \* connections that neither end has closed
  tracked,   \* s.conns
  written,   \* units of each message that its sender has written
  writeMu,   \* the holder of the mutex of each connection's sender
  pipe,      \* units on their way
  buffer,    \* PacketBuffer
  msg,       \* the message being handled on each connection
  garbled,   \* history: connections on which a packet did not decode
  replies,   \* what each connection has been answered: [id, limited]
  tokens, fills,
  downs,     \* Shutdown: "idle", "closing" or "over", and how often it was called
  todo,      \* connections it has still to close
  late       \* history: connections tracked since it began

lifeVars == <<listening, closing, downs, todo>>
wireVars == <<written, writeMu, pipe, buffer, msg, garbled, replies>>
limitVars == <<tokens, fills>>
vars == <<setup, lifeVars, crashed, conn, up, tracked, wireVars, limitVars, late>>

Init ==
  /\ setup \in Setups
  /\ listening = TRUE /\ closing = FALSE /\ crashed = FALSE
  /\ conn = [c \in Conns |-> "none"] /\ up = {} /\ tracked = {} /\ late = {}
  /\ written = [m \in Msgs |-> 0] /\ writeMu = [c \in Conns |-> None]
  /\ pipe = [c \in Conns |-> <<>>] /\ buffer = [c \in Conns |-> <<>>]
  /\ msg = [c \in Conns |-> None] /\ garbled = {} /\ replies = [c \in Conns |-> <<>>]
  /\ tokens = Rate /\ fills = 0
  /\ downs = [pc |-> "idle", n |-> 0] /\ todo = {}

-----------------------------------------------------------------------------
\* The sender (TCPConnection.Write on the client): Encode, then the units under writeMu.
Units(m) == [i \in 1 .. Size[m] |-> [msg |-> m, unit |-> i]]

\* Faulty variant: a partial write releases the mutex.
WriteUnlocked(m) ==
  LET c == Over[m] IN
  /\ c \in up /\ written[m] < Size[m]
  /\ \E n \in written[m] + 1 .. Size[m] :
       /\ pipe' = [pipe EXCEPT ![c] = @ \o SubSeq(Units(m), written[m] + 1, n)]
       /\ written' = [written EXCEPT ![m] = n]
  /\ UNCHANGED <<setup, lifeVars, crashed, conn, up, tracked, writeMu, buffer, msg, garbled, replies,
                 limitVars, late>>

Write(m) ==
  LET c == Over[m] IN
  /\ c \in up /\ written[m] < Size[m] /\ writeMu[c] \in {None, m}
  /\ \E n \in written[m] + 1 .. Size[m] :
       /\ pipe' = [pipe EXCEPT ![c] = @ \o SubSeq(Units(m), written[m] + 1, n)]
       /\ written' = [written EXCEPT ![m] = n]
       /\ writeMu' = [writeMu EXCEPT ![c] = IF n = Size[m] THEN None ELSE m]
  /\ UNCHANGED <<setup, lifeVars, crashed, conn, up, tracked, buffer, msg, garbled, replies, limitVars, late>>

PeerCloses(c) ==
  /\ c \in up /\ up' = up \ {c}
  /\ UNCHANGED <<setup, lifeVars, crashed, conn, tracked, wireVars, limitVars, late>>

-----------------------------------------------------------------------------
\* Handle: Read gives the next whole packet of the buffer, or reads on.
Serving(c) == ~crashed /\ conn[c] = "serving" /\ msg[c] = None
Whole(c) == buffer[c] # <<>> /\ Len(buffer[c]) >= Size[buffer[c][1].msg]

Receive(c) ==
  /\ Serving(c) /\ ~Whole(c) /\ c \in up /\ pipe[c] # <<>>
  /\ \E n \in 1 .. Len(pipe[c]) :
       /\ buffer' = [buffer EXCEPT ![c] = @ \o SubSeq(pipe[c], 1, n)]
       /\ pipe' = [pipe EXCEPT ![c] = SubSeq(@, n + 1, Len(@))]
  /\ UNCHANGED <<setup, lifeVars, crashed, conn, up, tracked, written, writeMu, msg, garbled, replies,
                 limitVars, late>>

\* What is written to a closed connection is dropped.
Reply(c, m, limited) ==
  replies' = IF c \in up THEN [replies EXCEPT ![c] = Append(@, [id |-> m, limited |-> limited])]
                         ELSE replies

\* A packet that does not decode ends the connection.
Leaves(c) == conn' = [conn EXCEPT ![c] = "left"] /\ up' = up \ {c}

\* The packet at the head of the buffer is one message.
Decode(c, m) == SubSeq(buffer[c], 1, Size[m]) = Units(m)

\* The limiter gives a token when there is one.
Allow == tokens > 0 /\ tokens' = tokens - 1

\* A request without a token is answered at once.
ReadPacket(c) ==
  LET m == buffer[c][1].msg  rest == SubSeq(buffer[c], Size[m] + 1, Len(buffer[c])) IN
  /\ Serving(c) /\ Whole(c)
  /\ buffer' = [buffer EXCEPT ![c] = rest]
  /\ IF ~Decode(c, m)
     THEN Leaves(c) /\ garbled' = garbled \cup {c} /\ UNCHANGED <<msg, replies, tokens>>
     ELSE /\ \/ Allow /\ msg' = [msg EXCEPT ![c] = m] /\ UNCHANGED replies
             \/ tokens = 0 /\ Reply(c, m, TRUE) /\ UNCHANGED <<tokens, msg>>
          /\ UNCHANGED <<conn, up, garbled>>
  /\ UNCHANGED <<setup, lifeVars, crashed, tracked, written, writeMu, pipe, fills, late>>

\* NewTokenBucket's goroutine.
Refill ==
  /\ fills < MaxFills /\ fills' = fills + 1 /\ tokens' = Rate
  /\ UNCHANGED <<setup, lifeVars, crashed, conn, up, tracked, wireVars, late>>

\* invoke finds the service to reflect on, if not the method.
Invoke(m) == m \notin setup.unknown

\* Process: the result or the error; without the service reflection panics, and
\* nobody recovers.
Process(c) ==
  /\ ~crashed /\ msg[c] # None
  /\ msg' = [msg EXCEPT ![c] = None]
  /\ IF Invoke(msg[c]) THEN Reply(c, msg[c], FALSE) /\ UNCHANGED crashed
                       ELSE crashed' = TRUE /\ UNCHANGED replies
  /\ UNCHANGED <<setup, lifeVars, conn, up, tracked, written, writeMu, pipe, buffer, garbled, limitVars, late>>

\* Read fails: Handle closes the connection...
ReadFails(c) ==
  /\ Serving(c) /\ ~Whole(c) /\ c \notin up
  /\ Leaves(c)
  /\ UNCHANGED <<setup, lifeVars, crashed, tracked, wireVars, limitVars, late>>

\* The map s.conns has no lock: writing it while Shutdown iterates it, or another
\* goroutine writes it, may end the process.
Touches(c) ==
  \/ crashed' = FALSE
  \/ /\ downs.pc = "closing" \/ \E d \in Conns \ {c} : conn[d] \in {"accepted", "left"}
     /\ crashed' = TRUE

\* ...and its goroutine removes it.
Untrack(c) ==
  /\ ~crashed /\ conn[c] = "left"
  /\ conn' = [conn EXCEPT ![c] = "gone"] /\ tracked' = tracked \ {c}
  /\ todo' = todo \ {c}
  /\ Touches(c)
  /\ UNCHANGED <<setup, listening, closing, downs, up, wireVars, limitVars, late>>

-----------------------------------------------------------------------------
\* Start: Accept, then the map and the goroutine.
Accept(c) ==
  /\ ~crashed /\ listening /\ conn[c] = "none"
  /\ \A d \in Conns : conn[d] # "accepted"
  /\ conn' = [conn EXCEPT ![c] = "accepted"] /\ up' = up \cup {c}
  /\ UNCHANGED <<setup, lifeVars, crashed, tracked, wireVars, limitVars, late>>

Track(c) ==
  /\ ~crashed /\ conn[c] = "accepted"
  /\ conn' = [conn EXCEPT ![c] = "serving"] /\ tracked' = tracked \cup {c}
  /\ late' = IF downs.pc = "idle" THEN late ELSE late \cup {c}
  \* an iteration may or may not produce an entry that is added meanwhile
  /\ todo' \in IF downs.pc = "closing" THEN {todo, todo \cup {c}} ELSE {todo}
  /\ Touches(c)
  /\ UNCHANGED <<setup, listening, closing, downs, up, wireVars, limitVars>>

\* Close: only the listener; Start then fails to accept until Shutdown.
Close ==
  /\ ~crashed /\ setup.shutdowns > 0 /\ listening /\ listening' = FALSE
  /\ UNCHANGED <<setup, closing, downs, todo, crashed, conn, up, tracked, wireVars, limitVars, late>>

\* Shutdown closes the channel `closing'; the second time that is a panic.
Shutdown ==
  /\ ~crashed /\ downs.n < setup.shutdowns /\ downs.pc # "closing"
  /\ IF closing THEN crashed' = TRUE /\ UNCHANGED <<closing, listening, downs, todo>>
     ELSE /\ closing' = TRUE /\ listening' = FALSE /\ UNCHANGED crashed
          /\ downs' = [pc |-> "closing", n |-> downs.n + 1] /\ todo' = tracked
  /\ UNCHANGED <<setup, conn, up, tracked, wireVars, limitVars, late>>

\* Faulty variant: the connections stay open.
ShutdownClosesNone ==
  /\ ~crashed /\ downs.pc = "closing"
  /\ todo' = {} /\ downs' = [downs EXCEPT !.pc = "over"]
  /\ UNCHANGED <<setup, listening, closing, crashed, conn, up, tracked, wireVars, limitVars, late>>

\* It closes the connections one by one.
ShutdownCloses ==
  /\ ~crashed /\ downs.pc = "closing"
  /\ \/ \E c \in todo : up' = up \ {c} /\ todo' = todo \ {c} /\ UNCHANGED downs
     \/ todo = {} /\ downs' = [downs EXCEPT !.pc = "over"] /\ UNCHANGED <<up, todo>>
  /\ UNCHANGED <<setup, listening, closing, crashed, conn, tracked, wireVars, limitVars, late>>

Handle(c) == Receive(c) \/ ReadPacket(c) \/ Process(c) \/ ReadFails(c) \/ Untrack(c)

Next ==
  \/ \E m \in Msgs : Write(m)
  \/ \E c \in Conns : Accept(c) \/ Track(c) \/ Handle(c) \/ PeerCloses(c)
  \/ Refill \/ Close \/ Shutdown \/ ShutdownCloses

Spec == Init /\ [][Next]_vars

-----------------------------------------------------------------------------
\* Properties.

ReplyIds(c) == [i \in DOMAIN replies[c] |-> replies[c][i].id]
Answered(c) == {ReplyIds(c)[i] : i \in DOMAIN ReplyIds(c)}
Behind(c) == {buffer[c][i].msg : i \in DOMAIN buffer[c]} \cup {pipe[c][i].msg : i \in DOMAIN pipe[c]}

\* However the units of concurrent requests are cut on the way, every packet
\* decodes, and each request is taken out of the stream once and answered at most once: what has
\* been answered is neither in hand nor still behind, and what was written is
\* answered, in hand or behind while its connection lasts and the process runs
\* (tcp_connection.go:19-110, server.go:58-84, handler.go:33-69).
OneAnswerEach ==
  \A c \in Conns :
    /\ c \notin garbled
    /\ Cardinality(Answered(c)) = Len(ReplyIds(c))
    /\ Answered(c) \cap (Behind(c) \cup {msg[c]}) = {}
    /\ (c \in up /\ ~crashed) =>
         \A m \in Msgs : (Over[m] = c /\ written[m] > 0) => m \in Answered(c) \cup Behind(c) \cup {msg[c]}

\* A connection that is still open when Shutdown is over was accepted too late for
\* it (server.go:86-134): it was put into the map after Shutdown had begun, or is
\* not in it yet.
ShutdownLeavesLate ==
  downs.pc = "over" => \A c \in up : c \in late \/ conn[c] = "accepted"
=============================================================================
