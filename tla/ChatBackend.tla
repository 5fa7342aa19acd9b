---------------------------- MODULE ChatBackend ----------------------------
(***************************************************************************)
(* The chat backend of sonnet-ai: the handlers of chat requests            *)
(* (controller/session, service/session), the agents that remember the     *)
(* conversation of a session (common/ai_agent), and the queue through      *)
(* which messages reach the database (common/kafka, dao/message), from     *)
(* which the agents are rebuilt after a restart (main.go).                 *)
(*                                                                         *)
(* A request asks one question: its question and its answer are the two    *)
(* messages that carry its name.  There is one user.  AddMessage takes no  *)
(* lock: it reads the slice and writes it in two steps, and the arrays     *)
(* behind the slices may be shared.                                        *)
(***************************************************************************)
EXTENDS Naturals, Sequences, FiniteSets

CONSTANTS Requests, Sessions, None, Setups

VARIABLES
  setup,      \* bounds: .crashes, .copies (of a published message), .errors (any),
              \* .consumer (it gets to run), .requests and .moves of the page, .others
              \* (requests of other pages)
  up,         \* the process runs
  rows,       \* sessions in the database
  memory,     \* the messages of the agent of each identifier, None without an agent
  handler,    \* the requests in the backend
  wire,       \* what each request has been answered and the page has not read
  topic,      \* copies of each message in the queue
  reading,    \* the message the consumer has taken from the queue
  db,         \* stored messages, oldest first
  crashes,
  since,      \* history: messages published since the process started
  published,  \* history: copies of each message ever put into the queue
  raced,      \* history: messages added while another was added to their session
  failed      \* history: a request failed, or the process ended

backVars == <<setup, up, rows, memory, handler, wire, topic, reading, db, crashes,
              since, published, raced, failed>>

\* An agent is found by an identifier: that of a session, or the empty one, here None.
Named == Sessions \cup {None}
Messages == [session : Named, req : Requests, user : BOOLEAN]

\* None is none of the things it stands in for; a published message has a number of copies.
ASSUME ChatAssumption ==
  /\ None \notin Sessions /\ None \notin Messages /\ None \notin Seq(Messages)
  /\ \A s \in Setups : s.copies \in Nat

Msg(s, r, u) == [session |-> s, req |-> r, user |-> u]

Active == {"agent", "addQ", "putQ", "model", "addA", "putA", "end"}
NoHandler == [pc |-> "idle", session |-> None, stream |-> FALSE, new |-> FALSE, seen |-> <<>>]

BackInit ==
  /\ setup \in Setups /\ up = TRUE /\ rows = {} /\ crashes = 0
  /\ memory = [s \in Named |-> None]
  /\ handler = [r \in Requests |-> NoHandler]
  /\ wire = [r \in Requests |-> <<>>]
  /\ topic = [m \in Messages |-> 0] /\ published = [m \in Messages |-> 0]
  /\ reading = None /\ db = <<>>
  /\ since = {} /\ raced = {} /\ failed = FALSE

-----------------------------------------------------------------------------
Events(r, es) == wire' = [wire EXCEPT ![r] = @ \o es]
At(r, pc) == handler[r].pc = pc
Goto(r, pc) == handler' = [handler EXCEPT ![r].pc = pc]

\* The handler returns: an error of a stream is not reported, it just ends.
Fails(r, stream) ==
  /\ Events(r, IF stream THEN <<"eof">> ELSE <<"fail">>)
  /\ failed' = TRUE

storeVars == <<topic, reading, db, since, published>>
lifeVars == <<setup, up, crashes>>

\* A request that names a session.  Nothing checks binding:"required", so null
\* is bound to the empty identifier, which gets an agent like any other.
Receive(r, s, stream) ==
  /\ up /\ At(r, "idle")
  /\ handler' = [handler EXCEPT ![r] = [@ EXCEPT !.pc = "agent", !.session = s, !.stream = stream]]
  /\ UNCHANGED <<lifeVars, storeVars, rows, memory, wire, raced, failed>>

ChatSend(r, s) == Receive(r, s, FALSE)
ChatStreamSend(r, s) == Receive(r, s, TRUE)

\* A fresh identifier; which one makes no difference.
NewSession == CHOOSE s \in Sessions : s \notin rows

\* A request that makes its session: a stream sends the new identifier before
\* anything else.
ReceiveNew(r, stream) ==
  /\ up /\ At(r, "idle")
  /\ \/ LET s == NewSession IN
          /\ rows # Sessions
          /\ rows' = rows \cup {s}
          /\ handler' = [handler EXCEPT ![r] = [@ EXCEPT !.pc = "agent", !.session = s,
                                                          !.stream = stream, !.new = TRUE]]
          /\ Events(r, IF stream THEN <<"sid">> ELSE <<>>)
          /\ UNCHANGED failed
     \/ /\ setup.errors
        /\ Fails(r, stream)
        /\ Goto(r, "over") /\ UNCHANGED rows
  /\ UNCHANGED <<lifeVars, storeVars, memory, raced>>

CreateSessionAndSendMessage(r) == ReceiveNew(r, FALSE)
CreateStreamSessionAndSendMessage(r) == ReceiveNew(r, TRUE)

NewAIAgent == <<>>
\* A model type that is not registered is an error, like a model that cannot be made.
CreateAIAgentFails == setup.errors

\* Faulty variant: it does not look for the agent that another request has made.
GetOrCreateAIAgentAnew(r) ==
  LET s == handler[r].session IN
  /\ At(r, "agent")
  /\ memory' = [memory EXCEPT ![s] = NewAIAgent]
  /\ Goto(r, "addQ")
  /\ UNCHANGED <<lifeVars, storeVars, rows, wire, raced, failed>>

\* GetOrCreateAIAgent, under the manager's mutex.
GetOrCreateAIAgent(r) ==
  LET s == handler[r].session IN
  /\ At(r, "agent")
  /\ \/ /\ memory' = [memory EXCEPT ![s] = IF @ = None THEN NewAIAgent ELSE @]
        /\ Goto(r, "addQ")
        /\ UNCHANGED <<wire, failed>>
     \/ /\ memory[s] = None /\ CreateAIAgentFails
        /\ Fails(r, handler[r].stream)
        /\ Goto(r, "over") /\ UNCHANGED memory
  /\ UNCHANGED <<lifeVars, storeVars, rows, raced>>

\* The requests between the two steps of AddMessage, and what each is adding.
Appending(s) == {r \in Requests : handler[r].session = s /\ handler[r].pc \in {"putQ", "putA"}}
Pending(r) == Msg(handler[r].session, r, handler[r].pc = "putQ")

\* AddMessage: the slice that append starts from...
AddRead(r, pc, next) ==
  LET s == handler[r].session  others == Appending(s) IN
  /\ At(r, pc)
  /\ handler' = [handler EXCEPT ![r] = [@ EXCEPT !.pc = next, !.seen = memory[s]]]
  /\ raced' = IF others = {} THEN raced
              ELSE raced \cup {Pending(q) : q \in others} \cup {Msg(s, r, next = "putQ")}
  /\ UNCHANGED <<lifeVars, storeVars, rows, memory, wire, failed>>

\* ...and Publish, which may fail, or retry what had arrived.
Publish(m) ==
  \E n \in 0 .. setup.copies :
    /\ n = 0 => setup.errors
    /\ topic' = [topic EXCEPT ![m] = @ + n]
    /\ published' = [published EXCEPT ![m] = @ + n]
    /\ since' = IF n = 0 THEN since ELSE since \cup {m}

\* What place i of the slice that r writes may hold.  Appends that start from one
\* slice write to one array while it has room: another request that is adding
\* may have written the place already, and what the agent holds there may stay.
Outcomes(r, own, i) ==
  LET s == handler[r].session IN
  {own[i]} \cup {memory[s][j] : j \in DOMAIN memory[s] \cap {i}}
           \cup {Pending(q) : q \in {p \in Appending(s) \ {r} : Len(handler[p].seen) + 1 = i}}

\* ...the slice it writes, and saveFunc.
AddWrite(r, pc, user, next) ==
  LET s == handler[r].session  m == Msg(s, r, user)
      own == Append(handler[r].seen, m)
      contested == {i \in DOMAIN own : Outcomes(r, own, i) # {own[i]}} IN
  /\ At(r, pc)
  /\ \E c \in [contested -> UNION {Outcomes(r, own, i) : i \in contested}] :
       /\ \A i \in contested : c[i] \in Outcomes(r, own, i)
       /\ memory' = [memory EXCEPT ![s] = [i \in DOMAIN own |-> IF i \in contested THEN c[i] ELSE own[i]]]
  /\ handler' = [handler EXCEPT ![r] = [@ EXCEPT !.pc = next, !.seen = <<>>]]
  /\ Publish(m)
  /\ UNCHANGED <<lifeVars, reading, db, rows, wire, raced, failed>>

\* The model answers, in one chunk when it streams, or fails, perhaps after it.
Model(r) ==
  LET stream == handler[r].stream  chunk == IF stream THEN <<"chunk">> ELSE <<>> IN
  /\ At(r, "model")
  /\ \/ /\ Events(r, chunk)
        /\ Goto(r, "addA")
        /\ UNCHANGED failed
     \/ /\ setup.errors /\ failed' = TRUE
        /\ \E c \in {<<>>, chunk} : Events(r, c \o (IF stream THEN <<"eof">> ELSE <<"fail">>))
        /\ Goto(r, "over")
  /\ UNCHANGED <<lifeVars, storeVars, rows, memory, raced>>

\* The answer, or the end of the stream.
Answer(r) ==
  /\ At(r, "end")
  /\ Events(r, IF handler[r].stream THEN <<"done", "eof">> ELSE <<"ok">>)
  /\ Goto(r, "over")
  /\ UNCHANGED <<lifeVars, storeVars, rows, memory, raced, failed>>

AddQuestion(r) == AddRead(r, "addQ", "putQ") \/ AddWrite(r, "putQ", TRUE, "model")
AddAnswer(r) == AddRead(r, "addA", "putA") \/ AddWrite(r, "putA", FALSE, "end")

Handle(r) ==
  \/ GetOrCreateAIAgent(r) \/ AddQuestion(r) \/ Model(r) \/ AddAnswer(r) \/ Answer(r)

\* Faulty variant: the offset is committed when the message has been stored.
ReadUncommitted ==
  /\ up /\ setup.consumer /\ reading = None
  /\ \E m \in Messages : topic[m] > 0 /\ reading' = m
  /\ UNCHANGED <<lifeVars, rows, memory, handler, wire, topic, db, since, published, raced, failed>>

-----------------------------------------------------------------------------
\* Consume: ReadMessage commits the offset before it returns.  Messages have
\* no key, so the partitions give them in any order.
ReadMessage ==
  /\ up /\ setup.consumer /\ reading = None
  /\ \E m \in Messages : /\ topic[m] > 0
                          /\ topic' = [topic EXCEPT ![m] = @ - 1]
                          /\ reading' = m
  /\ UNCHANGED <<lifeVars, rows, memory, handler, wire, db, since, published, raced, failed>>

\* MQMessage drops the error of the insertion.
MQMessage ==
  /\ up /\ reading # None
  /\ db' = Append(db, reading) \/ (setup.errors /\ UNCHANGED db)
  /\ reading' = None
  /\ UNCHANGED <<lifeVars, rows, memory, handler, wire, topic, since, published, raced, failed>>

\* The process ends; the page loses its connections.
Crash ==
  /\ up /\ crashes < setup.crashes
  /\ up' = FALSE /\ crashes' = crashes + 1 /\ failed' = TRUE
  /\ memory' = [s \in Named |-> None]
  /\ handler' = [r \in Requests |->
                   IF At(r, "idle") THEN handler[r] ELSE [handler[r] EXCEPT !.pc = "over"]]
  /\ wire' = [r \in Requests |->
                IF handler[r].pc \in Active THEN Append(wire[r], "lost") ELSE wire[r]]
  /\ reading' = None /\ since' = {} /\ raced' = {}
  /\ UNCHANGED <<setup, rows, topic, db, published>>

\* Nobody listens.
Refuse(r) ==
  /\ ~up /\ At(r, "idle")
  /\ Goto(r, "over") /\ Events(r, <<"lost">>)
  /\ failed' = TRUE
  /\ UNCHANGED <<lifeVars, storeVars, rows, memory, raced>>

\* One stored message: its session gets an agent when it has none, and when that
\* fails the message is skipped.
RebuildStep(agents, m, fails) ==
  IF agents[m.session] = None /\ fails
  THEN agents
  ELSE [agents EXCEPT ![m.session] = Append(IF @ = None THEN NewAIAgent ELSE @, m)]

\* All of them, oldest first, with the positions at which no agent can be made.
Rebuild(bad) ==
  LET A[n \in 0 .. Len(db)] == IF n = 0 THEN memory
                               ELSE RebuildStep(A[n - 1], db[n], n \in bad)
  IN  A[Len(db)]

\* main: readDataFromDB, whose error is ignored, before the consumer starts.
Restart ==
  /\ ~up /\ up' = TRUE
  /\ \/ \E bad \in SUBSET (1 .. Len(db)) : /\ bad # {} => CreateAIAgentFails
                                          /\ memory' = Rebuild(bad)
     \/ setup.errors /\ UNCHANGED memory
  /\ UNCHANGED <<setup, crashes, storeVars, rows, handler, wire, raced, failed>>

BackNext ==
  \/ \E r \in Requests : Handle(r)
  \/ ReadMessage \/ MQMessage \/ Crash \/ Restart

-----------------------------------------------------------------------------
\* Properties.

\* The seven stages of a handler and what it has in hand.
BackTypeOK ==
  /\ setup \in Setups /\ up \in BOOLEAN /\ rows \subseteq Sessions
  /\ memory \in [Named -> Seq(Messages) \cup {None}]
  /\ handler \in [Requests -> [pc : Active \cup {"idle", "over"}, session : Named,
                               stream : BOOLEAN, new : BOOLEAN, seen : Seq(Messages)]]
  /\ topic \in [Messages -> Nat] /\ published \in [Messages -> Nat]
  /\ reading \in Messages \cup {None} /\ db \in Seq(Messages)
  /\ since \subseteq Messages /\ raced \subseteq Messages /\ failed \in BOOLEAN

Elements(seq) == {seq[i] : i \in DOMAIN seq}
Copies(seq, m) == Cardinality({i \in DOMAIN seq : seq[i] = m})

\* No copy of a message is stored twice (kafka.go:57-68), though the process
\* may end at any moment: the offset is committed before the insertion, so a
\* message can be lost there but never comes again.
NoMoreThanPublished ==
  \A m \in Messages :
    Copies(db, m) + topic[m] + (IF reading = m THEN 1 ELSE 0) <= published[m]

\* What this process has handed to the queue its agents remember
\* (ai_agent.go:37-48), although AddMessage appends without a lock, so that
\* what is added to a session at the same time may overwrite each other: a
\* message is lost only if it was itself added while another one was.  What
\* was remembered before stays, whatever the later ones do to each other.
SavedIsRemembered ==
  \A m \in since :
    \/ m \in raced
    \/ memory[m.session] # None /\ m \in Elements(memory[m.session])
=============================================================================
