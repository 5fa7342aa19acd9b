------------------------------ MODULE ChatPage ------------------------------
(***************************************************************************)
(* The chat page of sonnet-ai-fe (hooks/use-chat.ts) in front of the chat  *)
(* backend.  What is captured when a message is sent (the session, whether *)
(* it is a temporary one) is used whenever something arrives, while the    *)
(* user can go to other sessions: only the input is disabled while a       *)
(* request runs, the sidebar is not.                                       *)
(*                                                                         *)
(* A shown message is its author and the requests whose text it holds.     *)
(***************************************************************************)
EXTENDS ChatBackend

VARIABLES
  shown,    \* currentMessages
  current,  \* currentSessionId, None for null and for "temp"
  temp,     \* tempSession
  cached,   \* sessions: the messages of each listed session, None when it is not listed
  loading,
  page,     \* the requests of the page and what they captured
  loads,    \* requests for a history: the session, and the answer once there is one
  broken,   \* rendering threw: the page is gone
  moves,    \* clicks in the sidebar so far
  overlap   \* history: the user acted while something was in flight, asked in no
            \* session, or used another page

pageVars == <<shown, current, temp, cached, loading, page, loads, broken, moves, overlap>>
vars == <<backVars, pageVars>>

\* A message of the page, and the answer to a request for a history.
ShownMsgs == [user : BOOLEAN, text : Seq(Requests)]
Replies == [ok : BOOLEAN, list : Seq(ShownMsgs)]

\* Requests are numbered in the order in which they are sent.
ASSUME PageAssumption == Requests \subseteq Nat /\ None \notin Seq(ShownMsgs) /\ None \notin Replies

NoPage == [pc |-> "idle", temp |-> FALSE, session |-> None, stream |-> FALSE]
ByUser(r) == [user |-> TRUE, text |-> <<r>>]
ByModel(text) == [user |-> FALSE, text |-> text]

Init ==
  /\ BackInit
  /\ shown = <<>> /\ current = None /\ temp = FALSE /\ loading = FALSE
  /\ cached = [s \in Sessions |-> None]
  /\ page = [r \in Requests |-> NoPage]
  /\ loads = <<>> /\ broken = FALSE /\ moves = 0 /\ overlap = FALSE

InFlight == loads # <<>> \/ \E r \in Requests : page[r].pc = "open"
Acts == overlap' = (overlap \/ InFlight)

\* Neither in a session nor in a temporary one.
Nowhere == current = None /\ ~temp

\* sendMessage: the input is disabled while a request runs.
SendMessage(r, stream) ==
  /\ ~broken /\ ~loading /\ page[r].pc = "idle"
  /\ r <= setup.requests /\ \A q \in Requests : page[q].pc = "idle" => r <= q
  /\ shown' = shown \o <<ByUser(r)>> \o (IF stream THEN <<ByModel(<<>>)>> ELSE <<>>)
  /\ loading' = TRUE
  /\ page' = [page EXCEPT ![r] = [pc |-> "open", temp |-> temp, session |-> current,
                                  stream |-> stream]]
  /\ overlap' = (overlap \/ InFlight \/ Nowhere)
  /\ UNCHANGED <<current, temp, cached, loads, broken, moves>>

\* handleStreaming and handleNormal, up to the request.
HandleStreaming(r) ==
  /\ SendMessage(r, TRUE)
  /\ \/ temp /\ CreateStreamSessionAndSendMessage(r)
     \/ ~temp /\ ChatStreamSend(r, current)
     \/ Refuse(r)
HandleNormal(r) ==
  /\ SendMessage(r, FALSE)
  /\ \/ temp /\ CreateSessionAndSendMessage(r)
     \/ ~temp /\ ChatSend(r, current)
     \/ Refuse(r)

\* The user asks in another tab or window, which reads what is answered there.
OtherPage(r, s, stream) ==
  /\ r > setup.requests /\ r <= setup.requests + setup.others
  /\ s \in rows \cup {None} /\ Receive(r, s, stream)
  /\ overlap' = TRUE
  /\ UNCHANGED <<shown, current, temp, cached, loading, page, loads, broken, moves>>

-----------------------------------------------------------------------------
\* What arrives for request r: it is the first event of wire[r].
Arrives(r, event) ==
  /\ ~broken /\ page[r].pc = "open"
  /\ wire[r] # <<>> /\ Head(wire[r]) = event
  /\ wire' = [wire EXCEPT ![r] = Tail(@)]
  /\ UNCHANGED <<setup, up, rows, memory, handler, topic, reading, db, crashes, since,
                 published, raced, failed, loads, moves, overlap>>

\* The last message of the list is changed in place, so it changes in the
\* cached list it was taken from as well; without a last message the page throws.
AppendToLast(r) ==
  LET n == Len(shown)
      More(list) == [list EXCEPT ![n].text = Append(@, r)] IN
  /\ broken' = (shown = <<>>)
  /\ shown' = IF shown = <<>> THEN shown ELSE More(shown)
  /\ cached' = [s \in Sessions |-> IF shown # <<>> /\ cached[s] = shown THEN More(shown)
                                                                      ELSE cached[s]]

SessionId(r) ==
  /\ Arrives(r, "sid")
  /\ IF page[r].temp
     THEN /\ cached' = [cached EXCEPT ![handler[r].session] = <<>>]
          /\ current' = handler[r].session /\ temp' = FALSE
     ELSE UNCHANGED <<cached, current, temp>>
  /\ UNCHANGED <<shown, loading, page, broken>>

Chunk(r) ==
  /\ Arrives(r, "chunk")
  /\ AppendToLast(r)
  /\ UNCHANGED <<current, temp, loading, page>>

Done(r) ==
  /\ Arrives(r, "done")
  /\ loading' = FALSE
  /\ broken' = (shown = <<>>)
  /\ UNCHANGED <<shown, current, temp, cached, page>>

\* Faulty variant: only the marker of the end, or an error, stops the spinner.
StreamEndsSilently(r) ==
  /\ \/ Arrives(r, "eof") /\ UNCHANGED loading
     \/ page[r].stream /\ Arrives(r, "lost") /\ loading' = FALSE
  /\ page' = [page EXCEPT ![r].pc = "closed"]
  /\ UNCHANGED <<shown, current, temp, cached, broken>>

\* The stream ends, or its connection is lost.
StreamEnds(r) ==
  /\ \/ Arrives(r, "eof")
     \/ page[r].stream /\ Arrives(r, "lost")
  /\ loading' = FALSE
  /\ page' = [page EXCEPT ![r].pc = "closed"]
  /\ UNCHANGED <<shown, current, temp, cached, broken>>

\* The answer to a request that is not streamed.
Answered(r) ==
  LET exchange == <<ByUser(r), ByModel(<<r>>)>>  s == handler[r].session IN
  /\ Arrives(r, "ok")
  /\ IF page[r].temp
     THEN /\ cached' = [cached EXCEPT ![s] = exchange]
          /\ current' = s /\ temp' = FALSE /\ shown' = exchange
     ELSE /\ shown' = Append(shown, ByModel(<<r>>))
          /\ UNCHANGED <<cached, current, temp>>
  /\ loading' = FALSE
  /\ page' = [page EXCEPT ![r].pc = "closed"]
  /\ UNCHANGED broken

Failed(r) ==
  /\ Arrives(r, "fail")
  /\ shown' = IF shown = <<>> THEN shown ELSE SubSeq(shown, 1, Len(shown) - 1)
  /\ loading' = FALSE
  /\ page' = [page EXCEPT ![r].pc = "closed"]
  /\ UNCHANGED <<current, temp, cached, broken>>

\* Nobody catches the error of a request that is not streamed: setLoading is skipped.
Rejected(r) ==
  /\ ~page[r].stream /\ Arrives(r, "lost")
  /\ page' = [page EXCEPT ![r].pc = "rejected"]
  /\ UNCHANGED <<shown, current, temp, cached, loading, broken>>

ReadEvent(r) ==
  \/ SessionId(r) \/ Chunk(r) \/ Done(r) \/ StreamEnds(r)
  \/ Answered(r) \/ Failed(r) \/ Rejected(r)

-----------------------------------------------------------------------------
\* The sidebar.

Move ==
  /\ ~broken /\ moves < setup.moves /\ moves' = moves + 1
  /\ Acts
  /\ UNCHANGED <<backVars, loading, page, broken>>

CreateNewSession ==
  /\ Move
  /\ current' = None /\ temp' = TRUE /\ shown' = <<>>
  /\ UNCHANGED <<cached, loads>>

\* Faulty variant: a list that is cached is not shown.
SwitchSessionOnly(s) ==
  /\ Move /\ cached[s] # None
  /\ current' = s /\ temp' = FALSE
  /\ loads' = IF cached[s] = <<>> THEN Append(loads, [session |-> s, reply |-> None]) ELSE loads
  /\ UNCHANGED <<shown, cached>>

SwitchSession(s) ==
  /\ Move /\ cached[s] # None
  /\ current' = s /\ temp' = FALSE
  /\ IF cached[s] = <<>>
     THEN /\ loads' = Append(loads, [session |-> s, reply |-> None])
          /\ UNCHANGED shown
     ELSE shown' = cached[s] /\ UNCHANGED loads
  /\ UNCHANGED cached

\* The list of sessions: those that have an agent...
GetUserSessions == {s \in Named : memory[s] # None}
\* ...each under the name that SessionInfo gives it in JSON...
SessionInfos == {[sessionId |-> s, name |-> s] : s \in GetUserSessions}
\* ...of which the page takes none unless all of them carry session_id...
Parsed(infos) ==
  IF \A e \in infos : "session_id" \in DOMAIN e THEN {e.session_id : e \in infos} ELSE {}

\* ...and what was listed is replaced, so by nothing.
FetchSessions ==
  /\ up /\ Move
  /\ cached' = [s \in Sessions |-> IF s \in Parsed(SessionInfos) THEN <<>> ELSE None]
  /\ UNCHANGED <<shown, current, temp, loads>>

GetAIAgent(s) == memory[s] # None
\* GetChatHistory: the author is the parity of the position.
History(s) == [i \in DOMAIN memory[s] |-> [user |-> i % 2 = 1, text |-> <<memory[s][i].req>>]]

GetChatHistory ==
  /\ \E i \in DOMAIN loads :
       /\ loads[i].reply = None
       /\ LET s == loads[i].session IN
          loads' = [loads EXCEPT ![i].reply =
                      IF up /\ GetAIAgent(s) THEN [ok |-> TRUE, list |-> History(s)]
                                                ELSE [ok |-> FALSE, list |-> <<>>]]
  /\ UNCHANGED <<backVars, shown, current, temp, cached, loading, page, broken, moves, overlap>>

\* The history is shown, whichever session is the current one by now.  An entry
\* that was removed from the list comes back without its identifier: no click finds it.
LoadReturns ==
  /\ ~broken
  /\ \E i \in DOMAIN loads :
       LET s == loads[i].session  reply == loads[i].reply IN
       /\ reply # None
       /\ loads' = SubSeq(loads, 1, i - 1) \o SubSeq(loads, i + 1, Len(loads))
       /\ IF reply.ok
          THEN /\ shown' = reply.list
               /\ cached' = [cached EXCEPT ![s] = IF @ = None THEN None ELSE reply.list]
          ELSE UNCHANGED <<shown, cached>>
  /\ UNCHANGED <<backVars, current, temp, loading, page, broken, moves, overlap>>

Backend == BackNext /\ UNCHANGED pageVars

Next ==
  \/ Backend
  \/ \E r \in Requests : HandleStreaming(r) \/ HandleNormal(r) \/ ReadEvent(r)
  \/ \E r \in Requests, s \in Named, stream \in BOOLEAN : OtherPage(r, s, stream)
  \/ CreateNewSession \/ FetchSessions
  \/ \E s \in Sessions : SwitchSession(s)
  \/ GetChatHistory \/ LoadReturns

\* Handlers run to their end (the model answers or fails) and the page reads what arrives.
Fairness ==
  \A r \in Requests : WF_vars(Handle(r) /\ UNCHANGED pageVars) /\ WF_vars(ReadEvent(r))

Spec == Init /\ [][Next]_vars /\ Fairness

-----------------------------------------------------------------------------
\* Properties.

Expected(s) == [i \in DOMAIN memory[s] |-> [user |-> memory[s][i].user,
                                            text |-> <<memory[s][i].req>>]]

\* Whatever the user went through on one page, one thing at a time and without
\* a failure, what the page shows under a session are messages that the session's agent
\* holds, by the same author and in the same order (use-chat.ts:60-256,
\* session.go:154-175): cached lists, histories and streamed answers never mix
\* two sessions.
ShownBelongs ==
  (~failed /\ ~overlap /\ ~InFlight /\ current # None) =>
    /\ memory[current] # None
    /\ LET e == Expected(current) IN
       /\ \A i \in DOMAIN shown : \E j \in DOMAIN e : shown[i] = e[j]
       /\ \A i, k \in DOMAIN shown : \A j, l \in DOMAIN e :
            (i < k /\ shown[i] = e[j] /\ shown[k] = e[l]) => j < l

\* The input does not stay disabled (use-chat.ts:156, 195-200, 277): every
\* request ends with the spinner stopped, except when the page has thrown or a
\* request that is not streamed was rejected, an error nobody catches.
LoadingEnds ==
  loading ~> (~loading \/ broken \/ \E r \in Requests : page[r].pc = "rejected")
=============================================================================
