------------------------------- MODULE MCChat -------------------------------
(***************************************************************************)
(* The chat page with its backend, and the uploads of one user, each in    *)
(* configurations of its own: the user moving between sessions while       *)
(* everything works; errors; the process ending and coming back; a second  *)
(* page on the same sessions; uploads.                                     *)
(***************************************************************************)
EXTENDS ChatPage

CONSTANTS Uploads, Questions, MaxEnds

VARIABLES disk, index, upload, question, used, ends, overlapped, left, latest

R == INSTANCE RagUpload
ragVars == <<disk, index, upload, question, used, ends, overlapped, left, latest>>

Idle == [requests |-> 0, others |-> 0, moves |-> 0, crashes |-> 0, copies |-> 0, errors |-> FALSE,
         consumer |-> FALSE, uploads |-> FALSE]

MCSetups ==
  {[Idle EXCEPT !.requests = 2, !.moves = 4, !.copies = 1],
   [Idle EXCEPT !.requests = 2, !.moves = 2, !.copies = 1, !.errors = TRUE],
   [Idle EXCEPT !.requests = 2, !.moves = 1, !.copies = 1, !.crashes = 1, !.consumer = TRUE],
   [Idle EXCEPT !.requests = 1, !.moves = 1, !.copies = 2, !.crashes = 1, !.errors = TRUE,
                !.consumer = TRUE],
   [Idle EXCEPT !.requests = 1, !.others = 1, !.moves = 2, !.copies = 1],
   [Idle EXCEPT !.others = 2, !.copies = 1, !.errors = TRUE],
   [Idle EXCEPT !.uploads = TRUE]}

MCInit == Init /\ R!Init

MCNext ==
  \/ Next /\ UNCHANGED ragVars
  \/ setup.uploads /\ R!Next /\ UNCHANGED vars

MCSpec == MCInit /\ [][MCNext]_<<vars, ragVars>> /\ Fairness

\* No index outlives its file (service/file/file.go:31-49, 82-97): see RagUpload.
NoOrphanIndex == R!NoOrphanIndex

\* A question asked after an upload is answered from it (rag.go:164-235): see RagUpload.
AnsweredFromLatest == R!AnsweredFromLatest
=============================================================================
