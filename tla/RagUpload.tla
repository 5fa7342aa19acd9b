----------------------------- MODULE RagUpload -----------------------------
(***************************************************************************)
(* The documents of one user of sonnet-ai: UploadRagFile (service/file)    *)
(* keeps one file in the user's directory and its index in Redis           *)
(* (common/rag, common/redis); a question to the RAG model takes the first *)
(* file it finds there and retrieves from that file's index, or asks the   *)
(* plain model (common/ai_agent/model.go).  No lock covers an upload.      *)
(***************************************************************************)
EXTENDS Naturals, FiniteSets

CONSTANTS Uploads,    \* each upload names its file after itself (a UUID)
          Questions, None, MaxEnds

VARIABLES
  disk,       \* the files in the user's directory
  index,      \* the index of each file: "none", "empty" or "full"
  upload,     \* pc of each upload, and the files it has listed and not treated yet
  question,   \* pc of each question, the file it picked, whether an upload ran meanwhile
  used,       \* the file each question was answered from
  ends,       \* times the process ended
  overlapped, \* history: two uploads ran at once
  left,       \* history: files whose index nobody dropped: Redis failed, the process ended, or
              \* NewRAGIndexer failed after it had made the index
  latest      \* history: the file of the last upload, None unless it succeeded

vars == <<disk, index, upload, question, used, ends, overlapped, left, latest>>

NoUpload == [pc |-> "idle", todo |-> {}]

Init ==
  /\ disk = {} /\ index = [f \in Uploads |-> "none"]
  /\ upload = [u \in Uploads |-> NoUpload]
  /\ question = [q \in Questions |-> [pc |-> "idle", file |-> None, alone |-> TRUE]]
  /\ used = [q \in Questions |-> None]
  /\ ends = 0 /\ overlapped = FALSE /\ left = {} /\ latest = None

Running == {u \in Uploads : upload[u].pc \notin {"idle", "over"}}
At(u, pc) == upload[u].pc = pc
Goto(u, pc) == upload' = [upload EXCEPT ![u].pc = pc]
asking == <<question, used>>

\* Questions in progress notice that an upload runs.
Disturb == question' = [q \in Questions |-> [question[q] EXCEPT !.alone = FALSE]]

\* ValidateFile and MkdirAll may refuse; then the directory is listed (a directory
\* that is there can be).
Start(u) ==
  /\ At(u, "idle")
  /\ \/ upload' = [upload EXCEPT ![u] = [pc |-> "drop", todo |-> disk]]
        /\ latest' = None
        /\ overlapped' = (overlapped \/ Running # {})
     \/ Goto(u, "over") /\ UNCHANGED <<latest, overlapped>>
  /\ Disturb
  /\ UNCHANGED <<disk, index, used, ends, left>>

\* DeleteIndex; its error is ignored.
DeleteIndex(f) ==
  \/ index' = [index EXCEPT ![f] = "none"] /\ UNCHANGED left
  \/ left' = left \cup {f} /\ UNCHANGED index

\* The indexes of the listed files; then RemoveAllFilesInDir lists the directory again.
DropIndexes(u) ==
  /\ At(u, "drop")
  /\ \/ \E f \in upload[u].todo :
          /\ DeleteIndex(f)
          /\ upload' = [upload EXCEPT ![u].todo = @ \ {f}]
     \/ /\ upload[u].todo = {}
        /\ upload' = [upload EXCEPT ![u] = [pc |-> "clean", todo |-> disk]]
        /\ UNCHANGED <<index, left>>
  /\ UNCHANGED <<disk, asking, ends, overlapped, latest>>

\* Faulty variant: the files stay when their indexes are gone.
RemoveNoFiles(u) ==
  /\ At(u, "clean")
  /\ Goto(u, "create")
  /\ UNCHANGED <<disk, index, asking, ends, overlapped, left, latest>>

\* A file that cannot be removed, or that another upload has removed, ends the upload.
RemoveFiles(u) ==
  /\ At(u, "clean")
  /\ \/ \E f \in upload[u].todo \cap disk :
          /\ disk' = disk \ {f}
          /\ upload' = [upload EXCEPT ![u].todo = @ \ {f}]
     \/ upload[u].todo # {} /\ Goto(u, "over") /\ UNCHANGED disk
     \/ upload[u].todo = {} /\ Goto(u, "create") /\ UNCHANGED disk
  /\ UNCHANGED <<index, asking, ends, overlapped, left, latest>>

\* The file is created and copied: without the file, with part of it, or all.
CreateFile(u) ==
  /\ At(u, "create")
  /\ \/ disk' = disk \cup {u} /\ upload' \in {[upload EXCEPT ![u].pc = pc] : pc \in {"init", "over"}}
     \/ UNCHANGED disk /\ Goto(u, "over")
  /\ UNCHANGED <<index, asking, ends, overlapped, left, latest>>

\* An index that exists already is kept.
InitRedisIndex(f) == index' = [index EXCEPT ![f] = IF @ = "none" THEN "empty" ELSE @]

\* NewRAGIndexer: when it fails the file is removed, but not the index it may
\* have made before.
InitIndex(u) ==
  /\ At(u, "init")
  /\ \/ InitRedisIndex(u) /\ Goto(u, "store") /\ UNCHANGED <<disk, left>>
     \/ /\ disk' = disk \ {u} /\ Goto(u, "over")
        /\ \/ UNCHANGED <<index, left>>
           \/ InitRedisIndex(u) /\ left' = left \cup {u}
  /\ UNCHANGED <<asking, ends, overlapped, latest>>

\* IndexFile: reads the file, embeds it and stores the document; on an error the
\* file is removed, then the index.
IndexFile(u) ==
  /\ At(u, "store")
  /\ \/ /\ u \in disk
        /\ index' = [index EXCEPT ![u] = IF @ = "none" THEN @ ELSE "full"]
        /\ Goto(u, "over") /\ latest' = u
        /\ UNCHANGED disk
     \/ disk' = disk \ {u} /\ Goto(u, "undo") /\ UNCHANGED <<index, latest>>
  /\ UNCHANGED <<asking, ends, overlapped, left>>

\* Faulty variant: the index of a file that could not be indexed stays.
UndoNothing(u) ==
  /\ At(u, "undo")
  /\ Goto(u, "over")
  /\ UNCHANGED <<index, left, disk, asking, ends, overlapped, latest>>

UndoIndex(u) ==
  /\ At(u, "undo")
  /\ DeleteIndex(u) /\ Goto(u, "over")
  /\ UNCHANGED <<disk, asking, ends, overlapped, latest>>

UploadRagFile(u) ==
  \/ Start(u) \/ DropIndexes(u) \/ RemoveFiles(u) \/ CreateFile(u)
  \/ InitIndex(u) \/ IndexFile(u) \/ UndoIndex(u)

\* The process ends in the middle of uploads and questions; files and indexes stay.
End ==
  /\ ends < MaxEnds /\ ends' = ends + 1
  /\ left' = left \cup {u \in Uploads : At(u, "undo")}
  /\ upload' = [u \in Uploads |-> IF u \in Running THEN [NoUpload EXCEPT !.pc = "over"]
                                                  ELSE upload[u]]
  /\ question' = [q \in Questions |-> [question[q] EXCEPT !.pc = IF @ = "picked" THEN "lost" ELSE @]]
  /\ UNCHANGED <<disk, index, used, overlapped, latest>>

-----------------------------------------------------------------------------
\* NewRAGQuery: the first file of the directory; without one, or when it fails,
\* the plain model answers.
Pick(q) ==
  /\ question[q].pc = "idle"
  /\ \/ \E f \in disk : question' = [question EXCEPT ![q] =
                          [pc |-> "picked", file |-> f, alone |-> Running = {}]]
     \/ question' = [question EXCEPT ![q].pc = "plain"]
  /\ UNCHANGED <<disk, index, upload, used, ends, overlapped, left, latest>>

\* Without an index the retrieval is an error.
RetrieveDocuments(f) == index[f] # "none"

\* What the question is answered from; without documents it is asked as it is.
BuildRAGPrompt(f) == IF index[f] = "full" THEN f ELSE None

\* The last message is replaced by the prompt...
WithDocuments(q) ==
  /\ RetrieveDocuments(question[q].file)
  /\ question' = [question EXCEPT ![q].pc = "answered"]
  /\ used' = [used EXCEPT ![q] = BuildRAGPrompt(question[q].file)]

\* ...or, whatever failed, the messages go to the model as they are.
WithoutDocuments(q) ==
  /\ question' = [question EXCEPT ![q].pc = "plain"]
  /\ UNCHANGED used

Retrieve(q) ==
  /\ question[q].pc = "picked"
  /\ WithDocuments(q) \/ WithoutDocuments(q)
  /\ UNCHANGED <<disk, index, upload, ends, overlapped, left, latest>>

Next ==
  \/ \E u \in Uploads : UploadRagFile(u)
  \/ \E q \in Questions : Pick(q) \/ Retrieve(q)
  \/ End

Spec == Init /\ [][Next]_vars

-----------------------------------------------------------------------------
\* Properties.

\* No index outlives its file (file.go:31-49, 82-97), whatever fails and
\* whenever the process ends, when uploads come one after the other: an index
\* without a file belongs to the upload that runs, or nobody dropped it: Redis or
\* NewRAGIndexer failed, or the process ended between the file and its index.
NoOrphanIndex ==
  overlapped \/ \A f \in Uploads :
    index[f] # "none" => f \in disk \cup Running \cup left

\* One file per user, as NewRAGQuery assumes (rag.go:177), when uploads come one
\* after the other; a question asked after an upload that succeeded, and not
\* disturbed by another, is answered from that upload's document.
AnsweredFromLatest ==
  ~overlapped =>
    /\ Cardinality(disk) <= 1
    /\ \A q \in Questions :
         (question[q].pc = "answered" /\ question[q].alone /\ Running = {} /\ latest # None)
           => used[q] = latest
=============================================================================
