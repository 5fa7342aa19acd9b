---------------------------- MODULE Chat_proofs ----------------------------
(***************************************************************************)
(* Proofs about the chat of sonnet-ai, for every number of requests,       *)
(* sessions, uploads and questions: the documents of a user (RagUpload),   *)
(* the queue and the agents of the backend (ChatBackend) behind the page.  *)
(***************************************************************************)
EXTENDS MCChat, FiniteSetTheorems, SequenceTheorems, NaturalsInduction,
        WellFoundedInduction, TLAPS

-----------------------------------------------------------------------------
\* The documents of one user (RagUpload).

UploadStates == {"idle", "drop", "clean", "create", "init", "store", "undo", "over"}
QuestionStates == {"idle", "picked", "plain", "answered", "lost"}

RagTypeOK ==
  /\ disk \in SUBSET Uploads /\ index \in [Uploads -> {"none", "empty", "full"}]
  /\ upload \in [Uploads -> [pc : UploadStates, todo : SUBSET Uploads]]
  /\ question \in [Questions -> [pc : QuestionStates, file : Uploads \cup {None}, alone : BOOLEAN]]
  /\ used \in [Questions -> Uploads \cup {None}]
  /\ overlapped \in BOOLEAN /\ left \in SUBSET Uploads /\ latest \in Uploads \cup {None}

\* A file has an index only from the time its upload makes one.
NotYet == \A u \in Uploads : upload[u].pc \in {"idle", "drop", "clean", "create", "init"} => index[u] = "none"

Gone(f) == index[f] = "none" \/ f \in left

\* An upload that runs alone knows the directory: the files it has listed and not
\* treated are the ones with an index, then the ones there are, then there is none,
\* then its own.
Alone(u) ==
  /\ upload[u].pc = "drop" => \A f \in disk : f \in upload[u].todo \/ Gone(f)
  /\ upload[u].pc = "clean" => upload[u].todo = disk /\ \A f \in disk : Gone(f)
  /\ upload[u].pc \in {"create", "undo"} => disk = {}
  /\ upload[u].pc \in {"init", "store"} => disk = {u}
  /\ upload[u].pc = "store" => index[u] # "none"

\* Without overlapping uploads: the directory holds one file at most; only what
\* nobody dropped is left without its file; after an upload that succeeded its file
\* is there, indexed, and nothing runs; and a question that nothing disturbed was
\* asked of it.
RagKept ==
  /\ \A u, v \in R!Running : u = v
  /\ \A u \in R!Running : Alone(u)
  /\ \A f, g \in disk : f = g
  /\ \A f \in Uploads : index[f] # "none" => f \in disk \cup R!Running \cup left
  /\ latest # None => R!Running = {} /\ disk = {latest} /\ index[latest] = "full"
  /\ R!Running # {} => \A q \in Questions : question[q].pc \in {"picked", "answered"} => ~question[q].alone
  /\ \A q \in Questions : (question[q].alone /\ latest # None) =>
       /\ question[q].pc = "picked" => question[q].file = latest
       /\ question[q].pc = "answered" => used[q] = latest

RagInv == RagTypeOK /\ NotYet /\ (~overlapped => RagKept)

\* An upload between its start and its end runs; without overlap no other does.
LEMMA Sole ==
  ASSUME RagTypeOK, NEW u \in Uploads, upload[u].pc \notin {"idle", "over"}
  PROVE  u \in R!Running /\ (RagKept => R!Running = {u})
BY DEF R!Running, RagKept

LEMMA RagInit == R!Init => RagInv
<1> SUFFICES ASSUME R!Init PROVE RagInv
  OBVIOUS
<1> USE DEF R!Init
<1>1. /\ disk \in SUBSET Uploads /\ index \in [Uploads -> {"none", "empty", "full"}]
      /\ used \in [Questions -> Uploads \cup {None}]
      /\ overlapped \in BOOLEAN /\ left \in SUBSET Uploads /\ latest \in Uploads \cup {None}
  OBVIOUS
<1>2. upload \in [Uploads -> [pc : UploadStates, todo : SUBSET Uploads]]
  BY DEF R!NoUpload, UploadStates
<1>3. question \in [Questions -> [pc : QuestionStates, file : Uploads \cup {None}, alone : BOOLEAN]]
  BY DEF QuestionStates
<1>4. R!Running = {}
  BY DEF R!Running, R!NoUpload
<1>5. RagKept
  BY <1>4 DEF RagKept
<1>6. RagTypeOK /\ NotYet
  BY <1>1, <1>2, <1>3 DEF RagTypeOK, NotYet
<1> QED
  BY <1>5, <1>6 DEF RagInv

\* An upload starts, or is refused (file.go:19-40).
LEMMA StartKeeps ==
  ASSUME RagInv, NEW u \in Uploads, R!Start(u)
  PROVE  RagInv'
<1>1. /\ upload[u].pc = "idle" /\ UNCHANGED <<disk, index, used, left>>
      /\ question' = [q \in Questions |-> [question[q] EXCEPT !.alone = FALSE]]
      /\ \/ /\ upload' = [upload EXCEPT ![u] = [pc |-> "drop", todo |-> disk]]
            /\ latest' = None /\ overlapped' = (overlapped \/ R!Running # {})
         \/ upload' = [upload EXCEPT ![u].pc = "over"] /\ UNCHANGED <<latest, overlapped>>
  BY DEF R!Start, R!At, R!Goto, R!Disturb
<1>2. RagTypeOK /\ NotYet /\ (~overlapped => RagKept)
  BY DEF RagInv
<1>3. /\ question' \in [Questions -> [pc : QuestionStates, file : Uploads \cup {None}, alone : BOOLEAN]]
      /\ \A q \in Questions : ~question'[q].alone
  <2>1. question' = [q \in Questions |-> [question[q] EXCEPT !.alone = FALSE]]
    BY <1>1
  <2>2. ASSUME NEW q \in Questions
        PROVE  /\ [question[q] EXCEPT !.alone = FALSE]
                    \in [pc : QuestionStates, file : Uploads \cup {None}, alone : BOOLEAN]
               /\ [question[q] EXCEPT !.alone = FALSE].alone = FALSE
    <3>1. question[q] \in [pc : QuestionStates, file : Uploads \cup {None}, alone : BOOLEAN]
      BY <1>2 DEF RagTypeOK
    <3> QED
      BY <3>1
  <2> QED
    BY <2>1, <2>2
<1>4. upload' \in [Uploads -> [pc : UploadStates, todo : SUBSET Uploads]]
  BY <1>1, <1>2 DEF RagTypeOK, UploadStates
<1>5. overlapped' \in BOOLEAN /\ latest' \in Uploads \cup {None}
  BY <1>1, <1>2 DEF RagTypeOK
<1>6. RagTypeOK'
  BY <1>1, <1>2, <1>3, <1>4, <1>5 DEF RagTypeOK
<1>7. \A v \in Uploads : v # u => upload'[v] = upload[v]
  BY <1>1, <1>2 DEF RagTypeOK
<1>8. index[u] = "none" /\ u \notin R!Running
  BY <1>1, <1>2 DEF NotYet, R!Running
<1>9. NotYet'
  BY <1>1, <1>2, <1>7, <1>8 DEF NotYet
<1>10. CASE /\ upload' = [upload EXCEPT ![u] = [pc |-> "drop", todo |-> disk]]
            /\ latest' = None /\ overlapped' = (overlapped \/ R!Running # {})
  <2> SUFFICES ASSUME ~overlapped' PROVE RagKept'
    BY <1>6, <1>9 DEF RagInv
  <2>1. ~overlapped /\ R!Running = {} /\ RagKept
    BY <1>10, <1>2
  <2>2. upload'[u].pc = "drop" /\ upload'[u].todo = disk
    BY <1>10, <1>2 DEF RagTypeOK
  <2>3. R!Running' = {u}
    BY <2>1, <2>2, <1>7 DEF R!Running
  <2>4. Alone(u)'
    BY <2>2, <1>1 DEF Alone
  <2> QED
    BY <2>1, <2>3, <2>4, <1>1, <1>3, <1>10 DEF RagKept
<1>11. CASE upload' = [upload EXCEPT ![u].pc = "over"] /\ UNCHANGED <<latest, overlapped>>
  <2> SUFFICES ASSUME ~overlapped' PROVE RagKept'
    BY <1>6, <1>9 DEF RagInv
  <2>1. RagKept
    BY <1>11, <1>2
  <2>2. upload'[u].pc = "over"
    BY <1>11, <1>2 DEF RagTypeOK
  <2>3. R!Running' = R!Running
    BY <2>2, <1>1, <1>7 DEF R!Running
  <2>4. \A v \in R!Running : Alone(v)'
    <3> SUFFICES ASSUME NEW v \in R!Running PROVE Alone(v)'
      OBVIOUS
    <3>1. Alone(v) /\ upload'[v] = upload[v]
      BY <2>1, <1>7, <1>8 DEF RagKept, R!Running
    <3> QED
      BY <3>1, <1>1 DEF Alone, Gone
  <2> QED
    BY <2>1, <2>3, <2>4, <1>1, <1>3, <1>11 DEF RagKept
<1> QED
  BY <1>1, <1>10, <1>11

\* The indexes of the listed files are dropped, or left (file.go:41-46).
LEMMA DropKeeps ==
  ASSUME RagInv, NEW u \in Uploads, R!DropIndexes(u)
  PROVE  RagInv'
<1>1. /\ upload[u].pc = "drop" /\ UNCHANGED <<disk, question, used, overlapped, latest>>
      /\ \/ \E f \in upload[u].todo :
              /\ R!DeleteIndex(f) /\ upload' = [upload EXCEPT ![u].todo = @ \ {f}]
         \/ /\ upload[u].todo = {} /\ upload' = [upload EXCEPT ![u] = [pc |-> "clean", todo |-> disk]]
            /\ UNCHANGED <<index, left>>
  BY DEF R!DropIndexes, R!At, R!asking
<1>2. RagTypeOK /\ NotYet /\ (~overlapped => RagKept) /\ u \in R!Running
  BY <1>1, Sole DEF RagInv
<1>3. ASSUME NEW f \in upload[u].todo, R!DeleteIndex(f), upload' = [upload EXCEPT ![u].todo = @ \ {f}]
      PROVE  RagInv'
  <2>1. f \in Uploads
    BY <1>2 DEF RagTypeOK
  <2>2. /\ index' \in [Uploads -> {"none", "empty", "full"}] /\ left' \in SUBSET Uploads /\ left \subseteq left'
        /\ \A g \in Uploads : g # f => index'[g] = index[g]
        /\ Gone(f)' /\ \A g \in Uploads : index'[g] = index[g] \/ index'[g] = "none"
    BY <1>2, <1>3, <2>1 DEF R!DeleteIndex, RagTypeOK, Gone
  <2>3. /\ upload' \in [Uploads -> [pc : UploadStates, todo : SUBSET Uploads]]
        /\ upload'[u].pc = "drop" /\ upload'[u].todo = upload[u].todo \ {f}
        /\ \A v \in Uploads : v # u => upload'[v] = upload[v]
    BY <1>1, <1>2, <1>3 DEF RagTypeOK
  <2>4. RagTypeOK' /\ NotYet'
    BY <1>1, <1>2, <2>2, <2>3 DEF RagTypeOK, NotYet
  <2>5. R!Running' = R!Running
    BY <1>1, <2>3 DEF R!Running
  <2> SUFFICES ASSUME ~overlapped' PROVE RagKept'
    BY <2>4 DEF RagInv
  <2>6. RagKept /\ R!Running = {u}
    BY <1>1, <1>2, Sole
  <2>7. Alone(u)'
    BY <1>1, <1>2, <2>2, <2>3, <2>6 DEF Alone, Gone, RagKept, RagTypeOK
  <2>8. latest = None
    BY <2>6 DEF RagKept
  <2>9. \A g \in Uploads : index'[g] # "none" => g \in disk' \cup R!Running' \cup left'
    BY <1>1, <2>2, <2>5, <2>6 DEF RagKept
  <2> QED
    BY <1>1, <2>5, <2>6, <2>7, <2>8, <2>9 DEF RagKept
<1>4. CASE /\ upload[u].todo = {} /\ upload' = [upload EXCEPT ![u] = [pc |-> "clean", todo |-> disk]]
           /\ UNCHANGED <<index, left>>
  <2>1. /\ upload' \in [Uploads -> [pc : UploadStates, todo : SUBSET Uploads]]
        /\ upload'[u].pc = "clean" /\ upload'[u].todo = disk
        /\ \A v \in Uploads : v # u => upload'[v] = upload[v]
    BY <1>2, <1>4 DEF RagTypeOK, UploadStates
  <2>2. RagTypeOK' /\ NotYet'
    BY <1>1, <1>2, <1>4, <2>1 DEF RagTypeOK, NotYet
  <2>3. R!Running' = R!Running
    BY <1>1, <2>1 DEF R!Running
  <2> SUFFICES ASSUME ~overlapped' PROVE RagKept'
    BY <2>2 DEF RagInv
  <2>4. RagKept /\ R!Running = {u}
    BY <1>1, <1>2, Sole
  <2>5. Alone(u)'
    BY <1>1, <1>4, <2>1, <2>4 DEF Alone, Gone, RagKept
  <2> QED
    BY <1>1, <1>4, <2>3, <2>4, <2>5 DEF RagKept
<1> QED
  BY <1>1, <1>3, <1>4

\* The files of the directory are removed (file.go:47-49).
LEMMA RemoveKeeps ==
  ASSUME RagInv, NEW u \in Uploads, R!RemoveFiles(u)
  PROVE  RagInv'
<1>1. /\ upload[u].pc = "clean" /\ UNCHANGED <<index, question, used, overlapped, left, latest>>
      /\ \/ \E f \in upload[u].todo \cap disk :
              disk' = disk \ {f} /\ upload' = [upload EXCEPT ![u].todo = @ \ {f}]
         \/ upload[u].todo # {} /\ upload' = [upload EXCEPT ![u].pc = "over"] /\ UNCHANGED disk
         \/ upload[u].todo = {} /\ upload' = [upload EXCEPT ![u].pc = "create"] /\ UNCHANGED disk
  BY DEF R!RemoveFiles, R!At, R!asking, R!Goto
<1>2. RagTypeOK /\ NotYet /\ (~overlapped => RagKept) /\ u \in R!Running /\ index[u] = "none"
  BY <1>1, Sole DEF RagInv, NotYet
<1>3. ASSUME NEW f \in upload[u].todo \cap disk, disk' = disk \ {f},
             upload' = [upload EXCEPT ![u].todo = @ \ {f}]
      PROVE  RagInv'
  <2>1. /\ upload' \in [Uploads -> [pc : UploadStates, todo : SUBSET Uploads]]
        /\ upload'[u].pc = "clean" /\ upload'[u].todo = upload[u].todo \ {f}
        /\ \A v \in Uploads : v # u => upload'[v] = upload[v]
    BY <1>1, <1>2, <1>3 DEF RagTypeOK
  <2>2. RagTypeOK' /\ NotYet'
    BY <1>1, <1>2, <1>3, <2>1 DEF RagTypeOK, NotYet
  <2>3. R!Running' = R!Running
    BY <1>1, <2>1 DEF R!Running
  <2> SUFFICES ASSUME ~overlapped' PROVE RagKept'
    BY <2>2 DEF RagInv
  <2>4. RagKept /\ R!Running = {u}
    BY <1>1, <1>2, Sole
  <2>5. upload[u].todo = disk /\ Gone(f)
    BY <1>1, <1>3, <2>4 DEF RagKept, Alone
  <2>6. Alone(u)'
    BY <1>1, <1>3, <2>1, <2>4, <2>5 DEF Alone, Gone, RagKept
  <2> QED
    BY <1>1, <1>3, <2>3, <2>4, <2>5, <2>6 DEF RagKept, Gone
<1>4. ASSUME upload' = [upload EXCEPT ![u].pc = "over"], UNCHANGED disk PROVE RagInv'
  <2>1. /\ upload' \in [Uploads -> [pc : UploadStates, todo : SUBSET Uploads]]
        /\ upload'[u].pc = "over" /\ \A v \in Uploads : v # u => upload'[v] = upload[v]
    BY <1>2, <1>4 DEF RagTypeOK, UploadStates
  <2>2. RagTypeOK' /\ NotYet'
    BY <1>1, <1>2, <1>4, <2>1 DEF RagTypeOK, NotYet
  <2>3. R!Running' = R!Running \ {u}
    BY <1>1, <2>1 DEF R!Running
  <2> SUFFICES ASSUME ~overlapped' PROVE RagKept'
    BY <2>2 DEF RagInv
  <2>4. RagKept /\ R!Running = {u}
    BY <1>1, <1>2, Sole
  <2> QED
    BY <1>1, <1>2, <1>4, <2>3, <2>4 DEF RagKept
<1>5. ASSUME upload[u].todo = {}, upload' = [upload EXCEPT ![u].pc = "create"], UNCHANGED disk PROVE RagInv'
  <2>1. /\ upload' \in [Uploads -> [pc : UploadStates, todo : SUBSET Uploads]]
        /\ upload'[u].pc = "create" /\ \A v \in Uploads : v # u => upload'[v] = upload[v]
    BY <1>2, <1>5 DEF RagTypeOK, UploadStates
  <2>2. RagTypeOK' /\ NotYet'
    BY <1>1, <1>2, <1>5, <2>1 DEF RagTypeOK, NotYet
  <2>3. R!Running' = R!Running
    BY <1>1, <2>1 DEF R!Running
  <2> SUFFICES ASSUME ~overlapped' PROVE RagKept'
    BY <2>2 DEF RagInv
  <2>4. RagKept /\ R!Running = {u}
    BY <1>1, <1>2, Sole
  <2>5. Alone(u)'
    BY <1>1, <1>5, <2>1, <2>4 DEF Alone, RagKept
  <2> QED
    BY <1>1, <1>5, <2>3, <2>4, <2>5 DEF RagKept
<1> QED
  BY <1>1, <1>3, <1>4, <1>5

\* The file is created, in part or whole, or not (file.go:51-80).
LEMMA CreateKeeps ==
  ASSUME RagInv, NEW u \in Uploads, R!CreateFile(u)
  PROVE  RagInv'
<1>1. /\ upload[u].pc = "create" /\ UNCHANGED <<index, question, used, overlapped, left, latest>>
      /\ disk' = disk \/ disk' = disk \cup {u}
      /\ \/ upload' = [upload EXCEPT ![u].pc = "over"]
         \/ disk' = disk \cup {u} /\ upload' = [upload EXCEPT ![u].pc = "init"]
  BY DEF R!CreateFile, R!At, R!asking, R!Goto
<1>2. RagTypeOK /\ NotYet /\ (~overlapped => RagKept) /\ u \in R!Running /\ index[u] = "none"
  BY <1>1, Sole DEF RagInv, NotYet
<1>3. /\ upload' \in [Uploads -> [pc : UploadStates, todo : SUBSET Uploads]]
      /\ \/ upload'[u].pc = "over"
         \/ upload'[u].pc = "init" /\ disk' = disk \cup {u}
      /\ \A v \in Uploads : v # u => upload'[v] = upload[v]
  BY <1>1, <1>2 DEF RagTypeOK, UploadStates
<1>4. RagTypeOK' /\ NotYet'
  BY <1>1, <1>2, <1>3 DEF RagTypeOK, NotYet
<1>5. R!Running' \subseteq R!Running /\ (upload'[u].pc = "init" => R!Running' = R!Running)
      /\ R!Running \ {u} = R!Running' \ {u}
  BY <1>1, <1>3 DEF R!Running
<1> SUFFICES ASSUME ~overlapped' PROVE RagKept'
  BY <1>4 DEF RagInv
<1>6. RagKept /\ R!Running = {u}
  BY <1>1, <1>2, Sole
<1>7. disk = {} /\ latest = None
  BY <1>1, <1>6 DEF RagKept, Alone
<1>8. u \in R!Running' => Alone(u)'
  BY <1>1, <1>3, <1>7 DEF Alone, R!Running
<1>9. \A q \in Questions : question[q].pc \in {"picked", "answered"} => ~question[q].alone
  BY <1>6 DEF RagKept
<1>10. \A f \in Uploads : index[f] # "none" => f \in left
  BY <1>2, <1>6, <1>7 DEF RagKept
<1> QED
  BY <1>1, <1>5, <1>6, <1>7, <1>8, <1>9, <1>10 DEF RagKept

\* Its index is made, or not, perhaps in vain (file.go:82-90).
LEMMA InitIndexKeeps ==
  ASSUME RagInv, NEW u \in Uploads, R!InitIndex(u)
  PROVE  RagInv'
<1>1. /\ upload[u].pc = "init" /\ UNCHANGED <<question, used, overlapped, latest>>
      /\ \/ /\ index' = [index EXCEPT ![u] = IF @ = "none" THEN "empty" ELSE @]
            /\ upload' = [upload EXCEPT ![u].pc = "store"] /\ UNCHANGED <<disk, left>>
         \/ /\ disk' = disk \ {u} /\ upload' = [upload EXCEPT ![u].pc = "over"]
            /\ \/ UNCHANGED <<index, left>>
               \/ /\ index' = [index EXCEPT ![u] = IF @ = "none" THEN "empty" ELSE @]
                  /\ left' = left \cup {u}
  BY DEF R!InitIndex, R!At, R!asking, R!Goto, R!InitRedisIndex
<1>2. RagTypeOK /\ NotYet /\ (~overlapped => RagKept) /\ u \in R!Running /\ index[u] = "none"
  BY <1>1, Sole DEF RagInv, NotYet
<1>3. CASE /\ index' = [index EXCEPT ![u] = IF @ = "none" THEN "empty" ELSE @]
           /\ upload' = [upload EXCEPT ![u].pc = "store"] /\ UNCHANGED <<disk, left>>
  <2>1. /\ upload' \in [Uploads -> [pc : UploadStates, todo : SUBSET Uploads]]
        /\ upload'[u].pc = "store" /\ \A v \in Uploads : v # u => upload'[v] = upload[v]
    BY <1>2, <1>3 DEF RagTypeOK, UploadStates
  <2>2. /\ index' \in [Uploads -> {"none", "empty", "full"}] /\ index'[u] = "empty"
        /\ \A f \in Uploads : f # u => index'[f] = index[f]
    BY <1>2, <1>3 DEF RagTypeOK
  <2>3. RagTypeOK' /\ NotYet'
    BY <1>1, <1>2, <1>3, <2>1, <2>2 DEF RagTypeOK, NotYet
  <2>4. R!Running' = R!Running
    BY <1>1, <2>1 DEF R!Running
  <2> SUFFICES ASSUME ~overlapped' PROVE RagKept'
    BY <2>3 DEF RagInv
  <2>5. RagKept /\ R!Running = {u}
    BY <1>1, <1>2, Sole
  <2>6. disk = {u} /\ latest = None
    BY <1>1, <2>5 DEF RagKept, Alone
  <2>7. Alone(u)'
    BY <1>3, <2>1, <2>2, <2>6 DEF Alone
  <2>8. \A f \in Uploads : index'[f] # "none" => f \in disk' \cup R!Running' \cup left'
    BY <1>3, <2>2, <2>4, <2>5, <2>6 DEF RagKept
  <2> QED
    BY <1>1, <1>3, <2>4, <2>5, <2>6, <2>7, <2>8 DEF RagKept
<1>4. CASE /\ disk' = disk \ {u} /\ upload' = [upload EXCEPT ![u].pc = "over"]
           /\ \/ UNCHANGED <<index, left>>
              \/ /\ index' = [index EXCEPT ![u] = IF @ = "none" THEN "empty" ELSE @]
                 /\ left' = left \cup {u}
  <2>1. /\ upload' \in [Uploads -> [pc : UploadStates, todo : SUBSET Uploads]]
        /\ upload'[u].pc = "over" /\ \A v \in Uploads : v # u => upload'[v] = upload[v]
    BY <1>2, <1>4 DEF RagTypeOK, UploadStates
  <2>2. /\ index' \in [Uploads -> {"none", "empty", "full"}] /\ (index'[u] # "none" => u \in left')
        /\ \A f \in Uploads : f # u => index'[f] = index[f]
        /\ left' \in SUBSET Uploads /\ left \subseteq left'
    BY <1>2, <1>4 DEF RagTypeOK
  <2>3. RagTypeOK' /\ NotYet'
    BY <1>1, <1>2, <1>4, <2>1, <2>2 DEF RagTypeOK, NotYet
  <2>4. R!Running' = R!Running \ {u}
    BY <1>1, <2>1 DEF R!Running
  <2> SUFFICES ASSUME ~overlapped' PROVE RagKept'
    BY <2>3 DEF RagInv
  <2>5. RagKept /\ R!Running = {u}
    BY <1>1, <1>2, Sole
  <2>6. disk = {u} /\ latest = None
    BY <1>1, <2>5 DEF RagKept, Alone
  <2>8. \A f \in Uploads : index'[f] # "none" => f \in disk' \cup R!Running' \cup left'
    BY <1>4, <2>2, <2>4, <2>5, <2>6 DEF RagKept
  <2> QED
    BY <1>1, <1>4, <2>4, <2>5, <2>6, <2>8 DEF RagKept
<1> QED
  BY <1>1, <1>3, <1>4

\* The document is stored; or the file is removed, and its index dropped
\* (file.go:91-97).
LEMMA IndexKeeps ==
  ASSUME RagInv, NEW u \in Uploads, R!IndexFile(u) \/ R!UndoIndex(u)
  PROVE  RagInv'
<1>1. CASE R!IndexFile(u)
  <2>1. /\ upload[u].pc = "store" /\ UNCHANGED <<question, used, overlapped, left>>
        /\ \/ /\ u \in disk /\ index' = [index EXCEPT ![u] = IF @ = "none" THEN @ ELSE "full"]
              /\ upload' = [upload EXCEPT ![u].pc = "over"] /\ latest' = u /\ UNCHANGED disk
           \/ /\ disk' = disk \ {u} /\ upload' = [upload EXCEPT ![u].pc = "undo"]
              /\ UNCHANGED <<index, latest>>
    BY <1>1 DEF R!IndexFile, R!At, R!asking, R!Goto
  <2>2. RagTypeOK /\ NotYet /\ (~overlapped => RagKept) /\ u \in R!Running
    BY <2>1, Sole DEF RagInv
  <2>3. CASE /\ u \in disk /\ index' = [index EXCEPT ![u] = IF @ = "none" THEN @ ELSE "full"]
             /\ upload' = [upload EXCEPT ![u].pc = "over"] /\ latest' = u /\ UNCHANGED disk
    <3>1. /\ upload' \in [Uploads -> [pc : UploadStates, todo : SUBSET Uploads]]
          /\ upload'[u].pc = "over" /\ \A v \in Uploads : v # u => upload'[v] = upload[v]
      BY <2>2, <2>3 DEF RagTypeOK, UploadStates
    <3>2. /\ index' \in [Uploads -> {"none", "empty", "full"}]
          /\ index[u] # "none" => index'[u] = "full"
          /\ \A f \in Uploads : f # u => index'[f] = index[f]
      BY <2>2, <2>3 DEF RagTypeOK
    <3>3. RagTypeOK' /\ NotYet'
      BY <2>1, <2>2, <2>3, <3>1, <3>2 DEF RagTypeOK, NotYet
    <3>4. R!Running' = R!Running \ {u}
      BY <2>1, <3>1 DEF R!Running
    <3> SUFFICES ASSUME ~overlapped' PROVE RagKept'
      BY <3>3 DEF RagInv
    <3>5. RagKept /\ R!Running = {u}
      BY <2>1, <2>2, Sole
    <3>6. disk = {u} /\ index[u] # "none"
      BY <2>1, <3>5 DEF RagKept, Alone
    <3>7. \A q \in Questions : question[q].pc \in {"picked", "answered"} => ~question[q].alone
      BY <3>5 DEF RagKept
    <3>8. \A f \in Uploads : index'[f] # "none" => f \in disk' \cup R!Running' \cup left'
      BY <2>1, <2>3, <3>2, <3>4, <3>5, <3>6 DEF RagKept
    <3> QED
      BY <2>1, <2>3, <3>2, <3>4, <3>5, <3>6, <3>7, <3>8 DEF RagKept
  <2>4. CASE /\ disk' = disk \ {u} /\ upload' = [upload EXCEPT ![u].pc = "undo"]
             /\ UNCHANGED <<index, latest>>
    <3>1. /\ upload' \in [Uploads -> [pc : UploadStates, todo : SUBSET Uploads]]
          /\ upload'[u].pc = "undo" /\ \A v \in Uploads : v # u => upload'[v] = upload[v]
      BY <2>2, <2>4 DEF RagTypeOK, UploadStates
    <3>2. RagTypeOK' /\ NotYet'
      BY <2>1, <2>2, <2>4, <3>1 DEF RagTypeOK, NotYet
    <3>3. R!Running' = R!Running
      BY <2>1, <3>1 DEF R!Running
    <3> SUFFICES ASSUME ~overlapped' PROVE RagKept'
      BY <3>2 DEF RagInv
    <3>4. RagKept /\ R!Running = {u}
      BY <2>1, <2>2, Sole
    <3>5. disk = {u} /\ latest = None
      BY <2>1, <3>4 DEF RagKept, Alone
    <3>6. Alone(u)'
      BY <2>4, <3>1, <3>5 DEF Alone
    <3>7. \A f \in Uploads : index'[f] # "none" => f \in disk' \cup R!Running' \cup left'
      BY <2>1, <2>4, <3>3, <3>4, <3>5 DEF RagKept
    <3> QED
      BY <2>1, <2>4, <3>3, <3>4, <3>5, <3>6, <3>7 DEF RagKept
  <2> QED
    BY <2>1, <2>3, <2>4
<1>2. CASE R!UndoIndex(u)
  <2>1. /\ upload[u].pc = "undo" /\ UNCHANGED <<disk, question, used, overlapped, latest>>
        /\ upload' = [upload EXCEPT ![u].pc = "over"] /\ R!DeleteIndex(u)
    BY <1>2 DEF R!UndoIndex, R!At, R!asking, R!Goto
  <2>2. RagTypeOK /\ NotYet /\ (~overlapped => RagKept) /\ u \in R!Running
    BY <2>1, Sole DEF RagInv
  <2>3. /\ upload' \in [Uploads -> [pc : UploadStates, todo : SUBSET Uploads]]
        /\ upload'[u].pc = "over" /\ \A v \in Uploads : v # u => upload'[v] = upload[v]
    BY <2>1, <2>2 DEF RagTypeOK, UploadStates
  <2>4. /\ index' \in [Uploads -> {"none", "empty", "full"}] /\ left' \in SUBSET Uploads /\ left \subseteq left'
        /\ \A g \in Uploads : g # u => index'[g] = index[g]
        /\ index'[u] # "none" => u \in left'
    BY <2>1, <2>2 DEF R!DeleteIndex, RagTypeOK
  <2>5. RagTypeOK' /\ NotYet'
    BY <2>1, <2>2, <2>3, <2>4 DEF RagTypeOK, NotYet
  <2>6. R!Running' = R!Running \ {u}
    BY <2>1, <2>3 DEF R!Running
  <2> SUFFICES ASSUME ~overlapped' PROVE RagKept'
    BY <2>5 DEF RagInv
  <2>7. RagKept /\ R!Running = {u}
    BY <2>1, <2>2, Sole
  <2>8. disk = {} /\ latest = None
    BY <2>1, <2>7 DEF RagKept, Alone
  <2>9. \A f \in Uploads : index'[f] # "none" => f \in disk' \cup R!Running' \cup left'
    BY <2>1, <2>4, <2>6, <2>7, <2>8 DEF RagKept
  <2> QED
    BY <2>1, <2>6, <2>7, <2>8, <2>9 DEF RagKept
<1> QED
  BY <1>1, <1>2

\* The process ends in the middle of uploads and questions.
LEMMA EndKeeps ==
  ASSUME RagInv, R!End
  PROVE  RagInv'
<1>1. /\ UNCHANGED <<disk, index, used, overlapped, latest>>
      /\ left' = left \cup {u \in Uploads : upload[u].pc = "undo"}
      /\ upload' = [u \in Uploads |-> IF u \in R!Running THEN [pc |-> "over", todo |-> {}] ELSE upload[u]]
      /\ question' = [q \in Questions |-> [question[q] EXCEPT !.pc = IF @ = "picked" THEN "lost" ELSE @]]
  <2>1. [R!NoUpload EXCEPT !.pc = "over"] = [pc |-> "over", todo |-> {}]
    BY DEF R!NoUpload
  <2> QED
    BY <2>1 DEF R!End, R!At
<1>2. RagTypeOK /\ NotYet /\ (~overlapped => RagKept)
  BY DEF RagInv
<1>3. /\ upload' \in [Uploads -> [pc : UploadStates, todo : SUBSET Uploads]]
      /\ \A u \in Uploads : IF u \in R!Running THEN upload'[u].pc = "over" ELSE upload'[u] = upload[u]
  BY <1>1, <1>2 DEF RagTypeOK, UploadStates
<1>4. /\ question' \in [Questions -> [pc : QuestionStates, file : Uploads \cup {None}, alone : BOOLEAN]]
      /\ \A q \in Questions : /\ question'[q].alone = question[q].alone /\ question'[q].pc # "picked"
                              /\ question'[q].pc = "answered" => question[q].pc = "answered"
  <2> DEFINE e(q) == [question[q] EXCEPT !.pc = IF @ = "picked" THEN "lost" ELSE @]
  <2>1. question' = [q \in Questions |-> e(q)]
    BY <1>1
  <2>2. ASSUME NEW q \in Questions
        PROVE  /\ e(q) \in [pc : QuestionStates, file : Uploads \cup {None}, alone : BOOLEAN]
               /\ e(q).alone = question[q].alone /\ e(q).pc # "picked"
               /\ e(q).pc = "answered" => question[q].pc = "answered"
    <3>1. question[q] \in [pc : QuestionStates, file : Uploads \cup {None}, alone : BOOLEAN]
      BY <1>2 DEF RagTypeOK
    <3> QED
      BY <3>1 DEF QuestionStates
  <2> HIDE DEF e
  <2> QED
    BY <2>1, <2>2
<1>5. RagTypeOK' /\ NotYet'
  BY <1>1, <1>2, <1>3, <1>4 DEF RagTypeOK, NotYet
<1>6. R!Running' = {}
  BY <1>3 DEF R!Running
<1> SUFFICES ASSUME ~overlapped' PROVE RagKept'
  BY <1>5 DEF RagInv
<1>7. RagKept
  BY <1>1, <1>2
<1>8. \A f \in Uploads : index[f] # "none" => f \in disk \cup left'
  <2> SUFFICES ASSUME NEW f \in Uploads, index[f] # "none", f \in R!Running PROVE f \in disk \cup left'
    BY <1>1, <1>7 DEF RagKept
  <2>1. upload[f].pc \in {"store", "undo"}
    BY <1>2 DEF NotYet, R!Running, RagTypeOK, UploadStates
  <2>2. upload[f].pc = "store" => f \in disk
    BY <1>7 DEF RagKept, Alone
  <2> QED
    BY <2>1, <2>2, <1>1
<1> QED
  BY <1>1, <1>4, <1>6, <1>7, <1>8 DEF RagKept

\* A question picks the file and retrieves from its index (rag.go:164-235).
LEMMA AskKeeps ==
  ASSUME RagInv, NEW q \in Questions, R!Pick(q) \/ R!Retrieve(q)
  PROVE  RagInv'
<1>1. UNCHANGED <<disk, index, upload, overlapped, left, latest>>
  BY DEF R!Pick, R!Retrieve
<1>2. RagTypeOK /\ NotYet /\ (~overlapped => RagKept)
  BY DEF RagInv
<1>3. R!Running' = R!Running /\ \A u \in Uploads : Alone(u)' <=> Alone(u)
  BY <1>1 DEF R!Running, Alone, Gone
<1>4. NotYet'
  BY <1>1, <1>2 DEF NotYet
<1>5. question[q] \in [pc : QuestionStates, file : Uploads \cup {None}, alone : BOOLEAN]
  BY <1>2 DEF RagTypeOK
<1>6. ASSUME UNCHANGED used, NEW e \in [pc : QuestionStates, file : Uploads \cup {None}, alone : BOOLEAN],
             question' = [question EXCEPT ![q] = e],
             \/ e.pc = "plain"
             \/ e.pc = "picked" /\ e.file \in disk /\ e.alone = (R!Running = {})
      PROVE  RagInv'
  <2>1. /\ question' \in [Questions -> [pc : QuestionStates, file : Uploads \cup {None}, alone : BOOLEAN]]
        /\ question'[q] = e /\ \A p \in Questions : p # q => question'[p] = question[p]
    BY <1>2, <1>6 DEF RagTypeOK
  <2>2. RagTypeOK'
    BY <1>1, <1>2, <1>6, <2>1 DEF RagTypeOK
  <2> SUFFICES ASSUME ~overlapped' PROVE RagKept'
    BY <1>4, <2>2 DEF RagInv
  <2>3. RagKept
    BY <1>1, <1>2
  <2>4. R!Running # {} => \A p \in Questions : question'[p].pc \in {"picked", "answered"} => ~question'[p].alone
    BY <2>1, <2>3, <1>6 DEF RagKept
  <2>5. \A p \in Questions : (question'[p].alone /\ latest # None) =>
          /\ question'[p].pc = "picked" => question'[p].file = latest
          /\ question'[p].pc = "answered" => used[p] = latest
    BY <2>1, <2>3, <1>6 DEF RagKept
  <2> QED
    BY <1>1, <1>3, <1>6, <2>3, <2>4, <2>5 DEF RagKept, R!Running
<1>7. CASE R!Pick(q)
  <2>1. ASSUME NEW f \in disk,
               question' = [question EXCEPT ![q] = [pc |-> "picked", file |-> f, alone |-> R!Running = {}]]
        PROVE  RagInv'
    <3> DEFINE e == [pc |-> "picked", file |-> f, alone |-> R!Running = {}]
    <3>1. e \in [pc : QuestionStates, file : Uploads \cup {None}, alone : BOOLEAN]
          /\ e.pc = "picked" /\ e.file \in disk /\ e.alone = (R!Running = {})
      BY <1>2 DEF QuestionStates, RagTypeOK
    <3>2. UNCHANGED used
      BY <1>7 DEF R!Pick
    <3>3. question' = [question EXCEPT ![q] = e]
      BY <2>1
    <3> HIDE DEF e
    <3> QED
      BY <3>1, <3>2, <3>3, <1>6
  <2>2. ASSUME question' = [question EXCEPT ![q].pc = "plain"]
        PROVE  RagInv'
    <3> DEFINE e == [question[q] EXCEPT !.pc = "plain"]
    <3>1. e \in [pc : QuestionStates, file : Uploads \cup {None}, alone : BOOLEAN] /\ e.pc = "plain"
      BY <1>5 DEF QuestionStates
    <3>2. UNCHANGED used
      BY <1>7 DEF R!Pick
    <3>3. question' = [question EXCEPT ![q] = e]
      BY <2>2
    <3> HIDE DEF e
    <3> QED
      BY <3>1, <3>2, <3>3, <1>6
  <2> QED
    BY <1>7, <2>1, <2>2 DEF R!Pick
<1>8. CASE R!Retrieve(q)
  <2>1. question[q].pc = "picked" /\ (R!WithDocuments(q) \/ R!WithoutDocuments(q))
    BY <1>8 DEF R!Retrieve
  <2>2. CASE R!WithoutDocuments(q)
    <3> DEFINE e == [question[q] EXCEPT !.pc = "plain"]
    <3>1. e \in [pc : QuestionStates, file : Uploads \cup {None}, alone : BOOLEAN] /\ e.pc = "plain"
      BY <1>5 DEF QuestionStates
    <3>2. question' = [question EXCEPT ![q] = e] /\ UNCHANGED used
      BY <2>2 DEF R!WithoutDocuments
    <3> HIDE DEF e
    <3> QED
      BY <3>1, <3>2, <1>6
  <2>3. CASE R!WithDocuments(q)
    <3> DEFINE e == [question[q] EXCEPT !.pc = "answered"]  f == question[q].file
    <3>1. /\ e \in [pc : QuestionStates, file : Uploads \cup {None}, alone : BOOLEAN]
          /\ e.pc = "answered" /\ e.alone = question[q].alone /\ f \in Uploads \cup {None}
      BY <1>5 DEF QuestionStates
    <3>2. /\ question' = [question EXCEPT ![q] = e]
          /\ used' = [used EXCEPT ![q] = IF index[f] = "full" THEN f ELSE None]
      BY <2>3 DEF R!WithDocuments, R!BuildRAGPrompt
    <3> HIDE DEF e, f
    <3>3. /\ question' \in [Questions -> [pc : QuestionStates, file : Uploads \cup {None}, alone : BOOLEAN]]
          /\ question'[q] = e /\ \A p \in Questions : p # q => question'[p] = question[p]
      BY <1>2, <3>1, <3>2 DEF RagTypeOK
    <3>4. /\ used' \in [Questions -> Uploads \cup {None}] /\ used'[q] = IF index[f] = "full" THEN f ELSE None
          /\ \A p \in Questions : p # q => used'[p] = used[p]
      BY <1>2, <3>1, <3>2 DEF RagTypeOK
    <3>5. RagTypeOK'
      BY <1>1, <1>2, <3>3, <3>4 DEF RagTypeOK
    <3> SUFFICES ASSUME ~overlapped' PROVE RagKept'
      BY <1>4, <3>5 DEF RagInv
    <3>6. RagKept
      BY <1>1, <1>2
    <3>7. (question[q].alone /\ latest # None) => f = latest /\ index[f] = "full"
      BY <2>1, <3>6 DEF RagKept, f
    <3>8. R!Running # {} => ~question[q].alone
      BY <2>1, <3>6 DEF RagKept
    <3>9. R!Running # {} => \A p \in Questions : question'[p].pc \in {"picked", "answered"} => ~question'[p].alone
      BY <3>1, <3>3, <3>6, <3>8 DEF RagKept
    <3>10. \A p \in Questions : (question'[p].alone /\ latest # None) =>
             /\ question'[p].pc = "picked" => question'[p].file = latest
             /\ question'[p].pc = "answered" => used'[p] = latest
      BY <3>1, <3>3, <3>4, <3>6, <3>7 DEF RagKept
    <3> QED
      BY <1>1, <1>3, <3>6, <3>9, <3>10 DEF RagKept, R!Running
  <2> QED
    BY <2>1, <2>2, <2>3
<1> QED
  BY <1>7, <1>8

\* Uploads, questions and the end of the process, in any order.
THEOREM RagInvAlways == R!Spec => []RagInv
<1>1. RagInv /\ [R!Next]_R!vars => RagInv'
  <2> SUFFICES ASSUME RagInv, [R!Next]_R!vars PROVE RagInv'
    OBVIOUS
  <2>1. ASSUME NEW u \in Uploads, R!UploadRagFile(u) PROVE RagInv'
    BY <2>1, StartKeeps, DropKeeps, RemoveKeeps, CreateKeeps, InitIndexKeeps, IndexKeeps DEF R!UploadRagFile
  <2>2. ASSUME NEW q \in Questions, R!Pick(q) \/ R!Retrieve(q) PROVE RagInv'
    BY <2>2, AskKeeps
  <2>3. CASE R!End
    BY <2>3, EndKeeps
  <2>4. CASE UNCHANGED R!vars
    BY <2>4 DEF R!vars, RagInv, RagTypeOK, NotYet, RagKept, Alone, Gone, R!Running
  <2> QED
    BY <2>1, <2>2, <2>3, <2>4 DEF R!Next
<1> QED
  BY <1>1, RagInit, PTL DEF R!Spec

\* No index outlives its file unless nobody dropped it, when uploads come one after
\* the other (file.go:31-49, 82-97).
THEOREM NoOrphanIndexAlways == R!Spec => []NoOrphanIndex
<1>1. RagInv => NoOrphanIndex
  BY DEF RagInv, RagKept, NoOrphanIndex, R!NoOrphanIndex
<1> QED
  BY <1>1, RagInvAlways, PTL

\* The directory holds one file at most, and a question asked after an upload that
\* succeeded, and not disturbed by another, is answered from its document, when
\* uploads come one after the other (rag.go:164-235).
THEOREM AnsweredFromLatestAlways == R!Spec => []AnsweredFromLatest
<1>1. RagInv => AnsweredFromLatest
  <2> SUFFICES ASSUME RagInv, ~overlapped
               PROVE  /\ R!Cardinality(disk) <= 1
                      /\ \A q \in Questions :
                           (question[q].pc = "answered" /\ question[q].alone /\ R!Running = {} /\ latest # None)
                             => used[q] = latest
    BY DEF AnsweredFromLatest, R!AnsweredFromLatest
  <2>1. RagKept
    BY DEF RagInv
  <2>2. R!Cardinality(disk) = Cardinality(disk)
    BY DEF R!Cardinality, Cardinality
  <2>3. Cardinality(disk) <= 1
    <3>1. CASE disk = {}
      BY <3>1, FS_EmptySet
    <3>2. CASE disk # {}
      <4>1. PICK f : disk = {f}
        BY <3>2, <2>1 DEF RagKept
      <4> QED
        BY <4>1, FS_Singleton
    <3> QED
      BY <3>1, <3>2
  <2> QED
    BY <2>1, <2>2, <2>3 DEF RagKept
<1> QED
  BY <1>1, RagInvAlways, PTL

-----------------------------------------------------------------------------
\* The backend behind the page (ChatBackend, ChatPage).

QueueInv ==
  /\ setup \in Setups /\ topic \in [Messages -> Nat] /\ published \in [Messages -> Nat]
  /\ reading \in Messages \cup {None} /\ db \in Seq(Messages)
  /\ NoMoreThanPublished

HandlerStates == [pc : Active \cup {"idle", "over"}, session : Named,
                  stream : BOOLEAN, new : BOOLEAN, seen : Seq(Messages)]

Agents == [Named -> Seq(Messages) \cup {None}]

Works(r) == handler[r].pc \in Active

\* Request r is between the two steps of AddMessage.
Puts(r) == handler[r].pc \in {"putQ", "putA"}

\* A request names a session of the database or none; the agent is there from its
\* second stage on.
Placed(r) ==
  /\ handler[r] \in HandlerStates
  /\ handler[r].session \in rows \cup {None}
  /\ (Works(r) /\ handler[r].pc # "agent") => memory[handler[r].session] # None

\* Between the two steps nobody else adds to the session and nobody has written the
\* slice, unless the message is one of those that race.
AddsAlone(r) ==
  /\ handler[r].seen = memory[handler[r].session]
  /\ \A q \in Requests : (Puts(q) /\ handler[q].session = handler[r].session) => q = r
UnracedAlone == \A r \in Requests : (Puts(r) /\ Pending(r) \notin raced) => AddsAlone(r)

\* A message is safe at its place when every slice that may be written holds it there.
Held(m, i) ==
  /\ memory[m.session] # None
  /\ i \in DOMAIN memory[m.session] /\ memory[m.session][i] = m
  /\ \A q \in Requests : (Puts(q) /\ handler[q].session = m.session)
                           => i \in DOMAIN handler[q].seen /\ handler[q].seen[i] = m
Kept == \A m \in since : m \in raced \/ \E i : Held(m, i)

AgentInv ==
  /\ rows \subseteq Sessions /\ since \subseteq Messages /\ raced \subseteq Messages
  /\ memory \in Agents /\ db \in Seq(Messages)
  /\ handler \in [Requests -> HandlerStates] /\ \A r \in Requests : Placed(r)
  /\ UnracedAlone /\ Kept
  /\ ~up => since = {} /\ \A r \in Requests : ~Works(r)

Loads == [session : Sessions, reply : Replies \cup {None}]

\* The page only knows sessions that are in the database.
PageInv ==
  /\ shown \in Seq(ShownMsgs)
  /\ current \in rows \cup {None}
  /\ cached \in [Sessions -> Seq(ShownMsgs) \cup {None}]
  /\ \A s \in Sessions : cached[s] # None => s \in rows
  /\ loads \in Seq(Loads)

ChatInv == QueueInv /\ AgentInv /\ PageInv

\* Storing one more message makes one more copy of it.
LEMMA CopiesAppend ==
  ASSUME NEW list \in Seq(Messages), NEW x \in Messages, NEW m \in Messages
  PROVE  /\ Copies(list, m) \in Nat
         /\ Copies(Append(list, x), m) = Copies(list, m) + (IF x = m THEN 1 ELSE 0)
<1> DEFINE n == Len(list)
           A == {i \in DOMAIN list : list[i] = m}
           B == {i \in DOMAIN Append(list, x) : Append(list, x)[i] = m}
<1>1. n \in Nat /\ DOMAIN list = 1 .. n
  OBVIOUS
<1>2. DOMAIN Append(list, x) = 1 .. n + 1 /\ Append(list, x)[n + 1] = x
  OBVIOUS
<1>3. \A i \in 1 .. n : Append(list, x)[i] = list[i]
  OBVIOUS
<1>4. IsFiniteSet(A)
  <2>1. IsFiniteSet(1 .. n)
    BY <1>1, FS_Interval
  <2>2. A \subseteq 1 .. n
    BY <1>1
  <2> HIDE DEF A
  <2> QED
    BY <2>1, <2>2, FS_Subset
<1>5. Cardinality(A) \in Nat
  BY <1>4, FS_CardinalityType
<1>6. n + 1 \notin A
  BY <1>1
<1>7. B = IF x = m THEN A \cup {n + 1} ELSE A
  <2>1. \A i : i \in 1 .. n + 1 <=> i \in 1 .. n \/ i = n + 1
    BY <1>1
  <2> HIDE DEF n
  <2> QED
    BY <1>1, <1>2, <1>3, <2>1
<1> HIDE DEF A, n
<1>8. Cardinality(A \cup {n + 1}) = Cardinality(A) + 1
  BY <1>4, <1>6, FS_AddElement
<1>9. Copies(list, m) = Cardinality(A) /\ Copies(Append(list, x), m) = Cardinality(B)
  BY DEF Copies, A
<1> HIDE DEF B
<1> QED
  BY <1>5, <1>7, <1>8, <1>9

LEMMA PublishQueue ==
  ASSUME QueueInv, NEW m \in Messages, Publish(m), UNCHANGED <<setup, reading, db>>
  PROVE  QueueInv'
<1>1. setup.copies \in Nat
  BY ChatAssumption DEF QueueInv
<1>2. PICK n \in 0 .. setup.copies : /\ topic' = [topic EXCEPT ![m] = @ + n]
                                     /\ published' = [published EXCEPT ![m] = @ + n]
  BY DEF Publish
<1>3. n \in Nat
  BY <1>1, <1>2
<1>4. topic' \in [Messages -> Nat] /\ published' \in [Messages -> Nat]
  BY <1>2, <1>3 DEF QueueInv
<1>5. ASSUME NEW x \in Messages
      PROVE  Copies(db, x) + topic'[x] + (IF reading = x THEN 1 ELSE 0) <= published'[x]
  <2>1. Copies(db, x) + topic[x] + (IF reading = x THEN 1 ELSE 0) <= published[x]
    BY DEF QueueInv, NoMoreThanPublished
  <2>2. Copies(db, x) \in Nat
    BY CopiesAppend DEF QueueInv
  <2>3. topic[x] \in Nat /\ published[x] \in Nat
    BY DEF QueueInv
  <2>4. \/ topic'[x] = topic[x] /\ published'[x] = published[x]
        \/ topic'[x] = topic[x] + n /\ published'[x] = published[x] + n
    BY <1>2 DEF QueueInv
  <2> QED
    BY <2>1, <2>2, <2>3, <2>4, <1>3
<1> QED
  BY <1>4, <1>5 DEF QueueInv, NoMoreThanPublished

LEMMA ReadQueue == ASSUME QueueInv, ReadMessage PROVE QueueInv'
<1>1. PICK m \in Messages : topic[m] > 0 /\ topic' = [topic EXCEPT ![m] = @ - 1] /\ reading' = m
  BY DEF ReadMessage
<1>2. reading = None /\ UNCHANGED <<setup, db, published>>
  BY DEF ReadMessage, lifeVars
<1>3. topic' \in [Messages -> Nat] /\ reading' \in Messages
  BY <1>1 DEF QueueInv
<1>4. ASSUME NEW x \in Messages
      PROVE  Copies(db, x) + topic'[x] + (IF reading' = x THEN 1 ELSE 0) <= published[x]
  <2>1. Copies(db, x) + topic[x] + (IF reading = x THEN 1 ELSE 0) <= published[x]
    BY DEF QueueInv, NoMoreThanPublished
  <2>2. Copies(db, x) \in Nat
    BY CopiesAppend DEF QueueInv
  <2>3. topic[x] \in Nat /\ published[x] \in Nat
    BY DEF QueueInv
  <2>4. reading # x
    BY <1>2, ChatAssumption
  <2>5. IF x = m THEN topic'[x] = topic[x] - 1 ELSE topic'[x] = topic[x]
    BY <1>1 DEF QueueInv
  <2> QED
    BY <2>1, <2>2, <2>3, <2>4, <2>5, <1>1
<1> QED
  BY <1>2, <1>3, <1>4 DEF QueueInv, NoMoreThanPublished

LEMMA StoreQueue == ASSUME QueueInv, MQMessage PROVE QueueInv'
<1>1. reading \in Messages /\ reading' = None /\ UNCHANGED <<setup, topic, published>>
  BY DEF MQMessage, QueueInv, lifeVars
<1>2. db' = Append(db, reading) \/ db' = db
  BY DEF MQMessage
<1>3. db' \in Seq(Messages)
  <2>1. db \in Seq(Messages)
    BY DEF QueueInv
  <2>2. Append(db, reading) \in Seq(Messages)
    BY <1>1, <2>1, AppendProperties
  <2> QED
    BY <1>2, <2>1, <2>2
<1>4. ASSUME NEW x \in Messages
      PROVE  Copies(db', x) + topic[x] + (IF reading' = x THEN 1 ELSE 0) <= published[x]
  <2>1. Copies(db, x) + topic[x] + (IF reading = x THEN 1 ELSE 0) <= published[x]
    BY DEF QueueInv, NoMoreThanPublished
  <2>2. Copies(db, x) \in Nat /\ Copies(Append(db, reading), x) = Copies(db, x) + (IF reading = x THEN 1 ELSE 0)
    BY <1>1, CopiesAppend DEF QueueInv
  <2>3. topic[x] \in Nat /\ published[x] \in Nat
    BY DEF QueueInv
  <2>4. reading' # x
    BY <1>1, ChatAssumption
  <2>5. CASE db' = Append(db, reading)
    BY <2>1, <2>2, <2>3, <2>4, <2>5
  <2>6. CASE db' = db
    BY <2>1, <2>2, <2>3, <2>4, <2>6
  <2> QED
    BY <1>2, <2>5, <2>6
<1> QED
  BY <1>1, <1>3, <1>4 DEF QueueInv, NoMoreThanPublished

LEMMA CrashQueue == ASSUME QueueInv, Crash PROVE QueueInv'
<1>1. reading' = None /\ UNCHANGED <<setup, topic, published, db>>
  BY DEF Crash
<1>2. ASSUME NEW x \in Messages
      PROVE  Copies(db, x) + topic[x] + (IF reading' = x THEN 1 ELSE 0) <= published[x]
  <2>1. Copies(db, x) + topic[x] + (IF reading = x THEN 1 ELSE 0) <= published[x]
    BY DEF QueueInv, NoMoreThanPublished
  <2>2. Copies(db, x) \in Nat /\ topic[x] \in Nat /\ published[x] \in Nat
    BY CopiesAppend DEF QueueInv
  <2>3. reading' # x
    BY <1>1, ChatAssumption
  <2> QED
    BY <2>1, <2>2, <2>3
<1> QED
  BY <1>1, <1>2 DEF QueueInv, NoMoreThanPublished

\* What is safe at its place is remembered.
LEMMA KeptRemembers == ASSUME Kept PROVE SavedIsRemembered
BY DEF Kept, Held, SavedIsRemembered, Elements

\* No agent disappears in the step.
Spares == memory' \in Agents /\ \A s \in Named : memory[s] # None => memory'[s] # None

\* What such a step of request r means for the other requests.
LEMMA OthersPlaced ==
  ASSUME AgentInv, NEW r \in Requests, NEW h \in HandlerStates,
         handler' = [handler EXCEPT ![r] = h],
         rows \subseteq rows', Spares
  PROVE  /\ handler' \in [Requests -> HandlerStates] /\ handler'[r] = h
         /\ \A q \in Requests : q # r => handler'[q] = handler[q] /\ Placed(q)'
<1>0. handler \in [Requests -> HandlerStates] /\ \A q \in Requests : Placed(q)
  BY DEF AgentInv
<1>1. handler' \in [Requests -> HandlerStates] /\ handler'[r] = h
  BY <1>0
<1>2. \A q \in Requests : q # r => handler'[q] = handler[q]
  BY <1>0
<1>3. ASSUME NEW q \in Requests, q # r PROVE Placed(q)'
  <2>1. Placed(q) /\ handler'[q] = handler[q]
    BY <1>0, <1>2, <1>3
  <2>2. handler[q].session \in Named
    BY <1>0 DEF HandlerStates
  <2>3. memory[handler[q].session] # None => memory'[handler[q].session] # None
    BY <2>2 DEF Spares
  <2> QED
    BY <2>1, <2>3 DEF Placed, Works
<1> QED
  BY <1>1, <1>2, <1>3

\* Nothing changes between the steps of AddMessage while no request takes a slice
\* or writes one.
LEMMA StillKept ==
  ASSUME AgentInv, since' = since, raced \subseteq raced',
         \A s \in Named : memory[s] # None => memory'[s] = memory[s],
         \A q \in Requests : Puts(q)' => handler'[q] = handler[q]
  PROVE  UnracedAlone' /\ Kept'
<1>0. /\ \A q \in Requests : Placed(q) /\ handler[q].session \in Named
      /\ UnracedAlone /\ Kept /\ since \subseteq Messages
  BY DEF AgentInv, Placed, HandlerStates
<1>1. \A q \in Requests : Puts(q)' => /\ Puts(q) /\ handler'[q] = handler[q]
                                      /\ Pending(q)' = Pending(q)
  BY DEF Puts, Pending
<1>2. \A q \in Requests : Puts(q) => memory[handler[q].session] # None
  BY <1>0 DEF Placed, Puts, Works, Active
<1>3. UnracedAlone'
  <2> SUFFICES ASSUME NEW r \in Requests, Puts(r)', Pending(r)' \notin raced'
               PROVE  AddsAlone(r)'
    BY DEF UnracedAlone
  <2>1. Puts(r) /\ handler'[r] = handler[r] /\ Pending(r) \notin raced
    BY <1>1
  <2>2. AddsAlone(r)
    BY <2>1, <1>0 DEF UnracedAlone
  <2>3. memory'[handler[r].session] = memory[handler[r].session]
    BY <2>1, <1>0, <1>2
  <2> QED
    BY <2>1, <2>2, <2>3, <1>1 DEF AddsAlone
<1>4. Kept'
  <2> SUFFICES ASSUME NEW m \in since, m \notin raced' PROVE \E i : Held(m, i)'
    BY DEF Kept
  <2>1. PICK i : Held(m, i)
    BY <1>0 DEF Kept
  <2>2. m.session \in Named
    BY <1>0 DEF Messages
  <2>3. memory'[m.session] = memory[m.session]
    BY <2>1, <2>2 DEF Held
  <2>4. Held(m, i)'
    BY <2>1, <2>3, <1>1 DEF Held
  <2> QED
    BY <2>4
<1> QED
  BY <1>3, <1>4

\* A handler that goes on to a stage that needs no slice, or ends.
LEMMA GotoAgent ==
  ASSUME AgentInv, NEW r \in Requests, NEW pc \in Active \cup {"over"}, Goto(r, pc),
         UNCHANGED <<up, rows, memory, db, since, raced>>,
         pc = "over" \/ (Works(r) /\ handler[r].pc # "agent" /\ pc \notin {"putQ", "putA"})
  PROVE  AgentInv'
<1> DEFINE h == [handler[r] EXCEPT !.pc = pc]
<1>0. handler \in [Requests -> HandlerStates] /\ Placed(r)
  BY DEF AgentInv
<1>1. /\ h \in HandlerStates
      /\ h.pc = pc /\ h.session = handler[r].session /\ h.seen = handler[r].seen
  BY <1>0 DEF HandlerStates
<1>2. handler' = [handler EXCEPT ![r] = h]
  BY <1>0 DEF Goto
<1>3. "over" \notin Active \cup {"putQ", "putA", "agent"}
  BY DEF Active
<1>4. Spares /\ rows \subseteq rows' /\ raced \subseteq raced'
  BY DEF Spares, AgentInv
<1> HIDE DEF h
<1>5. /\ handler' \in [Requests -> HandlerStates] /\ handler'[r] = h
      /\ \A q \in Requests : q # r => handler'[q] = handler[q] /\ Placed(q)'
  BY <1>1, <1>2, <1>4, OthersPlaced
<1>6. Placed(r)'
  BY <1>0, <1>1, <1>3, <1>5 DEF Placed, Works
<1>7. UnracedAlone' /\ Kept'
  <2>1. \A q \in Requests : Puts(q)' => handler'[q] = handler[q]
    BY <1>1, <1>3, <1>5 DEF Puts
  <2> QED
    BY <2>1, StillKept
<1>8. ~up' => since' = {} /\ \A q \in Requests : ~Works(q)'
  <2>1. ASSUME ~up' PROVE \A q \in Requests : ~Works(q)
    BY <2>1 DEF AgentInv
  <2> QED
    BY <1>1, <1>3, <1>5, <2>1 DEF AgentInv, Works
<1> QED
  BY <1>5, <1>6, <1>7, <1>8 DEF AgentInv

\* A request that names a session, or none: the empty identifier has an agent too.
LEMMA ReceiveAgent ==
  ASSUME AgentInv, NEW r \in Requests, NEW s \in rows \cup {None}, NEW stream \in BOOLEAN,
         Receive(r, s, stream)
  PROVE  AgentInv'
<1>0. /\ handler \in [Requests -> HandlerStates] /\ \A q \in Requests : Placed(q)
      /\ rows \subseteq Sessions /\ memory \in Agents
  BY DEF AgentInv
<1>1. up /\ handler[r].pc = "idle" /\ UNCHANGED <<up, rows, memory, db, since, raced>>
  BY DEF Receive, At, lifeVars, storeVars
<1> DEFINE h == [handler[r] EXCEPT !.pc = "agent", !.session = s, !.stream = stream]
<1>2. s \in Named /\ handler' = [handler EXCEPT ![r] = h]
  BY <1>0 DEF Receive, Named
<1>3. h \in HandlerStates /\ h.pc = "agent" /\ h.session = s
  BY <1>0, <1>2 DEF HandlerStates, Active
<1>4. Spares /\ rows \subseteq rows' /\ raced \subseteq raced'
  BY <1>0, <1>1 DEF Spares
<1> HIDE DEF h
<1>5. /\ handler' \in [Requests -> HandlerStates] /\ handler'[r] = h
      /\ \A q \in Requests : q # r => handler'[q] = handler[q] /\ Placed(q)'
  BY <1>2, <1>3, <1>4, OthersPlaced
<1>6. Placed(r)'
  BY <1>1, <1>3, <1>5 DEF Placed
<1>7. UnracedAlone' /\ Kept'
  <2>1. \A q \in Requests : Puts(q)' => handler'[q] = handler[q]
    BY <1>3, <1>5 DEF Puts
  <2> QED
    BY <2>1, <1>1, StillKept
<1> QED
  BY <1>1, <1>5, <1>6, <1>7 DEF AgentInv

\* A request that makes its session.
LEMMA ReceiveNewAgent ==
  ASSUME AgentInv, NEW r \in Requests, NEW stream \in BOOLEAN, ReceiveNew(r, stream)
  PROVE  AgentInv' /\ rows \subseteq rows' /\ rows' \subseteq Sessions
<1>0. /\ handler \in [Requests -> HandlerStates] /\ \A q \in Requests : Placed(q)
      /\ rows \subseteq Sessions /\ memory \in Agents
  BY DEF AgentInv
<1>1. up /\ handler[r].pc = "idle" /\ UNCHANGED <<up, memory, db, since, raced>>
  BY DEF ReceiveNew, At, lifeVars, storeVars
<1>2. CASE Goto(r, "over") /\ UNCHANGED rows
  <2>1. AgentInv'
    BY <1>2, <1>1, GotoAgent
  <2> QED
    BY <1>0, <1>2, <2>1
<1> DEFINE s == NewSession
           h == [handler[r] EXCEPT !.pc = "agent", !.session = s, !.stream = stream, !.new = TRUE]
<1>3. CASE rows # Sessions /\ rows' = rows \cup {s} /\ handler' = [handler EXCEPT ![r] = h]
  <2>1. s \in Sessions /\ s \notin rows
    BY <1>0, <1>3 DEF NewSession
  <2> HIDE DEF s
  <2>2. h \in HandlerStates /\ h.pc = "agent" /\ h.session = s
    BY <1>0, <2>1 DEF HandlerStates, Active, Named
  <2>3. Spares /\ rows \subseteq rows' /\ raced \subseteq raced' /\ rows' \subseteq Sessions
    BY <1>0, <1>1, <1>3, <2>1 DEF Spares
  <2> HIDE DEF h
  <2>4. /\ handler' \in [Requests -> HandlerStates] /\ handler'[r] = h
        /\ \A q \in Requests : q # r => handler'[q] = handler[q] /\ Placed(q)'
    BY <1>3, <2>2, <2>3, OthersPlaced
  <2>5. Placed(r)'
    BY <1>1, <1>3, <2>2, <2>4 DEF Placed
  <2>6. UnracedAlone' /\ Kept'
    <3>1. \A q \in Requests : Puts(q)' => handler'[q] = handler[q]
      BY <2>2, <2>4 DEF Puts
    <3> QED
      BY <3>1, <1>1, StillKept
  <2>7. AgentInv'
    BY <1>0, <1>1, <2>3, <2>4, <2>5, <2>6 DEF AgentInv
  <2> QED
    BY <2>3, <2>7
<1> QED
  BY <1>2, <1>3 DEF ReceiveNew

\* The agent of the session is there from here on.
LEMMA GetAgent ==
  ASSUME AgentInv, NEW r \in Requests, GetOrCreateAIAgent(r)
  PROVE  AgentInv'
<1>0. /\ handler \in [Requests -> HandlerStates] /\ Placed(r)
      /\ rows \subseteq Sessions /\ memory \in Agents
  BY DEF AgentInv
<1>1. handler[r].pc = "agent" /\ UNCHANGED <<up, rows, db, since, raced>>
  BY DEF GetOrCreateAIAgent, At, lifeVars, storeVars
<1>2. Works(r)
  BY <1>1 DEF Works, Active
<1>3. CASE Goto(r, "over") /\ UNCHANGED memory
  BY <1>1, <1>3, GotoAgent
<1> DEFINE s == handler[r].session
           h == [handler[r] EXCEPT !.pc = "addQ"]
<1>4. CASE /\ memory' = [memory EXCEPT ![s] = IF @ = None THEN NewAIAgent ELSE @]
           /\ Goto(r, "addQ")
  <2>1. s \in Named /\ s \in rows \cup {None}
    BY <1>0 DEF Placed, HandlerStates
  <2>2. h \in HandlerStates /\ h.pc = "addQ" /\ h.session = s
    BY <1>0 DEF HandlerStates, Active
  <2>3. handler' = [handler EXCEPT ![r] = h]
    BY <1>0, <1>4 DEF Goto
  <2>13. <<>> \in Seq(Messages)
    OBVIOUS
  <2>4. <<>> \in Seq(Messages) /\ <<>> # None
    BY <2>13, ChatAssumption
  <2>5. memory' \in Agents /\ memory'[s] # None /\ \A t \in Named : t # s => memory'[t] = memory[t]
    BY <1>0, <1>4, <2>1, <2>4 DEF Agents, NewAIAgent
  <2>6. memory[s] # None => memory'[s] = memory[s]
    BY <1>0, <1>4, <2>1 DEF Agents
  <2>7. Spares /\ rows \subseteq rows' /\ raced \subseteq raced'
    BY <1>1, <2>5 DEF Spares
  <2> HIDE DEF h
  <2>8. /\ handler' \in [Requests -> HandlerStates] /\ handler'[r] = h
        /\ \A q \in Requests : q # r => handler'[q] = handler[q] /\ Placed(q)'
    BY <2>2, <2>3, <2>7, OthersPlaced
  <2>9. Placed(r)'
    BY <1>1, <2>1, <2>2, <2>5, <2>8 DEF Placed
  <2>10. UnracedAlone' /\ Kept'
    <3>1. \A q \in Requests : Puts(q)' => handler'[q] = handler[q]
      BY <2>2, <2>8 DEF Puts
    <3>2. \A t \in Named : memory[t] # None => memory'[t] = memory[t]
      BY <2>5, <2>6
    <3> QED
      BY <3>1, <3>2, <1>1, StillKept
  <2>12. up'
    BY <1>1, <1>2 DEF AgentInv
  <2> QED
    BY <1>1, <2>5, <2>8, <2>9, <2>10, <2>12 DEF AgentInv
<1> QED
  BY <1>3, <1>4 DEF GetOrCreateAIAgent

\* AddMessage takes the slice: what was safe is safe in it as well, and the ones
\* that add to the session at the same time race from now on.
LEMMA AddReadAgent ==
  ASSUME AgentInv, NEW r \in Requests, NEW pc \in {"addQ", "addA"}, NEW next \in {"putQ", "putA"},
         AddRead(r, pc, next)
  PROVE  AgentInv'
<1> DEFINE s == handler[r].session
           others == Appending(s)
           h == [handler[r] EXCEPT !.pc = next, !.seen = memory[s]]
<1>0. /\ handler \in [Requests -> HandlerStates] /\ \A q \in Requests : Placed(q)
      /\ memory \in Agents /\ raced \subseteq Messages /\ since \subseteq Messages
      /\ UnracedAlone /\ Kept
  BY DEF AgentInv
<1>1. /\ handler[r].pc = pc /\ UNCHANGED <<up, rows, memory, db, since>>
      /\ raced' = IF others = {} THEN raced
                  ELSE raced \cup {Pending(q) : q \in others} \cup {Msg(s, r, next = "putQ")}
  BY DEF AddRead, At, lifeVars, storeVars
<1>2. Works(r) /\ handler[r].pc # "agent" /\ ~Puts(r)
  BY <1>1 DEF Works, Active, Puts
<1>3. s \in Named /\ memory[s] \in Seq(Messages) /\ memory[s] # None /\ s \in rows \cup {None}
  BY <1>0, <1>2 DEF Placed, Agents, HandlerStates
<1>4. h \in HandlerStates /\ h.pc = next /\ h.session = s /\ h.seen = memory[s]
  BY <1>0, <1>3 DEF HandlerStates, Active
<1>5. handler' = [handler EXCEPT ![r] = h]
  BY <1>0 DEF AddRead
<1>6. Spares /\ rows \subseteq rows' /\ raced \subseteq raced'
  BY <1>0, <1>1 DEF Spares
<1>7. raced' \subseteq Messages
  <2>1. \A q \in Requests : Pending(q) \in Messages
    BY <1>0 DEF Pending, Msg, Messages, HandlerStates
  <2>2. Msg(s, r, next = "putQ") \in Messages
    BY <1>3 DEF Msg, Messages
  <2>3. others \subseteq Requests
    BY DEF Appending
  <2> HIDE DEF others, s
  <2>4. {Pending(q) : q \in others} \subseteq Messages
    BY <2>1, <2>3
  <2> QED
    BY <1>0, <1>1, <2>2, <2>4
<1> HIDE DEF h
<1>8. /\ handler' \in [Requests -> HandlerStates] /\ handler'[r] = h
      /\ \A q \in Requests : q # r => handler'[q] = handler[q] /\ Placed(q)'
  BY <1>4, <1>5, <1>6, OthersPlaced
<1>9. Placed(r)'
  BY <1>1, <1>3, <1>4, <1>8 DEF Placed
<1>10. UnracedAlone'
  <2> SUFFICES ASSUME NEW q \in Requests, Puts(q)', Pending(q)' \notin raced'
               PROVE  AddsAlone(q)'
    BY DEF UnracedAlone
  <2>1. \A p \in Requests : p # r => /\ Puts(p)' <=> Puts(p)
                                     /\ handler'[p] = handler[p] /\ Pending(p)' = Pending(p)
    BY <1>8 DEF Puts, Pending
  <2>2. handler'[r].session = s /\ Pending(r)' = Msg(s, r, next = "putQ")
    BY <1>4, <1>8 DEF Pending
  <2>3. \A p \in Requests : p \in others <=> (Puts(p) /\ handler[p].session = s)
    BY DEF Appending, Puts
  <2>4. CASE q = r
    <3>1. others = {}
      BY <2>2, <2>4, <1>1
    <3>2. handler'[r].seen = memory'[handler'[r].session]
      BY <1>1, <1>4, <1>8
    <3>3. \A p \in Requests : (Puts(p)' /\ handler'[p].session = s) => p = r
      BY <2>1, <2>3, <3>1
    <3> QED
      BY <2>2, <2>4, <3>2, <3>3 DEF AddsAlone
  <2>5. CASE q # r
    <3>1. Puts(q) /\ handler'[q] = handler[q] /\ Pending(q) \notin raced'
      BY <2>1, <2>5
    <3>2. q \notin others
      <4>1. ASSUME q \in others PROVE FALSE
        <5>1. others # {} /\ Pending(q) \in {Pending(p) : p \in others}
          BY <4>1
        <5> QED
          BY <5>1, <3>1, <1>1
      <4> QED
        BY <4>1
    <3>3. AddsAlone(q)
      BY <3>1, <1>0, <1>6 DEF UnracedAlone
    <3>4. handler[q].session # s
      BY <2>3, <3>1, <3>2
    <3> HIDE DEF s, others
    <3>5. \A p \in Requests : (Puts(p)' /\ handler'[p].session = handler'[q].session) => p = q
      BY <2>1, <2>2, <3>1, <3>3, <3>4 DEF AddsAlone
    <3>6. handler'[q].seen = memory'[handler'[q].session]
      BY <3>1, <3>3, <1>1 DEF AddsAlone
    <3> QED
      BY <3>5, <3>6 DEF AddsAlone
  <2> QED
    BY <2>4, <2>5
<1>11. Kept'
  <2> SUFFICES ASSUME NEW m \in since, m \notin raced' PROVE \E i : Held(m, i)'
    BY <1>1 DEF Kept
  <2>1. PICK i : Held(m, i)
    BY <1>0, <1>6 DEF Kept
  <2>2. ASSUME NEW q \in Requests, Puts(q)', handler'[q].session = m.session
        PROVE  i \in DOMAIN handler'[q].seen /\ handler'[q].seen[i] = m
    <3>1. CASE q = r
      <4>1. handler'[q].seen = memory[m.session]
        BY <2>2, <3>1, <1>4, <1>8
      <4> QED
        BY <4>1, <2>1 DEF Held
    <3>2. CASE q # r
      BY <2>1, <2>2, <3>2, <1>8 DEF Held, Puts
    <3> QED
      BY <3>1, <3>2
  <2>3. Held(m, i)'
    BY <2>1, <2>2, <1>1 DEF Held
  <2> QED
    BY <2>3
<1>12. up'
  BY <1>1, <1>2 DEF AgentInv
<1> QED
  BY <1>1, <1>7, <1>8, <1>9, <1>10, <1>11, <1>12 DEF AgentInv

\* What AddMessage writes: the slice one message longer, each place with one of its outcomes.
Written(r, m) ==
  LET s == handler[r].session  own == Append(handler[r].seen, m) IN
  /\ memory' \in Agents /\ memory'[s] \in Seq(Messages)
  /\ DOMAIN memory'[s] = DOMAIN own
  /\ \A i \in DOMAIN own : memory'[s][i] \in Outcomes(r, own, i)
  /\ \A t \in Named : t # s => memory'[t] = memory[t]

LEMMA Appended ==
  ASSUME NEW seen \in Seq(Messages), NEW m \in Messages
  PROVE  /\ Append(seen, m) \in Seq(Messages) /\ Len(seen) \in Nat
         /\ DOMAIN seen = 1 .. Len(seen) /\ DOMAIN Append(seen, m) = 1 .. Len(seen) + 1
         /\ Append(seen, m)[Len(seen) + 1] = m
         /\ \A i \in DOMAIN seen : i \in DOMAIN Append(seen, m) /\ Append(seen, m)[i] = seen[i]
         /\ Len(seen) + 1 \in DOMAIN Append(seen, m) /\ Len(seen) + 1 \notin DOMAIN seen
<1>1. Len(seen) \in Nat /\ DOMAIN seen = 1 .. Len(seen)
  OBVIOUS
<1>2. /\ Append(seen, m) \in Seq(Messages) /\ Append(seen, m)[Len(seen) + 1] = m
      /\ DOMAIN Append(seen, m) = 1 .. Len(seen) + 1
      /\ \A i \in 1 .. Len(seen) : Append(seen, m)[i] = seen[i]
  BY <1>1, AppendProperties
<1>3. /\ 1 .. Len(seen) \subseteq 1 .. Len(seen) + 1 /\ Len(seen) + 1 \in 1 .. Len(seen) + 1
      /\ Len(seen) + 1 \notin 1 .. Len(seen)
  BY <1>1
<1> QED
  BY <1>1, <1>2, <1>3

LEMMA WriteIs ==
  ASSUME AgentInv, NEW r \in Requests, NEW pc \in {"putQ", "putA"}, NEW user \in BOOLEAN,
         NEW next \in {"model", "end"}, user = (pc = "putQ"), AddWrite(r, pc, user, next)
  PROVE  LET m == Msg(handler[r].session, r, user) IN
         /\ Puts(r) /\ m \in Messages /\ m = Pending(r) /\ m.session = handler[r].session
         /\ handler[r].session \in Named /\ handler[r].seen \in Seq(Messages)
         /\ Written(r, m)
<1> DEFINE s == handler[r].session
           m == Msg(s, r, user)
           own == Append(handler[r].seen, m)
           contested == {i \in DOMAIN own : Outcomes(r, own, i) # {own[i]}}
<1>0. handler \in [Requests -> HandlerStates] /\ memory \in Agents /\ Placed(r)
  BY DEF AgentInv
<1>1. handler[r].pc = pc /\ Puts(r)
  BY DEF AddWrite, At, Puts
<1>2. s \in Named /\ handler[r].seen \in Seq(Messages)
  BY <1>0 DEF HandlerStates
<1>3. m \in Messages /\ m.session = s /\ m = Pending(r)
  BY <1>1, <1>2 DEF Msg, Messages, Pending
<1>4. PICK c \in [contested -> UNION {Outcomes(r, own, i) : i \in contested}] :
        /\ \A i \in contested : c[i] \in Outcomes(r, own, i)
        /\ memory' = [memory EXCEPT ![s] = [i \in DOMAIN own |-> IF i \in contested THEN c[i] ELSE own[i]]]
  BY DEF AddWrite
<1> HIDE DEF m
<1>5. own \in Seq(Messages) /\ Len(handler[r].seen) \in Nat /\ DOMAIN own = 1 .. Len(handler[r].seen) + 1
  BY <1>2, <1>3, Appended
<1>6. \A q \in Requests : Pending(q) \in Messages
  BY <1>0 DEF Pending, Msg, Messages, HandlerStates
<1>7. \A i \in DOMAIN own : Outcomes(r, own, i) \subseteq Messages
  <2> SUFFICES ASSUME NEW i \in DOMAIN own, NEW x \in Outcomes(r, own, i) PROVE x \in Messages
    OBVIOUS
  <2>1. own[i] \in Messages
    BY <1>5
  <2>2. memory[s] \in Seq(Messages)
    BY <1>0, <1>1, <1>2 DEF Agents, Placed, Works, Active
  <2> HIDE DEF own
  <2>3. \/ x = own[i]
        \/ \E j \in DOMAIN memory[s] \cap {i} : x = memory[s][j]
        \/ \E q \in Requests : x = Pending(q)
    BY DEF Outcomes, Appending
  <2>5. CASE \E j \in DOMAIN memory[s] \cap {i} : x = memory[s][j]
    BY <2>2, <2>5
  <2> QED
    BY <2>1, <2>3, <2>5, <1>6
<1> DEFINE list == [i \in DOMAIN own |-> IF i \in contested THEN c[i] ELSE own[i]]
<1>8. \A i \in DOMAIN own : list[i] \in Outcomes(r, own, i)
  BY <1>4
<1> HIDE DEF contested
<1>9. DOMAIN list = DOMAIN own /\ \A i \in DOMAIN own : list[i] \in Messages
  BY <1>7, <1>8
<1>10. list \in Seq(Messages)
  <2>1. list \in [1 .. Len(handler[r].seen) + 1 -> Messages]
    BY <1>5, <1>9
  <2>2. Len(handler[r].seen) + 1 \in Nat
    BY <1>5
  <2> HIDE DEF list
  <2> QED
    BY <2>1, <2>2
<1>11. memory' = [memory EXCEPT ![s] = list]
  BY <1>4
<1> HIDE DEF list, own
<1>12. memory' \in Agents /\ memory'[s] = list /\ \A t \in Named : t # s => memory'[t] = memory[t]
  BY <1>0, <1>2, <1>10, <1>11 DEF Agents
<1>13. Written(r, m)
  BY <1>8, <1>9, <1>10, <1>12 DEF Written, own
<1> QED
  BY <1>1, <1>2, <1>3, <1>13 DEF m

\* The only one who adds to the session writes what it took and its message.
LEMMA AloneWrites ==
  ASSUME AgentInv, NEW r \in Requests, NEW m \in Messages, handler[r].seen \in Seq(Messages),
         AddsAlone(r), Puts(r), Written(r, m)
  PROVE  memory'[handler[r].session] = Append(handler[r].seen, m)
<1> DEFINE s == handler[r].session
           own == Append(handler[r].seen, m)
<1>1. memory[s] = handler[r].seen
  BY DEF AddsAlone
<1>2. Appending(s) \ {r} = {}
  BY DEF AddsAlone, Appending, Puts
<1>3. ASSUME NEW i \in DOMAIN own, NEW x \in Outcomes(r, own, i) PROVE x = own[i]
  <2>1. \A j \in DOMAIN memory[s] : memory[s][j] = own[j]
    BY <1>1, Appended
  <2> HIDE DEF own
  <2> QED
    BY <2>1, <1>2 DEF Outcomes
<1>4. own \in Seq(Messages)
  BY Appended
<1> HIDE DEF own
<1>5. memory'[s] \in Seq(Messages) /\ DOMAIN memory'[s] = DOMAIN own
      /\ \A i \in DOMAIN own : memory'[s][i] = own[i]
  BY <1>3 DEF Written, own
<1>6. memory'[s] = own
  <2> DEFINE list == memory'[s]
  <2>1. list \in Seq(Messages) /\ DOMAIN list = DOMAIN own /\ \A i \in DOMAIN own : list[i] = own[i]
    BY <1>5
  <2> HIDE DEF list
  <2>2. list = [i \in DOMAIN list |-> list[i]] /\ own = [i \in DOMAIN own |-> own[i]]
    BY <2>1, <1>4
  <2> QED
    BY <2>1, <2>2 DEF list
<1> QED
  BY <1>6 DEF own

\* ...and writes it back one message longer: what was safe stays in its place, and the
\* message is safe unless it races.
LEMMA AddWriteAgent ==
  ASSUME AgentInv, NEW r \in Requests, NEW pc \in {"putQ", "putA"}, NEW user \in BOOLEAN,
         NEW next \in {"model", "end"}, user = (pc = "putQ"), AddWrite(r, pc, user, next)
  PROVE  AgentInv' /\ Msg(handler[r].session, r, user) \in Messages
<1> DEFINE s == handler[r].session
           m == Msg(s, r, user)
           own == Append(handler[r].seen, m)
           h == [handler[r] EXCEPT !.pc = next, !.seen = <<>>]
<1>0. /\ handler \in [Requests -> HandlerStates] /\ Placed(r)
      /\ memory \in Agents /\ since \subseteq Messages /\ UnracedAlone /\ Kept
  BY DEF AgentInv
<1>1. /\ handler[r].pc = pc /\ UNCHANGED <<up, rows, db, raced>>
      /\ handler' = [handler EXCEPT ![r] = [@ EXCEPT !.pc = next, !.seen = <<>>]]
      /\ Publish(m)
  BY DEF AddWrite, At, lifeVars
<1>2. /\ Puts(r) /\ m \in Messages /\ m = Pending(r) /\ m.session = s
      /\ s \in Named /\ handler[r].seen \in Seq(Messages) /\ Written(r, m)
  BY WriteIs
<1>3. Works(r)
  BY <1>1 DEF Works, Active
<1>4. /\ own \in Seq(Messages) /\ Len(own) \in Nat
      /\ \A i \in DOMAIN handler[r].seen : i \in DOMAIN own /\ own[i] = handler[r].seen[i]
      /\ Len(handler[r].seen) + 1 \in DOMAIN own /\ own[Len(handler[r].seen) + 1] = m
      /\ Len(handler[r].seen) \in Nat /\ DOMAIN handler[r].seen = 1 .. Len(handler[r].seen)
  BY <1>2, Appended
<1> HIDE DEF m
<1>5. /\ memory' \in Agents /\ memory'[s] \in Seq(Messages) /\ DOMAIN memory'[s] = DOMAIN own
      /\ \A i \in DOMAIN own : memory'[s][i] \in Outcomes(r, own, i)
      /\ \A t \in Named : t # s => memory'[t] = memory[t]
  BY <1>2 DEF Written
<1>6. memory'[s] # None
  BY <1>5, ChatAssumption
<1>7. h \in HandlerStates /\ h.pc = next /\ h.session = s
  <2>1. <<>> \in Seq(Messages)
    OBVIOUS
  <2> QED
    BY <1>0, <2>1 DEF HandlerStates, Active
<1>8. handler' = [handler EXCEPT ![r] = h]
  BY <1>0, <1>1
<1>9. Spares /\ rows \subseteq rows'
  BY <1>1, <1>5, <1>6 DEF Spares
<1> HIDE DEF h, own
<1>10. /\ handler' \in [Requests -> HandlerStates] /\ handler'[r] = h
       /\ \A q \in Requests : q # r => handler'[q] = handler[q] /\ Placed(q)'
  BY <1>7, <1>8, <1>9, OthersPlaced
<1>11. Placed(r)'
  BY <1>0, <1>1, <1>6, <1>7, <1>10 DEF Placed
<1>12. \A q \in Requests : Puts(q)' => /\ q # r /\ Puts(q) /\ handler'[q] = handler[q]
                                       /\ Pending(q)' = Pending(q)
  BY <1>7, <1>10 DEF Puts, Pending
<1>13. UnracedAlone'
  <2> SUFFICES ASSUME NEW q \in Requests, Puts(q)', Pending(q)' \notin raced'
               PROVE  AddsAlone(q)'
    BY DEF UnracedAlone
  <2>1. q # r /\ Puts(q) /\ handler'[q] = handler[q] /\ Pending(q) \notin raced
    BY <1>1, <1>12
  <2>2. AddsAlone(q)
    BY <2>1, <1>0 DEF UnracedAlone
  <2>3. handler[q].session # s /\ handler[q].session \in Named
    BY <2>1, <2>2, <1>0, <1>2 DEF AddsAlone, HandlerStates
  <2> HIDE DEF s
  <2>4. memory'[handler[q].session] = memory[handler[q].session]
    BY <2>3, <1>5
  <2> QED
    BY <2>1, <2>2, <2>4, <1>12 DEF AddsAlone
<1>14. since' \subseteq since \cup {m}
  BY <1>1 DEF Publish
<1>15. Kept'
  <2> SUFFICES ASSUME NEW x \in since', x \notin raced PROVE \E i : Held(x, i)'
    BY <1>1 DEF Kept
  <2>1. CASE x \in since
    <3>1. PICK i : Held(x, i)
      BY <2>1, <1>0 DEF Kept
    <3>2. x.session \in Named
      BY <2>1, <1>0 DEF Messages
    <3>3. CASE x.session # s
      <4>1. memory'[x.session] = memory[x.session]
        BY <3>2, <3>3, <1>5
      <4>2. Held(x, i)'
        BY <3>1, <4>1, <1>12 DEF Held
      <4> QED
        BY <4>2
    <3>4. CASE x.session = s
      <4>1. /\ i \in DOMAIN handler[r].seen /\ handler[r].seen[i] = x
            /\ i \in DOMAIN memory[s] /\ memory[s][i] = x
        BY <3>1, <3>4, <1>2 DEF Held
      <4>2. i \in DOMAIN own /\ own[i] = x
        BY <4>1, <1>4
      <4>3. ASSUME NEW q \in Appending(s) \ {r}, Len(handler[q].seen) + 1 = i PROVE FALSE
        <5>1. q \in Requests /\ Puts(q) /\ handler[q].session = s
          BY <4>3 DEF Appending, Puts
        <5>2. i \in DOMAIN handler[q].seen
          BY <5>1, <3>1, <3>4 DEF Held
        <5>3. handler[q].seen \in Seq(Messages)
          BY <5>1, <1>0 DEF HandlerStates
        <5>4. Len(handler[q].seen) \in Nat /\ DOMAIN handler[q].seen = 1 .. Len(handler[q].seen)
          BY <5>3
        <5> QED
          BY <4>3, <5>2, <5>4
      <4>4. Outcomes(r, own, i) \subseteq {x}
        BY <4>1, <4>2, <4>3 DEF Outcomes
      <4>5. memory'[s][i] = x /\ i \in DOMAIN memory'[s]
        BY <4>2, <4>4, <1>5
      <4>6. Held(x, i)'
        BY <3>1, <3>4, <4>5, <1>6, <1>12 DEF Held
      <4> QED
        BY <4>6
    <3> QED
      BY <3>3, <3>4
  <2>2. CASE x = m
    <3>1. AddsAlone(r)
      BY <2>2, <1>0, <1>2 DEF UnracedAlone
    <3>2. memory'[s] = own
      BY <3>1, <1>2, AloneWrites DEF own
    <3>3. \A q \in Requests : Puts(q)' => handler'[q].session # s
      BY <3>1, <1>12 DEF AddsAlone
    <3>4. PICK n : n \in DOMAIN own /\ own[n] = x
      BY <2>2, <1>4
    <3>6. x.session = s
      BY <2>2, <1>2
    <3>5. Held(x, n)'
      BY <3>2, <3>3, <3>4, <3>6, <1>6 DEF Held
    <3> QED
      BY <3>5
  <2> QED
    BY <2>1, <2>2, <1>14
<1>17. up'
  BY <1>1, <1>3 DEF AgentInv
<1>16. since' \subseteq Messages /\ raced' \subseteq Messages /\ rows' \subseteq Sessions /\ db' \in Seq(Messages)
  BY <1>0, <1>1, <1>2, <1>14 DEF AgentInv
<1>18. AgentInv'
  BY <1>5, <1>10, <1>11, <1>13, <1>15, <1>16, <1>17 DEF AgentInv
<1> QED
  BY <1>2, <1>18 DEF m

\* The process ends: no handler is left, and what it published counts no more.
LEMMA CrashAgent == ASSUME AgentInv, Crash PROVE AgentInv'
<1>0. /\ handler \in [Requests -> HandlerStates] /\ \A r \in Requests : Placed(r)
      /\ rows \subseteq Sessions /\ db \in Seq(Messages)
  BY DEF AgentInv
<1>1. /\ ~up' /\ UNCHANGED <<rows, db>> /\ since' = {} /\ raced' = {}
      /\ memory' = [s \in Named |-> None]
      /\ handler' = [r \in Requests |->
                       IF At(r, "idle") THEN handler[r] ELSE [handler[r] EXCEPT !.pc = "over"]]
  BY DEF Crash
<1>2. memory' \in Agents
  BY <1>1 DEF Agents
<1>3. ASSUME NEW r \in Requests
      PROVE  /\ handler'[r] \in HandlerStates /\ handler'[r].pc \in {"idle", "over"}
             /\ handler'[r].session = handler[r].session
  <2>1. handler[r] \in HandlerStates
    BY <1>0
  <2>2. [handler[r] EXCEPT !.pc = "over"] \in HandlerStates
    BY <2>1 DEF HandlerStates
  <2>3. /\ [handler[r] EXCEPT !.pc = "over"].session = handler[r].session
        /\ [handler[r] EXCEPT !.pc = "over"].pc = "over"
    BY <2>1 DEF HandlerStates
  <2> QED
    BY <1>1, <2>1, <2>2, <2>3 DEF At
<1>4. \A r \in Requests : ~Works(r)'
  BY <1>3 DEF Works, Active
<1>5. \A r \in Requests : Placed(r)'
  BY <1>0, <1>1, <1>3, <1>4 DEF Placed
<1>6. UnracedAlone' /\ Kept'
  BY <1>1, <1>3 DEF UnracedAlone, Kept, Puts
<1>7. handler' \in [Requests -> HandlerStates]
  BY <1>1, <1>3
<1> QED
  BY <1>0, <1>1, <1>2, <1>4, <1>5, <1>6, <1>7 DEF AgentInv

RebuildTable(bad, k, f) == f = [n \in 0 .. k |-> IF n = 0 THEN memory ELSE RebuildStep(f[n - 1], db[n], n \in bad)]

\* The agents after each stored message make up a table, whatever their number.
LEMMA RebuildTableExists ==
  ASSUME NEW bad, NEW k \in Nat
  PROVE  \E f : RebuildTable(bad, k, f)
<1> DEFINE Bad == {n \in Nat : ~\E f : RebuildTable(bad, n, f)}
           Lt == OpToRel(<, Nat)
<1>1. \A x, y \in Nat : y < x => <<y, x>> \in Lt
  BY DEF OpToRel
<1>2. IsWellFoundedOn(Lt, Nat)
  BY NatLessThanWellFounded
<1> HIDE DEF Lt
<1>3. ASSUME Bad # {} PROVE FALSE
  <2>1. PICK m \in Bad : \A y \in Bad : ~(<<y, m>> \in Lt)
    BY <1>2, <1>3, WFMin
  <2>2. m \in Nat /\ ~\E f : RebuildTable(bad, m, f)
    OBVIOUS
  <2>3. CASE m = 0
    <3> DEFINE f == [n \in 0 .. 0 |-> memory]
    <3>1. \A n \in 0 .. 0 : n = 0
      OBVIOUS
    <3>2. [n \in 0 .. 0 |-> IF n = 0 THEN memory ELSE RebuildStep(f[n - 1], db[n], n \in bad)] = f
      BY <3>1
    <3>3. RebuildTable(bad, 0, f)
      BY <3>2, Zenon DEF RebuildTable
    <3> QED
      BY <2>2, <2>3, <3>3
  <2>4. CASE m # 0
    <3>1. m - 1 \in Nat /\ m - 1 < m
      BY <2>2, <2>4
    <3>2. PICK g : RebuildTable(bad, m - 1, g)
      <4>1. m - 1 \notin Bad
        BY <2>1, <2>2, <3>1, <1>1
      <4> QED
        BY <3>1, <4>1
    <3> DEFINE f == [n \in 0 .. m |-> IF n = m THEN RebuildStep(g[m - 1], db[m], m \in bad) ELSE g[n]]
               h == [n \in 0 .. m |-> IF n = 0 THEN memory ELSE RebuildStep(f[n - 1], db[n], n \in bad)]
    <3>3. \A n \in 0 .. m - 1 : g[n] = IF n = 0 THEN memory ELSE RebuildStep(g[n - 1], db[n], n \in bad)
      BY <3>2 DEF RebuildTable
    <3>4. ASSUME NEW n \in 0 .. m PROVE f[n] = IF n = 0 THEN memory ELSE RebuildStep(f[n - 1], db[n], n \in bad)
      <4>1. CASE n = m
        <5>1. m \in 0 .. m /\ m - 1 \in 0 .. m /\ m - 1 # m
          BY <3>1
        <5>2. f[m - 1] = g[m - 1] /\ f[m] = RebuildStep(g[m - 1], db[m], m \in bad)
          BY <5>1
        <5> HIDE DEF f
        <5> QED
          BY <4>1, <5>2, <2>4
      <4>2. CASE n = 0
        <5>1. 0 \in 0 .. m /\ 0 # m /\ 0 \in 0 .. m - 1
          BY <3>1, <2>4
        <5>2. f[0] = g[0] /\ g[0] = memory
          BY <5>1, <3>3
        <5> HIDE DEF f
        <5> QED
          BY <4>2, <5>2
      <4>3. CASE n # m /\ n # 0
        <5>1. n \in 0 .. m /\ n \in 0 .. m - 1 /\ n - 1 \in 0 .. m /\ n - 1 # m
          BY <4>3, <2>2
        <5>2. f[n] = g[n] /\ f[n - 1] = g[n - 1]
          BY <4>3, <5>1
        <5>3. g[n] = IF n = 0 THEN memory ELSE RebuildStep(g[n - 1], db[n], n \in bad)
          BY <3>3, <5>1
        <5> HIDE DEF f
        <5> QED
          BY <5>2, <5>3
      <4> QED
        BY <4>1, <4>2, <4>3
    <3>5. f = h
      <4>1. DOMAIN f = 0 .. m /\ DOMAIN h = 0 .. m /\ \A n \in 0 .. m : f[n] = h[n]
        BY <3>4
      <4>2. f = [n \in 0 .. m |-> f[n]] /\ h = [n \in 0 .. m |-> h[n]]
        OBVIOUS
      <4> HIDE DEF f, h
      <4> QED
        BY <4>1, <4>2
    <3>6. RebuildTable(bad, m, f)
      BY <3>5, Zenon DEF RebuildTable
    <3> QED
      BY <2>2, <3>6
  <2> QED
    BY <2>3, <2>4
<1> QED
  BY <1>3

LEMMA RebuildStepTyped ==
  ASSUME NEW agents \in Agents, NEW m \in Messages, NEW fails
  PROVE  RebuildStep(agents, m, fails) \in Agents
<1>1. m.session \in Named
  BY DEF Messages
<1>2. <<>> \in Seq(Messages)
  OBVIOUS
<1> DEFINE old == IF agents[m.session] = None THEN <<>> ELSE agents[m.session]
<1>3. old \in Seq(Messages)
  BY <1>1, <1>2 DEF Agents
<1> HIDE DEF old
<1>4. Append(old, m) \in Seq(Messages)
  BY <1>3, AppendProperties
<1>5. [agents EXCEPT ![m.session] = Append(old, m)] \in Agents
  BY <1>1, <1>4 DEF Agents
<1>6. RebuildStep(agents, m, fails) \in {agents, [agents EXCEPT ![m.session] = Append(old, m)]}
  BY <1>1 DEF RebuildStep, NewAIAgent, old, Agents
<1> QED
  BY <1>5, <1>6

\* What readDataFromDB makes of the stored messages are agents (main.go:23-49).
LEMMA RebuildTyped ==
  ASSUME memory \in Agents, db \in Seq(Messages), NEW bad
  PROVE  Rebuild(bad) \in Agents
<1> DEFINE k == Len(db)
           A == CHOOSE f : RebuildTable(bad, k, f)
           Bad == {n \in Nat : n \in 0 .. k /\ A[n] \notin Agents}
           Lt == OpToRel(<, Nat)
<1>1. k \in Nat /\ \A n \in 1 .. k : db[n] \in Messages
  OBVIOUS
<1>2. RebuildTable(bad, k, A)
  BY <1>1, RebuildTableExists
<1>3. Rebuild(bad) = A[k]
  BY DEF Rebuild, RebuildTable
<1> HIDE DEF A
<1>4. A[0] = memory /\ \A n \in 1 .. k : A[n] = RebuildStep(A[n - 1], db[n], n \in bad)
  BY <1>1, <1>2 DEF RebuildTable
<1>5. \A x, y \in Nat : y < x => <<y, x>> \in Lt
  BY DEF OpToRel
<1>6. IsWellFoundedOn(Lt, Nat)
  BY NatLessThanWellFounded
<1> HIDE DEF Lt, k
<1>7. ASSUME Bad # {} PROVE FALSE
  <2>1. PICK m \in Bad : \A y \in Bad : ~(<<y, m>> \in Lt)
    BY <1>6, <1>7, WFMin
  <2>2. m \in Nat /\ m \in 0 .. k /\ A[m] \notin Agents
    OBVIOUS
  <2>3. m # 0
    BY <2>2, <1>4
  <2>4. m - 1 \in Nat /\ m - 1 < m /\ m - 1 \in 0 .. k /\ m \in 1 .. k
    BY <1>1, <2>2, <2>3
  <2>5. A[m - 1] \in Agents
    BY <2>1, <2>2, <2>4, <1>5
  <2>6. RebuildStep(A[m - 1], db[m], m \in bad) \in Agents
    BY <1>1, <2>4, <2>5, RebuildStepTyped
  <2> QED
    BY <2>2, <2>4, <2>6, <1>4
<1>8. k \notin Bad /\ k \in 0 .. k
  BY <1>1, <1>7
<1> QED
  BY <1>1, <1>3, <1>8

LEMMA RestartAgent == ASSUME AgentInv, Restart PROVE AgentInv'
<1>1. /\ ~up /\ UNCHANGED <<rows, handler, raced, since, db>>
      /\ memory \in Agents /\ db \in Seq(Messages)
  BY DEF Restart, storeVars, AgentInv
<1>2. memory' \in Agents
  <2>1. CASE UNCHANGED memory
    BY <1>1, <2>1
  <2>2. ASSUME NEW bad, memory' = Rebuild(bad) PROVE memory' \in Agents
    BY <1>1, <2>2, RebuildTyped
  <2> QED
    BY <2>1, <2>2 DEF Restart
<1>3. since = {} /\ \A r \in Requests : ~Works(r)
  BY <1>1 DEF AgentInv
<1>4. \A r \in Requests : Placed(r)'
  <2>1. ASSUME NEW r \in Requests PROVE Placed(r)'
    <3>1. Placed(r) /\ ~Works(r)
      BY <1>3 DEF AgentInv
    <3> QED
      BY <1>1, <3>1 DEF Placed, Works, Active
  <2> QED
    BY <2>1
<1>5. UnracedAlone' /\ Kept'
  <2>1. \A r \in Requests : ~Puts(r)'
    BY <1>1, <1>3 DEF Puts, Works, Active
  <2> QED
    BY <2>1, <1>1, <1>3 DEF UnracedAlone, Kept
<1>6. up'
  BY DEF Restart
<1> QED
  BY <1>1, <1>2, <1>4, <1>5, <1>6 DEF AgentInv

LEMMA SameQueue ==
  ASSUME QueueInv, UNCHANGED <<setup, topic, reading, db, published>>
  PROVE  QueueInv'
BY DEF QueueInv, NoMoreThanPublished

LEMMA SameAgents ==
  ASSUME AgentInv, UNCHANGED <<up, rows, memory, handler, since, raced>>, db' \in Seq(Messages)
  PROVE  AgentInv'
<1>1. UnracedAlone' /\ Kept'
  BY StillKept
<1> QED
  BY <1>1 DEF AgentInv, Placed, Works

\* One stage of a handler.
LEMMA HandleKeeps ==
  ASSUME QueueInv, AgentInv, NEW r \in Requests, Handle(r)
  PROVE  QueueInv' /\ AgentInv' /\ UNCHANGED rows
<1>1. CASE GetOrCreateAIAgent(r)
  <2>1. UNCHANGED <<setup, topic, reading, db, published, rows>>
    BY <1>1 DEF GetOrCreateAIAgent, lifeVars, storeVars
  <2> QED
    BY <1>1, <2>1, SameQueue, GetAgent
<1>2. ASSUME NEW pc \in {"addQ", "addA"}, NEW next \in {"putQ", "putA"}, AddRead(r, pc, next)
      PROVE  QueueInv' /\ AgentInv' /\ UNCHANGED rows
  <2>1. UNCHANGED <<setup, topic, reading, db, published, rows>>
    BY <1>2 DEF AddRead, lifeVars, storeVars
  <2> QED
    BY <1>2, <2>1, SameQueue, AddReadAgent
<1>3. ASSUME NEW pc \in {"putQ", "putA"}, NEW user \in BOOLEAN, NEW next \in {"model", "end"},
             user = (pc = "putQ"), AddWrite(r, pc, user, next)
      PROVE  QueueInv' /\ AgentInv' /\ UNCHANGED rows
  <2>1. AgentInv' /\ Msg(handler[r].session, r, user) \in Messages
    BY <1>3, AddWriteAgent
  <2>2. Publish(Msg(handler[r].session, r, user)) /\ UNCHANGED <<setup, reading, db, rows>>
    BY <1>3 DEF AddWrite, lifeVars
  <2> QED
    BY <2>1, <2>2, PublishQueue
<1>4. CASE Model(r)
  <2>1. /\ UNCHANGED <<setup, up, topic, reading, db, published, since, rows, memory, raced>>
        /\ handler[r].pc = "model" /\ (Goto(r, "addA") \/ Goto(r, "over"))
    BY <1>4 DEF Model, At, lifeVars, storeVars
  <2>2. Works(r) /\ "addA" \in Active
    BY <2>1 DEF Works, Active
  <2>3. AgentInv'
    BY <2>1, <2>2, GotoAgent
  <2> QED
    BY <2>1, <2>3, SameQueue
<1>5. CASE Answer(r)
  <2>1. /\ UNCHANGED <<setup, up, topic, reading, db, published, since, rows, memory, raced>>
        /\ Goto(r, "over")
    BY <1>5 DEF Answer, lifeVars, storeVars
  <2>2. AgentInv'
    BY <2>1, GotoAgent
  <2> QED
    BY <2>1, <2>2, SameQueue
<1> QED
  BY <1>1, <1>2, <1>3, <1>4, <1>5 DEF Handle, AddQuestion, AddAnswer

\* A step of the backend.
LEMMA BackNextKeeps ==
  ASSUME QueueInv, AgentInv, BackNext
  PROVE  QueueInv' /\ AgentInv' /\ UNCHANGED rows
<1>1. ASSUME NEW r \in Requests, Handle(r) PROVE QueueInv' /\ AgentInv' /\ UNCHANGED rows
  BY <1>1, HandleKeeps
<1>2. CASE ReadMessage
  <2>1. UNCHANGED <<up, rows, memory, handler, since, raced, db>>
    BY <1>2 DEF ReadMessage, lifeVars
  <2>2. db' \in Seq(Messages)
    BY <2>1 DEF QueueInv
  <2> QED
    BY <1>2, <2>1, <2>2, ReadQueue, SameAgents
<1>3. CASE MQMessage
  <2>1. UNCHANGED <<up, rows, memory, handler, since, raced>>
    BY <1>3 DEF MQMessage, lifeVars
  <2>2. QueueInv'
    BY <1>3, StoreQueue
  <2>3. db' \in Seq(Messages)
    BY <2>2 DEF QueueInv
  <2> QED
    BY <2>1, <2>2, <2>3, SameAgents
<1>4. CASE Crash
  <2>1. UNCHANGED rows
    BY <1>4 DEF Crash
  <2> QED
    BY <1>4, <2>1, CrashQueue, CrashAgent
<1>5. CASE Restart
  <2>1. UNCHANGED <<setup, topic, reading, db, published, rows>>
    BY <1>5 DEF Restart, storeVars
  <2> QED
    BY <1>5, <2>1, SameQueue, RestartAgent
<1> QED
  BY <1>1, <1>2, <1>3, <1>4, <1>5 DEF BackNext

\* A message is sent: it goes to a session the page knows, to a new one, or nowhere.
LEMMA SendKeeps ==
  ASSUME ChatInv, NEW r \in Requests, HandleStreaming(r) \/ HandleNormal(r)
  PROVE  ChatInv'
<1>1. PICK stream \in BOOLEAN :
        /\ SendMessage(r, stream)
        /\ ReceiveNew(r, stream) \/ Receive(r, current, stream) \/ Refuse(r)
  BY DEF HandleStreaming, HandleNormal, CreateStreamSessionAndSendMessage, ChatStreamSend,
         CreateSessionAndSendMessage, ChatSend
<1>2. QueueInv'
  <2>1. UNCHANGED <<setup, topic, reading, db, published>>
    BY <1>1 DEF ReceiveNew, Receive, Refuse, lifeVars, storeVars
  <2> QED
    BY <2>1, SameQueue DEF ChatInv
<1>3. AgentInv' /\ rows \subseteq rows'
  <2>0. AgentInv /\ current \in rows \cup {None}
    BY DEF ChatInv, PageInv
  <2>1. CASE ReceiveNew(r, stream)
    BY <2>0, <2>1, ReceiveNewAgent
  <2>2. CASE Receive(r, current, stream)
    <3>1. AgentInv'
      BY <2>0, <2>2, ReceiveAgent
    <3>2. UNCHANGED rows
      BY <2>2 DEF Receive
    <3> QED
      BY <3>1, <3>2
  <2>3. CASE Refuse(r)
    <3>1. Goto(r, "over") /\ UNCHANGED <<up, rows, memory, db, since, raced>>
      BY <2>3 DEF Refuse, lifeVars, storeVars
    <3> QED
      BY <2>0, <3>1, GotoAgent
  <2> QED
    BY <1>1, <2>1, <2>2, <2>3
<1>4. PageInv'
  <2>1. UNCHANGED <<current, cached, loads>>
    BY <1>1 DEF SendMessage
  <2>2. shown' = shown \o <<ByUser(r)>> \o (IF stream THEN <<ByModel(<<>>)>> ELSE <<>>)
    BY <1>1 DEF SendMessage
  <2>3. ByUser(r) \in ShownMsgs /\ ByModel(<<>>) \in ShownMsgs
    BY DEF ByUser, ByModel, ShownMsgs
  <2>4. shown \in Seq(ShownMsgs)
    BY DEF ChatInv, PageInv
  <2>5. shown \o <<ByUser(r)>> \in Seq(ShownMsgs)
    BY <2>3, <2>4
  <2>6. <<ByModel(<<>>)>> \in Seq(ShownMsgs) /\ <<>> \in Seq(ShownMsgs)
    BY <2>3
  <2>7. shown' \in Seq(ShownMsgs)
    BY <2>2, <2>5, <2>6, ConcatProperties
  <2> QED
    BY <1>3, <2>1, <2>7 DEF ChatInv, PageInv
<1> QED
  BY <1>2, <1>3, <1>4 DEF ChatInv

\* A step of the page alone: the backend is the same but for what is on its way.
LEMMA PageOnly ==
  ASSUME ChatInv, PageInv',
         UNCHANGED <<setup, up, rows, memory, handler, topic, reading, db, since, published, raced>>
  PROVE  ChatInv'
<1>1. db' \in Seq(Messages)
  BY DEF ChatInv, QueueInv
<1> QED
  BY <1>1, SameQueue, SameAgents DEF ChatInv

\* An event arrives: it may bring the session that its request has made.
LEMMA EventKeeps ==
  ASSUME ChatInv, NEW r \in Requests, ReadEvent(r)
  PROVE  ChatInv'
<1>1. UNCHANGED <<setup, up, rows, memory, handler, topic, reading, db, since, published, raced, loads>>
  BY DEF ReadEvent, SessionId, Chunk, Done, StreamEnds, Answered, Failed, Rejected, Arrives
<1>2. /\ shown \in Seq(ShownMsgs) /\ current \in rows \cup {None}
      /\ cached \in [Sessions -> Seq(ShownMsgs) \cup {None}]
      /\ \A s \in Sessions : cached[s] # None => s \in rows
      /\ loads \in Seq(Loads)
  BY DEF ChatInv, PageInv
<1>3. handler[r].session \in rows \cup {None} /\ None \notin Sessions
  BY ChatAssumption DEF ChatInv, AgentInv, Placed
<1>4. ByUser(r) \in ShownMsgs /\ ByModel(<<r>>) \in ShownMsgs
  BY DEF ByUser, ByModel, ShownMsgs
<1>5. SUFFICES PageInv'
  BY <1>1, PageOnly
<1>6. ASSUME NEW s \in rows \cup {None}, NEW list \in Seq(ShownMsgs),
             cached' = [cached EXCEPT ![s] = list]
      PROVE  /\ cached' \in [Sessions -> Seq(ShownMsgs) \cup {None}]
             /\ \A t \in Sessions : cached'[t] # None => t \in rows
  BY <1>2, <1>3, <1>6
<1>7. CASE SessionId(r)
  <2>1. UNCHANGED shown
    BY <1>7 DEF SessionId
  <2>2. <<>> \in Seq(ShownMsgs)
    OBVIOUS
  <2>3. CASE page[r].temp
    <3>1. cached' = [cached EXCEPT ![handler[r].session] = <<>>] /\ current' = handler[r].session
      BY <1>7, <2>3 DEF SessionId
    <3>2. /\ cached' \in [Sessions -> Seq(ShownMsgs) \cup {None}]
          /\ \A t \in Sessions : cached'[t] # None => t \in rows
      BY <1>3, <1>6, <2>2, <3>1
    <3> QED
      BY <1>1, <1>2, <1>3, <2>1, <3>1, <3>2 DEF PageInv
  <2>4. CASE ~page[r].temp
    BY <1>1, <1>2, <1>7, <2>1, <2>4 DEF SessionId, PageInv
  <2> QED
    BY <2>3, <2>4
<1>8. CASE Chunk(r)
  <2> DEFINE n == Len(shown)
             more == [shown EXCEPT ![n].text = Append(@, r)]
  <2>1. /\ UNCHANGED current
        /\ shown' = IF shown = <<>> THEN shown ELSE more
        /\ cached' = [s \in Sessions |-> IF shown # <<>> /\ cached[s] = shown THEN more ELSE cached[s]]
    BY <1>8 DEF Chunk, AppendToLast
  <2>2. shown # <<>> => more \in Seq(ShownMsgs)
    <3>1. SUFFICES ASSUME shown # <<>> PROVE more \in Seq(ShownMsgs)
      OBVIOUS
    <3>2. n \in Nat /\ n \in 1 .. n /\ shown \in [1 .. n -> ShownMsgs]
      BY <1>2, <3>1
    <3>3. shown[n] \in ShownMsgs
      BY <3>2
    <3>4. Append(shown[n].text, r) \in Seq(Requests)
      <4>1. shown[n].text \in Seq(Requests)
        BY <3>3 DEF ShownMsgs
      <4> QED
        BY <4>1, AppendProperties
    <3>5. [shown[n] EXCEPT !.text = Append(shown[n].text, r)] \in ShownMsgs
      BY <3>3, <3>4 DEF ShownMsgs
    <3>6. more = [shown EXCEPT ![n] = [shown[n] EXCEPT !.text = Append(shown[n].text, r)]]
      BY <3>2
    <3> HIDE DEF n, more
    <3>7. more \in [1 .. n -> ShownMsgs]
      BY <3>2, <3>5, <3>6
    <3> QED
      BY <3>2, <3>7
  <2>3. shown # None
    BY <1>2, PageAssumption
  <2> HIDE DEF n, more
  <2>4. shown' \in Seq(ShownMsgs)
    BY <1>2, <2>1, <2>2
  <2>5. cached' \in [Sessions -> Seq(ShownMsgs) \cup {None}]
    BY <1>2, <2>1, <2>2
  <2>6. \A s \in Sessions : cached'[s] # None => s \in rows
    BY <1>2, <2>1, <2>3
  <2> QED
    BY <1>1, <1>2, <2>1, <2>4, <2>5, <2>6 DEF PageInv
<1>9. CASE Done(r) \/ StreamEnds(r) \/ Rejected(r)
  <2>1. UNCHANGED <<shown, current, cached>>
    BY <1>9 DEF Done, StreamEnds, Rejected
  <2> QED
    BY <1>1, <1>2, <2>1 DEF PageInv
<1>10. CASE Answered(r)
  <2> DEFINE exchange == <<ByUser(r), ByModel(<<r>>)>>
  <2>1. exchange \in Seq(ShownMsgs)
    BY <1>4
  <2>2. Append(shown, ByModel(<<r>>)) \in Seq(ShownMsgs)
    BY <1>2, <1>4, AppendProperties
  <2>3. CASE page[r].temp
    <3>1. /\ cached' = [cached EXCEPT ![handler[r].session] = exchange]
          /\ current' = handler[r].session /\ shown' = exchange
      BY <1>10, <2>3 DEF Answered
    <3> HIDE DEF exchange
    <3>2. /\ cached' \in [Sessions -> Seq(ShownMsgs) \cup {None}]
          /\ \A t \in Sessions : cached'[t] # None => t \in rows
      BY <1>3, <1>6, <2>1, <3>1
    <3> QED
      BY <1>1, <1>2, <1>3, <2>1, <3>1, <3>2 DEF PageInv
  <2>4. CASE ~page[r].temp
    <3>1. shown' = Append(shown, ByModel(<<r>>)) /\ UNCHANGED <<cached, current>>
      BY <1>10, <2>4 DEF Answered
    <3> QED
      BY <1>1, <1>2, <2>2, <3>1 DEF PageInv
  <2> QED
    BY <2>3, <2>4
<1>11. CASE Failed(r)
  <2>1. /\ shown' = IF shown = <<>> THEN shown ELSE SubSeq(shown, 1, Len(shown) - 1)
        /\ UNCHANGED <<cached, current>>
    BY <1>11 DEF Failed
  <2>2. shown # <<>> => SubSeq(shown, 1, Len(shown) - 1) \in Seq(ShownMsgs)
    BY <1>2
  <2> QED
    BY <1>1, <1>2, <2>1, <2>2 DEF PageInv
<1> QED
  BY <1>7, <1>8, <1>9, <1>10, <1>11 DEF ReadEvent

\* What the sidebar lists: nothing, for no session information carries session_id.
LEMMA NothingParsed == Parsed(SessionInfos) = {}
<1>1. \A e \in SessionInfos : "session_id" \notin DOMAIN e
  BY DEF SessionInfos
<1>2. CASE SessionInfos = {}
  BY <1>2 DEF Parsed
<1>3. CASE SessionInfos # {}
  BY <1>1, <1>3 DEF Parsed
<1> QED
  BY <1>2, <1>3

\* A click in the sidebar.
LEMMA MoveKeeps ==
  ASSUME ChatInv, CreateNewSession \/ FetchSessions \/ \E s \in Sessions : SwitchSession(s)
  PROVE  ChatInv'
<1>1. UNCHANGED <<setup, up, rows, memory, handler, topic, reading, db, since, published, raced>>
  BY DEF CreateNewSession, FetchSessions, SwitchSession, Move, backVars
<1>2. /\ shown \in Seq(ShownMsgs) /\ current \in rows \cup {None}
      /\ cached \in [Sessions -> Seq(ShownMsgs) \cup {None}]
      /\ \A s \in Sessions : cached[s] # None => s \in rows
      /\ loads \in Seq(Loads)
  BY DEF ChatInv, PageInv
<1>3. SUFFICES PageInv'
  BY <1>1, PageOnly
<1>4. CASE CreateNewSession
  <2>1. current' = None /\ shown' = <<>> /\ UNCHANGED <<cached, loads>>
    BY <1>4 DEF CreateNewSession
  <2>2. shown' \in Seq(ShownMsgs)
    BY <2>1
  <2> QED
    BY <1>1, <1>2, <2>1, <2>2 DEF PageInv
<1>5. CASE FetchSessions
  <2>1. /\ UNCHANGED <<shown, current, loads>>
        /\ cached' = [s \in Sessions |-> IF s \in Parsed(SessionInfos) THEN <<>> ELSE None]
    BY <1>5 DEF FetchSessions
  <2>2. cached' = [s \in Sessions |-> None]
    BY <2>1, NothingParsed
  <2> QED
    BY <1>1, <1>2, <2>1, <2>2 DEF PageInv
<1>6. ASSUME NEW s \in Sessions, SwitchSession(s) PROVE PageInv'
  <2>1. cached[s] # None /\ current' = s /\ UNCHANGED cached
    BY <1>6 DEF SwitchSession
  <2>2. s \in rows /\ cached[s] \in Seq(ShownMsgs)
    BY <1>2, <2>1
  <2>3. [session |-> s, reply |-> None] \in Loads
    BY DEF Loads
  <2>4. Append(loads, [session |-> s, reply |-> None]) \in Seq(Loads)
    BY <1>2, <2>3, AppendProperties
  <2>5. \/ loads' = Append(loads, [session |-> s, reply |-> None]) /\ UNCHANGED shown
        \/ shown' = cached[s] /\ UNCHANGED loads
    BY <1>6 DEF SwitchSession
  <2>6. loads' \in Seq(Loads) /\ shown' \in Seq(ShownMsgs)
    BY <1>2, <2>2, <2>4, <2>5
  <2> QED
    BY <1>1, <1>2, <2>1, <2>2, <2>6 DEF PageInv
<1> QED
  BY <1>4, <1>5, <1>6

\* A request for a history is answered.
LEMMA HistoryKeeps == ASSUME ChatInv, GetChatHistory PROVE ChatInv'
<1>1. /\ UNCHANGED <<setup, up, rows, memory, handler, topic, reading, db, since, published, raced>>
      /\ UNCHANGED <<shown, current, cached>>
  BY DEF GetChatHistory, backVars
<1>2. SUFFICES loads' \in Seq(Loads)
  <2>1. ASSUME loads' \in Seq(Loads) PROVE PageInv'
    BY <1>1, <2>1 DEF ChatInv, PageInv
  <2> QED
    BY <1>1, <2>1, PageOnly
<1>3. PICK i \in DOMAIN loads :
        loads' = [loads EXCEPT ![i].reply =
                    IF up /\ GetAIAgent(loads[i].session)
                    THEN [ok |-> TRUE, list |-> History(loads[i].session)]
                    ELSE [ok |-> FALSE, list |-> <<>>]]
  BY DEF GetChatHistory
<1> DEFINE s == loads[i].session
           reply == IF up /\ GetAIAgent(s) THEN [ok |-> TRUE, list |-> History(s)]
                                           ELSE [ok |-> FALSE, list |-> <<>>]
<1>4. loads \in Seq(Loads) /\ memory \in Agents
  BY DEF ChatInv, PageInv, AgentInv
<1>5. loads[i] \in Loads /\ s \in Sessions
  <2>1. loads[i] \in Loads
    BY <1>3, <1>4
  <2> QED
    BY <2>1 DEF Loads
<1>6. GetAIAgent(s) => History(s) \in Seq(ShownMsgs)
  <2> SUFFICES ASSUME GetAIAgent(s) PROVE History(s) \in Seq(ShownMsgs)
    OBVIOUS
  <2>1. memory[s] \in Seq(Messages)
    BY <1>4, <1>5 DEF GetAIAgent, Agents, Named
  <2> DEFINE n == Len(memory[s])
  <2>2. n \in Nat /\ DOMAIN memory[s] = 1 .. n /\ \A j \in 1 .. n : memory[s][j] \in Messages
    BY <2>1
  <2> HIDE DEF n
  <2>3. ASSUME NEW j \in 1 .. n PROVE [user |-> j % 2 = 1, text |-> <<memory[s][j].req>>] \in ShownMsgs
    <3>1. memory[s][j].req \in Requests
      BY <2>2 DEF Messages
    <3> DEFINE q == memory[s][j].req
    <3> HIDE DEF q
    <3>2. <<q>> \in Seq(Requests)
      BY <3>1 DEF q
    <3>3. (j % 2 = 1) \in BOOLEAN
      OBVIOUS
    <3> DEFINE b == (j % 2 = 1)
    <3> HIDE DEF b
    <3>4. [user |-> b, text |-> <<q>>] \in ShownMsgs
      BY <3>2, <3>3 DEF ShownMsgs, b
    <3> QED
      BY <3>4 DEF q, b
  <2>4. History(s) = [j \in 1 .. n |-> [user |-> j % 2 = 1, text |-> <<memory[s][j].req>>]]
    BY <2>2 DEF History
  <2> DEFINE e(j) == [user |-> j % 2 = 1, text |-> <<memory[s][j].req>>]
  <2>5. \A j \in 1 .. n : e(j) \in ShownMsgs
    BY <2>3
  <2> HIDE DEF e
  <2>6. [j \in 1 .. n |-> e(j)] \in [1 .. n -> ShownMsgs]
    BY <2>5
  <2>7. [j \in 1 .. n |-> e(j)] \in Seq(ShownMsgs)
    BY <2>2, <2>6
  <2> QED
    BY <2>4, <2>7 DEF e
<1>7. reply \in Replies
  <2>1. <<>> \in Seq(ShownMsgs)
    OBVIOUS
  <2>2. [ok |-> FALSE, list |-> <<>>] \in Replies
    BY <2>1 DEF Replies
  <2>3. GetAIAgent(s) => [ok |-> TRUE, list |-> History(s)] \in Replies
    BY <1>6 DEF Replies
  <2> HIDE DEF s
  <2> QED
    BY <2>2, <2>3
<1> HIDE DEF reply
<1>8. [loads[i] EXCEPT !.reply = reply] \in Loads
  BY <1>5, <1>7 DEF Loads
<1>9. loads' = [loads EXCEPT ![i] = [loads[i] EXCEPT !.reply = reply]]
  BY <1>3, <1>4 DEF reply
<1>10. loads \in [1 .. Len(loads) -> Loads] /\ Len(loads) \in Nat
  BY <1>4
<1>11. loads' \in [1 .. Len(loads) -> Loads]
  BY <1>3, <1>8, <1>9, <1>10
<1> QED
  BY <1>10, <1>11

\* The answer is there: it replaces what is shown, and what was listed.
LEMMA LoadKeeps == ASSUME ChatInv, LoadReturns PROVE ChatInv'
<1>1. UNCHANGED <<setup, up, rows, memory, handler, topic, reading, db, since, published, raced>>
  BY DEF LoadReturns, backVars
<1>2. /\ shown \in Seq(ShownMsgs) /\ current \in rows \cup {None}
      /\ cached \in [Sessions -> Seq(ShownMsgs) \cup {None}]
      /\ \A s \in Sessions : cached[s] # None => s \in rows
      /\ loads \in Seq(Loads)
  BY DEF ChatInv, PageInv
<1>3. SUFFICES PageInv'
  BY <1>1, PageOnly
<1>4. UNCHANGED current
  BY DEF LoadReturns
<1>5. PICK i \in DOMAIN loads :
        /\ loads[i].reply # None
        /\ loads' = SubSeq(loads, 1, i - 1) \o SubSeq(loads, i + 1, Len(loads))
        /\ \/ /\ shown' = loads[i].reply.list
              /\ cached' = [cached EXCEPT ![loads[i].session] = IF @ = None THEN None ELSE loads[i].reply.list]
           \/ UNCHANGED <<shown, cached>>
  BY DEF LoadReturns
<1>6. i \in 1 .. Len(loads) /\ Len(loads) \in Nat /\ loads[i] \in Loads
  BY <1>2, <1>5
<1>7. loads[i].session \in Sessions /\ loads[i].reply.list \in Seq(ShownMsgs)
  <2>1. loads[i].reply \in Replies /\ loads[i].session \in Sessions
    BY <1>5, <1>6 DEF Loads
  <2> QED
    BY <2>1 DEF Replies
<1>8. loads' \in Seq(Loads)
  <2>1. SubSeq(loads, 1, i - 1) \in Seq(Loads)
    BY <1>2, <1>6
  <2>2. SubSeq(loads, i + 1, Len(loads)) \in Seq(Loads)
    BY <1>2, <1>6
  <2> QED
    BY <1>5, <2>1, <2>2, ConcatProperties
<1>9. CASE UNCHANGED <<shown, cached>>
  BY <1>1, <1>2, <1>4, <1>8, <1>9 DEF PageInv
<1> DEFINE s == loads[i].session
           list == loads[i].reply.list
<1>10. CASE shown' = list /\ cached' = [cached EXCEPT ![s] = IF @ = None THEN None ELSE list]
  <2>1. s \in Sessions /\ list \in Seq(ShownMsgs)
    BY <1>7
  <2> HIDE DEF s, list
  <2>2. cached' \in [Sessions -> Seq(ShownMsgs) \cup {None}]
    BY <1>2, <1>10, <2>1
  <2>3. \A t \in Sessions : cached'[t] # None => cached[t] # None
    BY <1>2, <1>10, <2>1
  <2> QED
    BY <1>1, <1>2, <1>4, <1>8, <1>10, <2>1, <2>2, <2>3 DEF PageInv
<1> QED
  BY <1>5, <1>9, <1>10

LEMMA ChatInit == Init => ChatInv
<1> SUFFICES ASSUME Init PROVE ChatInv
  OBVIOUS
<1> USE DEF Init, BackInit
<1>1. QueueInv
  <2>1. db \in Seq(Messages) /\ setup \in Setups /\ reading = None
    OBVIOUS
  <2>2. topic \in [Messages -> Nat] /\ published \in [Messages -> Nat]
    OBVIOUS
  <2>3. ASSUME NEW m \in Messages PROVE Copies(db, m) = 0 /\ reading # m
    <3>1. {i \in DOMAIN db : db[i] = m} = {}
      OBVIOUS
    <3> QED
      BY <3>1, ChatAssumption, FS_EmptySet DEF Copies
  <2>4. NoMoreThanPublished
    BY <2>3 DEF NoMoreThanPublished
  <2> QED
    BY <2>1, <2>2, <2>4 DEF QueueInv
<1>2. NoHandler \in HandlerStates /\ NoHandler.pc = "idle" /\ NoHandler.session = None
  <2>1. <<>> \in Seq(Messages)
    OBVIOUS
  <2> QED
    BY <2>1 DEF NoHandler, HandlerStates, Named
<1>3. \A r \in Requests : handler[r] = NoHandler /\ ~Works(r)
  BY <1>2 DEF Works, Active
<1>4. \A r \in Requests : Placed(r)
  BY <1>2, <1>3 DEF Placed
<1>5. memory \in Agents
  BY DEF Agents
<1>6. AgentInv
  <2>1. handler \in [Requests -> HandlerStates]
    BY <1>2
  <2>2. db \in Seq(Messages) /\ rows = {} /\ since = {} /\ raced = {} /\ up
    OBVIOUS
  <2> QED
    BY <1>3, <1>4, <1>5, <2>1, <2>2 DEF AgentInv, UnracedAlone, Kept, Puts, Works, Active
<1>7. PageInv
  <2>1. shown \in Seq(ShownMsgs) /\ loads \in Seq(Loads)
    OBVIOUS
  <2>2. cached \in [Sessions -> Seq(ShownMsgs) \cup {None}] /\ \A s \in Sessions : cached[s] = None
    OBVIOUS
  <2> QED
    BY <2>1, <2>2 DEF PageInv
<1> QED
  BY <1>1, <1>6, <1>7 DEF ChatInv

LEMMA ChatNext == ChatInv /\ [Next]_vars => ChatInv'
<1> SUFFICES ASSUME ChatInv, [Next]_vars PROVE ChatInv'
  OBVIOUS
<1>1. CASE Backend
  <2>1. QueueInv' /\ AgentInv' /\ UNCHANGED rows
    BY <1>1, BackNextKeeps DEF Backend, ChatInv
  <2>2. UNCHANGED <<shown, current, cached, loads>>
    BY <1>1 DEF Backend, pageVars
  <2> QED
    BY <2>1, <2>2 DEF ChatInv, PageInv
<1>2. ASSUME NEW r \in Requests, HandleStreaming(r) \/ HandleNormal(r) PROVE ChatInv'
  BY <1>2, SendKeeps
<1>8. ASSUME NEW r \in Requests, NEW s \in Named, NEW stream \in BOOLEAN, OtherPage(r, s, stream)
      PROVE  ChatInv'
  <2>1. AgentInv'
    BY <1>8, ReceiveAgent DEF OtherPage, ChatInv
  <2>2. UNCHANGED <<setup, topic, reading, db, published, rows, shown, current, cached, loads>>
    BY <1>8 DEF OtherPage, Receive, lifeVars, storeVars
  <2>3. QueueInv'
    BY <2>2, SameQueue DEF ChatInv
  <2> QED
    BY <2>1, <2>2, <2>3 DEF ChatInv, PageInv
<1>3. ASSUME NEW r \in Requests, ReadEvent(r) PROVE ChatInv'
  BY <1>3, EventKeeps
<1>4. CASE CreateNewSession \/ FetchSessions \/ \E s \in Sessions : SwitchSession(s)
  BY <1>4, MoveKeeps
<1>5. CASE GetChatHistory
  BY <1>5, HistoryKeeps
<1>6. CASE LoadReturns
  BY <1>6, LoadKeeps
<1>7. CASE UNCHANGED vars
  <2>1. /\ UNCHANGED <<setup, up, rows, memory, handler, topic, reading, db, since, published, raced>>
        /\ UNCHANGED <<shown, current, cached, loads>>
    BY <1>7 DEF vars, backVars, pageVars
  <2>2. PageInv'
    BY <2>1 DEF ChatInv, PageInv
  <2> QED
    BY <2>1, <2>2, PageOnly
<1> QED
  BY <1>1, <1>2, <1>3, <1>4, <1>5, <1>6, <1>7, <1>8 DEF Next

\* The invariant of the backend and its page: the queue adds up, the handlers know
\* their session's agent, and the page knows only sessions of the database.
THEOREM ChatInvAlways == Spec => []ChatInv
BY ChatInit, ChatNext, PTL DEF Spec

\* However many requests, crashes and retries: no copy of a message is stored twice
\* (kafka.go:57-68).
THEOREM NoMoreThanPublishedAlways == Spec => []NoMoreThanPublished
<1>1. ChatInv => NoMoreThanPublished
  BY DEF ChatInv, QueueInv
<1> QED
  BY <1>1, ChatInvAlways, PTL

\* However many requests and sessions: what the process has handed to the queue its
\* agents remember, except the messages that were added while another one was added to
\* their session, whose slices may overwrite each other (ai_agent.go:37-48).
THEOREM SavedIsRememberedAlways == Spec => []SavedIsRemembered
<1>1. ChatInv => SavedIsRemembered
  BY KeptRemembers DEF ChatInv, AgentInv
<1> QED
  BY <1>1, ChatInvAlways, PTL

-----------------------------------------------------------------------------
\* What the page shows, as long as nothing failed and the user did one thing at a time.

Open(r) == page[r].pc = "open"
Said(m) == [user |-> m.user, text |-> <<m.req>>]

\* Messages are sent in the order of the numbers of their requests, a question before
\* its answer.
RankOf(req, user) == 2 * req + (IF user THEN 0 ELSE 1)
Rank(x) == RankOf(x.text[1], x.user)

\* The messages of a list up to position n are, in order, some of those of an agent.
FitsUpTo(list, n, agent) ==
  /\ \A i \in 1 .. n : agent # None /\ \E m \in Elements(agent) : list[i] = Said(m)
  /\ \A i, j \in 1 .. n : i < j => Rank(list[i]) < Rank(list[j])
Fits(list, agent) == FitsUpTo(list, Len(list), agent)

EventKinds == {"sid", "chunk", "done", "eof", "ok"}

\* One request at a time, in order; a load only without one.
Turns ==
  /\ up /\ raced = {}
  /\ page \in [Requests -> [pc : {"idle", "open", "closed"}, temp : BOOLEAN,
                            session : Sessions \cup {None}, stream : BOOLEAN]]
  /\ temp \in BOOLEAN
  /\ wire \in [Requests -> Seq(EventKinds)]
  /\ \A q, r \in Requests : (page[q].pc # "idle" /\ page[r].pc = "idle") => q < r
  /\ \A q, r \in Requests : (Open(q) /\ Open(r)) => q = r
  /\ \A r \in Requests : page[r].pc = "idle" => handler[r].pc = "idle" /\ wire[r] = <<>>
  /\ \A r \in Requests : Works(r) => Open(r)
  /\ \A r \in Requests : Open(r) => loads = <<>>

Answering == {"model", "addA", "putA"}

\* Questions and answers take turns in the memory of an agent.
InOrder ==
  \A s \in Sessions : memory[s] # None =>
    /\ \A i \in DOMAIN memory[s] : /\ memory[s][i].user = (i % 2 = 1)
                                   /\ page[memory[s][i].req].pc # "idle"
    /\ \A i, j \in DOMAIN memory[s] : i < j =>
         RankOf(memory[s][i].req, memory[s][i].user) < RankOf(memory[s][j].req, memory[s][j].user)
    /\ Len(memory[s]) % 2 = 1 =>
         \E r \in Requests : handler[r].pc \in Answering /\ handler[r].session = s

\* Cached lists are of their session; a session without an agent is being made.
CachedFit ==
  \A s \in Sessions : cached[s] # None =>
    /\ Fits(cached[s], memory[s])
    /\ memory[s] # None \/ \E r \in Requests : Open(r) /\ handler[r].session = s

\* Nothing under way, or the history of the current session.
AtRest ==
  (\A r \in Requests : ~Open(r)) =>
    /\ temp => shown = <<>> /\ loads = <<>>
    /\ current # None => memory[current] # None
    /\ (current # None /\ loads = <<>>) => Fits(shown, memory[current])
    /\ loads # <<>> => /\ Len(loads) = 1 /\ current # None /\ loads[1].session = current
                       /\ loads[1].reply # None => loads[1].reply.ok /\ Fits(loads[1].reply.list, memory[current])

\* How far request r is in the backend: its question is there, its answer is there.
Heard(r) ==
  LET s == handler[r].session IN
  /\ handler[r].pc # "idle" /\ s # None /\ handler[r].stream = page[r].stream
  /\ handler[r].pc \in Answering => Len(memory[s]) % 2 = 1
  /\ handler[r].pc \in Answering \cup {"end", "over"} =>
       memory[s] # None /\ Msg(s, r, TRUE) \in Elements(memory[s])
  /\ handler[r].pc \in {"end", "over"} => Msg(s, r, FALSE) \in Elements(memory[s])
  /\ (handler[r].pc \in {"agent", "addQ", "putQ"} /\ memory[s] # None) =>
       \A m \in Elements(memory[s]) : m.req < r
  /\ handler[r].pc \in Answering =>
       \A m \in Elements(memory[s]) : m.req < r \/ (m.req = r /\ m.user)

\* What is on its way to the page: nothing after the end, one chunk, and before the end
\* of a stream what the page has not had yet.
OnItsWay(r) ==
  /\ \A i \in DOMAIN wire[r] :
       /\ page[r].stream <=> wire[r][i] # "ok"
       /\ wire[r][i] \in {"eof", "ok"} => i = Len(wire[r]) /\ handler[r].pc = "over"
       /\ wire[r][i] = "chunk" => shown[Len(shown)] = ByModel(<<>>)
  /\ \A i, j \in DOMAIN wire[r] : (wire[r][i] = "chunk" /\ wire[r][j] = "chunk") => i = j
  /\ page[r].stream =>
       IF handler[r].pc \in {"addA", "putA", "end", "over"}
       THEN (\E i \in DOMAIN wire[r] : wire[r][i] = "chunk") \/ shown[Len(shown)] = ByModel(<<r>>)
       ELSE shown[Len(shown)] = ByModel(<<>>) /\ \A i \in DOMAIN wire[r] : wire[r][i] # "chunk"
  /\ (page[r].stream /\ page[r].temp) =>
       (\E i \in DOMAIN wire[r] : wire[r][i] = "sid") \/ (current = handler[r].session /\ ~temp)

\* What the page shows of it: what it showed before, the question and, streamed, as much
\* of the answer as has come.
Before(r) == Len(shown) - (IF page[r].stream THEN 2 ELSE 1)
Displayed(r) ==
  /\ Before(r) >= 0 /\ shown[Before(r) + 1] = ByUser(r)
  /\ page[r].stream => shown[Len(shown)] \in {ByModel(<<>>), ByModel(<<r>>)}
  /\ FitsUpTo(shown, Before(r), memory[handler[r].session])
  /\ \A i \in 1 .. Before(r) : Rank(shown[i]) < RankOf(r, TRUE)
  /\ ~page[r].temp => current = handler[r].session /\ ~temp

Running(r) == Heard(r) /\ OnItsWay(r) /\ Displayed(r)

Calm ==
  /\ Turns /\ InOrder /\ CachedFit /\ AtRest
  /\ temp => current = None
  /\ \A r \in Requests : Open(r) => Running(r)

CalmInv == (~failed /\ ~overlap) => Calm

\* A list fits an agent that has remembered more, and one more message fits after those
\* that came before it.
LEMMA FitsGrows ==
  ASSUME NEW list, NEW n, NEW a, NEW b, FitsUpTo(list, n, a),
         a # None => b # None /\ Elements(a) \subseteq Elements(b)
  PROVE  FitsUpTo(list, n, b)
BY DEF FitsUpTo

LEMMA SaidIs ==
  ASSUME NEW m \in Messages
  PROVE  /\ Said(m).text[1] = m.req /\ Said(m).user = m.user /\ Len(Said(m).text) = 1
         /\ Rank(Said(m)) = RankOf(m.req, m.user)
         /\ RankOf(m.req, m.user) \in Nat
         /\ \A r \in Requests : m.req < r => RankOf(m.req, m.user) < RankOf(r, TRUE)
<1>1. m.req \in Nat /\ m.user \in BOOLEAN
  BY PageAssumption DEF Messages
<1>2. Said(m).text[1] = m.req /\ Said(m).user = m.user /\ Len(Said(m).text) = 1
  BY DEF Said
<1>3. RankOf(m.req, m.user) \in Nat
  BY <1>1 DEF RankOf
<1>4. \A r \in Requests : m.req < r => RankOf(m.req, m.user) < RankOf(r, TRUE)
  BY <1>1, PageAssumption DEF RankOf
<1> QED
  BY <1>2, <1>3, <1>4 DEF Rank

LEMMA FitsOneMore ==
  ASSUME NEW list, NEW n \in Nat, NEW a, FitsUpTo(list, n, a), a # None,
         NEW m \in Elements(a), list[n + 1] = Said(m),
         \A i \in 1 .. n : Rank(list[i]) < Rank(list[n + 1])
  PROVE  FitsUpTo(list, n + 1, a)
<1>1. \A i \in 1 .. n + 1 : i \in 1 .. n \/ i = n + 1
  OBVIOUS
<1>2. \A i \in 1 .. n + 1 : a # None /\ \E x \in Elements(a) : list[i] = Said(x)
  BY <1>1 DEF FitsUpTo
<1>3. ASSUME NEW i \in 1 .. n + 1, NEW j \in 1 .. n + 1, i < j PROVE Rank(list[i]) < Rank(list[j])
  <2>1. i \in 1 .. n /\ (j \in 1 .. n \/ j = n + 1)
    BY <1>3
  <2> QED
    BY <1>3, <2>1 DEF FitsUpTo
<1> QED
  BY <1>2, <1>3 DEF FitsUpTo

\* What ShownBelongs asks of a list, and what follows from the ranks.
LEMMA FitsBelongs ==
  ASSUME NEW s \in Sessions, memory[s] \in Seq(Messages), InOrder, memory[s] # None,
         NEW list \in Seq(ShownMsgs), Fits(list, memory[s])
  PROVE  /\ \A i \in DOMAIN list : \E j \in DOMAIN Expected(s) : list[i] = Expected(s)[j]
         /\ \A i, k \in DOMAIN list : \A j, l \in DOMAIN Expected(s) :
              (i < k /\ list[i] = Expected(s)[j] /\ list[k] = Expected(s)[l]) => j < l
<1> DEFINE mem == memory[s]
<1>1. /\ Len(mem) \in Nat /\ DOMAIN mem = 1 .. Len(mem) /\ \A j \in 1 .. Len(mem) : mem[j] \in Messages
      /\ Len(list) \in Nat /\ DOMAIN list = 1 .. Len(list)
  OBVIOUS
<1>2. DOMAIN Expected(s) = DOMAIN mem /\ \A j \in DOMAIN mem : Expected(s)[j] = Said(mem[j])
  BY DEF Expected, Said
<1>3. \A i, j \in DOMAIN mem : i < j => RankOf(mem[i].req, mem[i].user) < RankOf(mem[j].req, mem[j].user)
  BY DEF InOrder
<1>4. FitsUpTo(list, Len(list), mem)
  BY DEF Fits
<1> HIDE DEF mem
<1>5. \A i \in DOMAIN list : \E j \in DOMAIN Expected(s) : list[i] = Expected(s)[j]
  BY <1>1, <1>2, <1>4 DEF FitsUpTo, Elements
<1>6. ASSUME NEW i \in DOMAIN list, NEW k \in DOMAIN list, i < k,
             NEW j \in DOMAIN mem, NEW l \in DOMAIN mem, list[i] = Said(mem[j]), list[k] = Said(mem[l])
      PROVE  j < l
  <2>1. Rank(list[i]) < Rank(list[k])
    BY <1>1, <1>4, <1>6 DEF FitsUpTo
  <2>2. mem[j] \in Messages /\ mem[l] \in Messages
    BY <1>1
  <2>3. RankOf(mem[j].req, mem[j].user) < RankOf(mem[l].req, mem[l].user)
    BY <1>6, <2>1, <2>2, SaidIs
  <2>4. RankOf(mem[j].req, mem[j].user) \in Nat /\ RankOf(mem[l].req, mem[l].user) \in Nat
    BY <2>2, SaidIs
  <2>5. ~(l < j) /\ j # l
    BY <1>3, <2>3, <2>4
  <2> QED
    BY <1>1, <2>5
<1> QED
  BY <1>2, <1>5, <1>6

LEMMA CalmShows == ASSUME ChatInv, CalmInv PROVE ShownBelongs
<1> SUFFICES ASSUME ~failed, ~overlap, ~InFlight, current # None
             PROVE  /\ memory[current] # None
                    /\ LET e == Expected(current) IN
                       /\ \A i \in DOMAIN shown : \E j \in DOMAIN e : shown[i] = e[j]
                       /\ \A i, k \in DOMAIN shown : \A j, l \in DOMAIN e :
                            (i < k /\ shown[i] = e[j] /\ shown[k] = e[l]) => j < l
  BY Zenon DEF ShownBelongs
<1>1. Calm
  BY DEF CalmInv
<1>2. loads = <<>> /\ \A r \in Requests : ~Open(r)
  BY DEF InFlight, Open
<1>3. memory[current] # None /\ Fits(shown, memory[current])
  BY <1>1, <1>2 DEF Calm, AtRest
<1>4. current \in Sessions /\ memory[current] \in Seq(Messages) /\ shown \in Seq(ShownMsgs)
  BY <1>3 DEF ChatInv, PageInv, AgentInv, Agents, Named
<1>5. InOrder
  BY <1>1 DEF Calm
<1> QED
  BY <1>3, <1>4, <1>5, FitsBelongs, Zenon

\* A step that leaves alone what Calm speaks of.
LEMMA SameCalm ==
  ASSUME Calm, UNCHANGED <<up, raced, page, temp, wire, handler, loads, memory, cached, shown, current>>
  PROVE  Calm'
<1>1. Turns'
  BY DEF Calm, Turns, Works, Open
<1>2. InOrder'
  BY DEF Calm, InOrder
<1>3. CachedFit'
  BY DEF Calm, CachedFit, Open
<1>4. AtRest'
  BY Zenon DEF Calm, AtRest, Open
<1>5. ASSUME NEW r \in Requests, Open(r)' PROVE Running(r)'
  <2>1. Running(r)
    BY <1>5 DEF Calm, Open
  <2>2. Heard(r)'
    BY <2>1, Zenon DEF Running, Heard
  <2>3. OnItsWay(r)'
    BY <2>1, Zenon DEF Running, OnItsWay
  <2>4. Displayed(r)'
    BY <2>1, Zenon DEF Running, Displayed, Before
  <2> QED
    BY <2>2, <2>3, <2>4 DEF Running
<1> QED
  BY <1>1, <1>2, <1>3, <1>4, <1>5 DEF Calm

\* What is sent is shown at once.
LEMMA SendShows ==
  ASSUME NEW list \in Seq(ShownMsgs), NEW r \in Requests, NEW stream \in BOOLEAN, NEW new,
         new = list \o <<ByUser(r)>> \o (IF stream THEN <<ByModel(<<>>)>> ELSE <<>>)
  PROVE  /\ Len(list) \in Nat /\ Len(new) = Len(list) + (IF stream THEN 2 ELSE 1)
         /\ \A i \in 1 .. Len(list) : new[i] = list[i]
         /\ new[Len(list) + 1] = ByUser(r)
         /\ stream => new[Len(list) + 2] = ByModel(<<>>)
<1>1. ByUser(r) \in ShownMsgs /\ ByModel(<<>>) \in ShownMsgs
  BY DEF ByUser, ByModel, ShownMsgs
<1>2. PICK u \in ShownMsgs, b \in ShownMsgs : u = ByUser(r) /\ b = ByModel(<<>>)
  BY <1>1
<1>3. PICK one : one = list \o <<u>>
  OBVIOUS
<1>4. /\ one \in Seq(ShownMsgs) /\ Len(one) = Len(list) + 1 /\ Len(list) \in Nat
      /\ \A i \in 1 .. Len(list) : one[i] = list[i]
      /\ one[Len(list) + 1] = u
  BY <1>3
<1>5. CASE stream
  <2>1. new = one \o <<b>>
    BY <1>2, <1>3, <1>5
  <2>2. /\ Len(new) = Len(one) + 1 /\ new[Len(one) + 1] = b
        /\ \A i \in 1 .. Len(one) : new[i] = one[i]
    BY <1>4, <2>1
  <2>3. Len(list) + 1 \in 1 .. Len(one) /\ \A i \in 1 .. Len(list) : i \in 1 .. Len(one)
    BY <1>4
  <2>4. Len(one) + 1 = Len(list) + 2
    BY <1>4
  <2> QED
    BY <1>2, <1>4, <1>5, <2>2, <2>3, <2>4
<1>6. CASE ~stream
  <2>1. new = one \o <<>>
    BY <1>2, <1>3, <1>6
  <2>2. new = one
    BY <1>4, <2>1, ConcatEmptySeq
  <2> QED
    BY <1>2, <1>4, <1>6, <2>2
<1> QED
  BY <1>5, <1>6

LEMMA AgentIs ==
  ASSUME NEW agents \in Agents, NEW s \in Sessions, agents[s] # None
  PROVE  /\ agents[s] \in Seq(Messages) /\ Len(agents[s]) \in Nat /\ DOMAIN agents[s] = 1 .. Len(agents[s])
         /\ \A i \in DOMAIN agents[s] : /\ agents[s][i] \in Messages /\ agents[s][i].req \in Requests
                                        /\ agents[s][i].user \in BOOLEAN
         /\ Elements(agents[s]) \subseteq Messages
<1>1. agents[s] \in Seq(Messages)
  BY DEF Agents, Named
<1>2. Len(agents[s]) \in Nat /\ DOMAIN agents[s] = 1 .. Len(agents[s])
  BY <1>1
<1>3. \A i \in DOMAIN agents[s] : agents[s][i] \in Messages
  BY <1>1
<1>4. \A m \in Messages : m.req \in Requests /\ m.user \in BOOLEAN
  BY DEF Messages
<1> QED
  BY <1>1, <1>2, <1>3, <1>4 DEF Elements

\* A message is sent to session s, the current one or a new one, with nothing under way.
LEMMA SentCalm ==
  ASSUME ChatInv, Calm, NEW r \in Requests, NEW stream \in BOOLEAN, SendMessage(r, stream), ~overlap',
         NEW s \in Sessions, NEW h, NEW es \in {<<>>, <<"sid">>},
         handler' = [handler EXCEPT ![r] = h], h.pc = "agent", h.session = s, h.stream = stream,
         wire' = [wire EXCEPT ![r] = es], ~stream => es = <<>>,
         UNCHANGED <<up, raced, memory>>,
         \/ ~temp /\ s = current
         \/ temp /\ (stream => es = <<"sid">>)
  PROVE  Calm'
<1>0. /\ Turns /\ InOrder /\ CachedFit /\ AtRest /\ (temp => current = None)
      /\ handler \in [Requests -> HandlerStates] /\ memory \in Agents /\ shown \in Seq(ShownMsgs)
  BY DEF Calm, ChatInv, AgentInv, PageInv
<1>1. /\ page[r].pc = "idle" /\ loads = <<>> /\ \A q \in Requests : ~Open(q)
      /\ shown' = shown \o <<ByUser(r)>> \o (IF stream THEN <<ByModel(<<>>)>> ELSE <<>>)
      /\ page' = [page EXCEPT ![r] = [pc |-> "open", temp |-> temp, session |-> current, stream |-> stream]]
      /\ UNCHANGED <<current, temp, cached, loads>>
      /\ \A q \in Requests : page[q].pc = "idle" => r <= q
  BY DEF SendMessage, Acts, InFlight, Open
<1>2. /\ Len(shown) \in Nat /\ Len(shown') = Len(shown) + (IF stream THEN 2 ELSE 1)
      /\ \A i \in 1 .. Len(shown) : shown'[i] = shown[i]
      /\ shown'[Len(shown) + 1] = ByUser(r)
      /\ stream => shown'[Len(shown) + 2] = ByModel(<<>>)
  BY <1>0, <1>1, SendShows
<1>3. /\ page'[r].pc = "open" /\ page'[r].temp = temp /\ page'[r].stream = stream
      /\ \A q \in Requests : q # r => page'[q] = page[q]
      /\ handler'[r] = h /\ \A q \in Requests : q # r => handler'[q] = handler[q]
      /\ wire'[r] = es /\ \A q \in Requests : q # r => wire'[q] = wire[q]
  BY <1>0, <1>1 DEF Turns
<1>4. \A q \in Requests : Open(q)' <=> q = r
  BY <1>1, <1>3 DEF Open
<1>5. Turns'
  <2>1. es \in Seq(EventKinds)
    <3>1. <<>> \in Seq(EventKinds)
      OBVIOUS
    <3>2. <<"sid">> \in Seq(EventKinds)
      BY DEF EventKinds
    <3> QED
      BY <3>1, <3>2
  <2>2. wire' \in [Requests -> Seq(EventKinds)]
    BY <1>0, <2>1 DEF Turns
  <2>3. current \in Sessions \cup {None}
    BY DEF ChatInv, PageInv, AgentInv
  <2>4. [pc |-> "open", temp |-> temp, session |-> current, stream |-> stream]
          \in [pc : {"idle", "open", "closed"}, temp : BOOLEAN, session : Sessions \cup {None}, stream : BOOLEAN]
    BY <1>0, <2>3 DEF Turns
  <2>5. page' \in [Requests -> [pc : {"idle", "open", "closed"}, temp : BOOLEAN,
                                session : Sessions \cup {None}, stream : BOOLEAN]]
    BY <1>0, <1>1, <2>4 DEF Turns
  <2>6. \A p, q \in Requests : (page'[p].pc # "idle" /\ page'[q].pc = "idle") => p < q
    <3> SUFFICES ASSUME NEW p \in Requests, NEW q \in Requests, page'[p].pc # "idle", page'[q].pc = "idle"
                 PROVE  p < q
      OBVIOUS
    <3>1. q # r /\ page[q].pc = "idle"
      BY <1>3
    <3>2. CASE p = r
      BY <1>1, <3>1, <3>2, PageAssumption
    <3>3. CASE p # r
      BY <1>0, <1>3, <3>1, <3>3 DEF Turns
    <3> QED
      BY <3>2, <3>3
  <2>7. \A q \in Requests : page'[q].pc = "idle" => handler'[q].pc = "idle" /\ wire'[q] = <<>>
    BY <1>0, <1>3 DEF Turns
  <2>8. \A q \in Requests : Works(q)' => Open(q)'
    BY <1>0, <1>1, <1>3, <1>4 DEF Turns, Works
  <2> QED
    BY <1>0, <1>1, <1>4, <2>2, <2>5, <2>6, <2>7, <2>8 DEF Turns
<1>6. InOrder'
  <2> SUFFICES ASSUME NEW t \in Sessions, memory[t] # None
               PROVE  /\ \A i \in DOMAIN memory[t] : /\ memory[t][i].user = (i % 2 = 1)
                                                    /\ page'[memory[t][i].req].pc # "idle"
                      /\ \A i, j \in DOMAIN memory[t] : i < j =>
                           RankOf(memory[t][i].req, memory[t][i].user) < RankOf(memory[t][j].req, memory[t][j].user)
                      /\ Len(memory[t]) % 2 = 1 =>
                           \E q \in Requests : handler'[q].pc \in Answering /\ handler'[q].session = t
    BY Zenon DEF InOrder
  <2>1. \A q \in Requests : page[q].pc # "idle" => page'[q].pc # "idle"
    BY <1>3
  <2>2. \A i \in DOMAIN memory[t] : memory[t][i].req \in Requests
    BY <1>0, AgentIs
  <2>3. Len(memory[t]) % 2 # 1
    <3>1. \A q \in Requests : handler[q].pc \notin Answering
      BY <1>0, <1>1 DEF Turns, Works, Active, Answering
    <3> QED
      BY <1>0, <3>1 DEF InOrder
  <2> QED
    BY <1>0, <2>1, <2>2, <2>3 DEF InOrder
<1>7. CachedFit'
  BY <1>0, <1>1 DEF CachedFit
<1>8. AtRest'
  BY <1>4 DEF AtRest
<1>9. ASSUME memory[s] # None PROVE \A m \in Elements(memory[s]) : m.req < r /\ m \in Messages
  <2> SUFFICES ASSUME NEW i \in DOMAIN memory[s]
               PROVE  memory[s][i].req < r /\ memory[s][i] \in Messages
    BY DEF Elements
  <2>1. memory[s][i] \in Messages /\ memory[s][i].req \in Requests
    BY <1>0, <1>9, AgentIs
  <2>2. page[memory[s][i].req].pc # "idle"
    BY <1>0, <1>9 DEF InOrder
  <2> QED
    BY <1>0, <1>1, <2>1, <2>2 DEF Turns
<1>10. Heard(r)'
  <2>1. s # None
    BY ChatAssumption
  <2> QED
    BY <1>3, <1>9, <2>1 DEF Heard, Answering
<1>11. OnItsWay(r)'
  <2>1. \A i \in DOMAIN es : es[i] = "sid"
    OBVIOUS
  <2>2. es = <<"sid">> => \E i \in DOMAIN es : es[i] = "sid"
    OBVIOUS
  <2>3. stream => shown'[Len(shown')] = ByModel(<<>>)
    BY <1>2
  <2>4. DOMAIN es # {} => stream
    BY DEF ByModel
  <2> QED
    BY <1>1, <1>3, <2>1, <2>2, <2>3, <2>4 DEF OnItsWay
<1>12. Displayed(r)'
  <2>1. Before(r)' = Len(shown)
    BY <1>2, <1>3 DEF Before
  <2>2. FitsUpTo(shown, Len(shown), memory[s])
    <3>1. CASE temp
      <4>1. shown = <<>>
        BY <1>0, <1>1, <3>1 DEF AtRest
      <4> QED
        BY <4>1 DEF FitsUpTo
    <3>2. CASE ~temp
      <4>1. s = current /\ s # None
        BY <3>2, ChatAssumption
      <4> QED
        BY <1>0, <1>1, <4>1 DEF AtRest, Fits
    <3> QED
      BY <3>1, <3>2
  <2>3. FitsUpTo(shown', Len(shown), memory[s])
    BY <1>2, <2>2 DEF FitsUpTo
  <2>4. ASSUME NEW i \in 1 .. Len(shown) PROVE Rank(shown'[i]) < RankOf(r, TRUE)
    <3>1. PICK m \in Elements(memory[s]) : shown'[i] = Said(m) /\ memory[s] # None
      BY <2>3 DEF FitsUpTo
    <3>2. m.req < r /\ m \in Messages
      BY <1>9, <3>1
    <3> QED
      BY <3>1, <3>2, SaidIs
  <2>5. stream => shown'[Len(shown')] = ByModel(<<>>)
    BY <1>2
  <2>6. FitsUpTo(shown', Before(r)', memory'[handler'[r].session])
    BY <1>3, <2>1, <2>3
  <2>7. (page[r].stream => shown[Len(shown)] \in {ByModel(<<>>), ByModel(<<r>>)})'
    BY <1>3, <2>5
  <2>8. Before(r)' >= 0 /\ shown'[Before(r)' + 1] = ByUser(r)
    BY <1>2, <2>1
  <2>9. (~page[r].temp => current = handler[r].session /\ ~temp)'
    BY <1>1, <1>3
  <2>10. (\A i \in 1 .. Before(r) : Rank(shown[i]) < RankOf(r, TRUE))'
    BY <2>1, <2>4
  <2> QED
    BY <2>6, <2>7, <2>8, <2>9, <2>10 DEF Displayed
<1> QED
  BY <1>0, <1>1, <1>4, <1>5, <1>6, <1>7, <1>8, <1>10, <1>11, <1>12 DEF Calm, Running

LEMMA SendCalm ==
  ASSUME ChatInv, Calm, NEW r \in Requests, HandleStreaming(r) \/ HandleNormal(r), ~failed', ~overlap'
  PROVE  Calm'
<1>1. PICK stream \in BOOLEAN :
        /\ SendMessage(r, stream)
        /\ (temp /\ ReceiveNew(r, stream)) \/ (~temp /\ Receive(r, current, stream)) \/ Refuse(r)
  BY DEF HandleStreaming, HandleNormal, CreateStreamSessionAndSendMessage, ChatStreamSend,
         CreateSessionAndSendMessage, ChatSend
<1>2. /\ Turns /\ handler \in [Requests -> HandlerStates] /\ rows \subseteq Sessions
      /\ current \in rows \cup {None}
  BY DEF Calm, ChatInv, AgentInv, PageInv
<1>3. page[r].pc = "idle" /\ wire[r] = <<>> /\ \A q \in Requests : ~Open(q)
  BY <1>1, <1>2 DEF SendMessage, Acts, InFlight, Open, Turns
<1>4. ~Refuse(r)
  BY <1>2 DEF Refuse, Turns
<1>5. CASE temp /\ ReceiveNew(r, stream)
  <2>1. ~Fails(r, stream)
    BY DEF Fails
  <2>2. /\ rows # Sessions /\ UNCHANGED <<up, raced, memory>>
        /\ handler' = [handler EXCEPT ![r] = [@ EXCEPT !.pc = "agent", !.session = NewSession,
                                                       !.stream = stream, !.new = TRUE]]
        /\ Events(r, IF stream THEN <<"sid">> ELSE <<>>)
    BY <1>5, <2>1, Zenon DEF ReceiveNew, lifeVars
  <2>3. NewSession \in Sessions
    <3>1. \E s \in Sessions : s \notin rows
      BY <1>2, <2>2
    <3> QED
      BY <3>1 DEF NewSession
  <2> DEFINE h == [handler[r] EXCEPT !.pc = "agent", !.session = NewSession, !.stream = stream, !.new = TRUE]
             es == IF stream THEN <<"sid">> ELSE <<>>
  <2>4. h.pc = "agent" /\ h.session = NewSession /\ h.stream = stream
    BY <1>2 DEF HandlerStates
  <2>5. handler' = [handler EXCEPT ![r] = h]
    BY <1>2, <2>2
  <2>6. es \in {<<>>, <<"sid">>} /\ (~stream => es = <<>>) /\ (stream => es = <<"sid">>)
    OBVIOUS
  <2>7. wire' = [wire EXCEPT ![r] = es]
    <3>1. wire' = [wire EXCEPT ![r] = wire[r] \o es]
      BY <2>2 DEF Events
    <3>2. <<>> \o es = es
      <4>1. <<>> \o <<>> = <<>> /\ <<>> \o <<"sid">> = <<"sid">>
        OBVIOUS
      <4> QED
        BY <2>6, <4>1
    <3> QED
      BY <1>3, <3>1, <3>2
  <2> HIDE DEF h, es
  <2> QED
    BY <1>1, <1>5, <2>2, <2>3, <2>4, <2>5, <2>6, <2>7, SentCalm, Zenon
<1>6. CASE ~temp /\ Receive(r, current, stream)
  <2>1. current # None
    BY <1>1, <1>6 DEF SendMessage, Nowhere
  <2>2. /\ UNCHANGED <<up, wire, memory, raced>>
        /\ handler' = [handler EXCEPT ![r] = [@ EXCEPT !.pc = "agent", !.session = current, !.stream = stream]]
    BY <1>6 DEF Receive, lifeVars
  <2>4. current \in Sessions
    BY <1>2, <2>1
  <2> DEFINE h == [handler[r] EXCEPT !.pc = "agent", !.session = current, !.stream = stream]
  <2>5. h.pc = "agent" /\ h.session = current /\ h.stream = stream
    BY <1>2 DEF HandlerStates
  <2>6. handler' = [handler EXCEPT ![r] = h]
    BY <1>2, <2>2
  <2>7. wire' = [wire EXCEPT ![r] = <<>>]
    BY <1>2, <1>3, <2>2 DEF Turns
  <2> HIDE DEF h
  <2>8. PICK es \in {<<>>, <<"sid">>} : es = <<>>
    OBVIOUS
  <2>9. PICK s \in Sessions : s = current
    BY <2>4
  <2>10. /\ h.session = s /\ wire' = [wire EXCEPT ![r] = es] /\ (~stream => es = <<>>)
         /\ ~temp /\ s = current /\ SendMessage(r, stream) /\ UNCHANGED <<up, raced, memory>>
    BY <1>1, <1>6, <2>2, <2>5, <2>7, <2>8, <2>9
  <2> QED
    BY <2>5, <2>6, <2>10, SentCalm
<1> QED
  BY <1>1, <1>4, <1>5, <1>6

\* The backend works on the request under way: what its steps have in common.
LEMMA HandleFrame ==
  ASSUME ChatInv, Calm, NEW r \in Requests, Open(r), NEW h, NEW w \in Seq(EventKinds),
         handler' = [handler EXCEPT ![r] = h], h.session = handler[r].session, h.pc # "idle",
         wire' = [wire EXCEPT ![r] = w], UNCHANGED <<pageVars, up, raced>>,
         \A s \in Sessions : memory[s] # None => memory'[s] # None /\ Elements(memory[s]) \subseteq Elements(memory'[s])
  PROVE  /\ Turns' /\ CachedFit' /\ AtRest' /\ (temp => current = None)' /\ Displayed(r)'
         /\ \A q \in Requests : Open(q)' => q = r
         /\ handler'[r] = h /\ wire'[r] = w /\ \A q \in Requests : q # r => handler'[q] = handler[q]
<1>0. /\ Turns /\ CachedFit /\ AtRest /\ (temp => current = None) /\ Displayed(r) /\ Heard(r)
      /\ handler \in [Requests -> HandlerStates]
  BY DEF Calm, ChatInv, AgentInv, Running
<1>1. UNCHANGED <<shown, current, temp, cached, page, loads>>
  BY DEF pageVars
<1>2. /\ handler'[r] = h /\ \A q \in Requests : q # r => handler'[q] = handler[q]
      /\ wire'[r] = w /\ \A q \in Requests : q # r => wire'[q] = wire[q]
      /\ wire' \in [Requests -> Seq(EventKinds)]
  BY <1>0 DEF Turns
<1>3. /\ \A q \in Requests : Open(q)' <=> Open(q)
      /\ \A q \in Requests : Open(q) => q = r
  BY <1>0, <1>1 DEF Open, Turns
<1>4. Turns'
  <2>1. \A q \in Requests : page[q].pc = "idle" => q # r
    BY DEF Open
  <2>2. \A q \in Requests : page'[q].pc = "idle" => handler'[q].pc = "idle" /\ wire'[q] = <<>>
    BY <1>0, <1>1, <1>2, <2>1 DEF Turns
  <2>3. \A q \in Requests : Works(q)' => Open(q)'
    BY <1>0, <1>2, <1>3 DEF Turns, Works
  <2> QED
    BY <1>0, <1>1, <1>2, <1>3, <2>2, <2>3 DEF Turns
<1>5. CachedFit'
  <2> SUFFICES ASSUME NEW s \in Sessions, cached[s] # None
               PROVE  /\ Fits(cached[s], memory'[s])
                      /\ memory'[s] # None \/ \E q \in Requests : Open(q)' /\ handler'[q].session = s
    BY <1>1 DEF CachedFit
  <2>1. Fits(cached[s], memory'[s])
    BY <1>0, FitsGrows DEF CachedFit, Fits
  <2>2. \A q \in Requests : handler'[q].session = handler[q].session
    BY <1>2
  <2> QED
    BY <1>0, <1>3, <2>1, <2>2 DEF CachedFit
<1>6. AtRest'
  BY <1>3 DEF AtRest
<1>7. Displayed(r)'
  <2>1. handler[r].session \in Sessions
    BY <1>0 DEF Heard, HandlerStates, Named
  <2>2. FitsUpTo(shown, Before(r), memory'[handler[r].session])
    BY <1>0, <2>1, FitsGrows DEF Displayed
  <2>3. Before(r)' = Before(r)
    BY <1>1 DEF Before
  <2>4. FitsUpTo(shown', Before(r)', memory'[handler'[r].session])
    BY <1>1, <1>2, <2>2, <2>3
  <2>5. (/\ Before(r) >= 0 /\ shown[Before(r) + 1] = ByUser(r)
         /\ page[r].stream => shown[Len(shown)] \in {ByModel(<<>>), ByModel(<<r>>)})'
    BY <1>0, <1>1, <2>3, Zenon DEF Displayed
  <2>6. (~page[r].temp => current = handler[r].session /\ ~temp)'
    BY <1>0, <1>1, <1>2 DEF Displayed
  <2>7. (\A i \in 1 .. Before(r) : Rank(shown[i]) < RankOf(r, TRUE))'
    BY <1>0, <1>1, <2>3 DEF Displayed
  <2> QED
    BY <2>4, <2>5, <2>6, <2>7 DEF Displayed
<1> QED
  BY <1>0, <1>1, <1>2, <1>3, <1>4, <1>5, <1>6, <1>7

LEMMA StepInOrder ==
  ASSUME ChatInv, Calm, NEW r \in Requests, Open(r), NEW h,
         handler' = [handler EXCEPT ![r] = h], h.session = handler[r].session,
         handler[r].pc \in Answering => h.pc \in Answering, UNCHANGED page,
         \A s \in Sessions : memory'[s] = memory[s] \/ memory'[s] = <<>>
  PROVE  InOrder'
<1>0. Turns /\ InOrder /\ handler \in [Requests -> HandlerStates]
  BY DEF Calm, ChatInv, AgentInv
<1>1. handler'[r] = h /\ \A q \in Requests : q # r => handler'[q] = handler[q]
  BY <1>0
<1>2. ASSUME NEW q \in Requests, handler[q].pc \in Answering
      PROVE  handler'[q].pc \in Answering /\ handler'[q].session = handler[q].session
  BY <1>1, <1>2
<1> SUFFICES ASSUME NEW s \in Sessions, memory'[s] # None
             PROVE  /\ \A i \in DOMAIN memory'[s] : /\ memory'[s][i].user = (i % 2 = 1)
                                                   /\ page[memory'[s][i].req].pc # "idle"
                    /\ \A i, j \in DOMAIN memory'[s] : i < j =>
                         RankOf(memory'[s][i].req, memory'[s][i].user) < RankOf(memory'[s][j].req, memory'[s][j].user)
                    /\ Len(memory'[s]) % 2 = 1 =>
                         \E q \in Requests : handler'[q].pc \in Answering /\ handler'[q].session = s
  BY DEF InOrder
<1>3. CASE memory'[s] = memory[s]
  <2>1. Len(memory'[s]) % 2 = 1 => \E q \in Requests : handler[q].pc \in Answering /\ handler[q].session = s
    BY <1>0, <1>3 DEF InOrder
  <2>2. Len(memory'[s]) % 2 = 1 => \E q \in Requests : handler'[q].pc \in Answering /\ handler'[q].session = s
    BY <1>2, <2>1
  <2>3. PICK list : list = memory[s]
    OBVIOUS
  <2>4. /\ \A i \in DOMAIN list : list[i].user = (i % 2 = 1) /\ page[list[i].req].pc # "idle"
        /\ \A i, j \in DOMAIN list : i < j => RankOf(list[i].req, list[i].user) < RankOf(list[j].req, list[j].user)
    BY <1>0, <1>3, <2>3, Zenon DEF InOrder
  <2>5. memory'[s] = list
    BY <1>3, <2>3
  <2> QED
    BY <2>2, <2>4, <2>5, Zenon
<1>4. CASE memory'[s] = <<>>
  <2>1. DOMAIN memory'[s] = {} /\ Len(memory'[s]) = 0
    BY <1>4
  <2> QED
    BY <2>1
<1> QED
  BY <1>3, <1>4

\* Nothing is sent to the page in this step.
LEMMA NothingSent ==
  ASSUME NEW r \in Requests, OnItsWay(r), UNCHANGED <<page, shown, current, temp>>, wire'[r] = wire[r],
         handler[r].pc # "over", handler'[r].session = handler[r].session,
         handler[r].pc \in {"addA", "putA", "end", "over"} <=> handler'[r].pc \in {"addA", "putA", "end", "over"}
  PROVE  OnItsWay(r)'
<1>1. \A i \in DOMAIN wire[r] : wire[r][i] \notin {"eof", "ok"}
  BY DEF OnItsWay
<1>2. (\A i \in DOMAIN wire[r] :
         /\ page[r].stream <=> wire[r][i] # "ok"
         /\ wire[r][i] \in {"eof", "ok"} => i = Len(wire[r]) /\ handler[r].pc = "over"
         /\ wire[r][i] = "chunk" => shown[Len(shown)] = ByModel(<<>>))'
  BY <1>1 DEF OnItsWay
<1>3. (\A i, j \in DOMAIN wire[r] : (wire[r][i] = "chunk" /\ wire[r][j] = "chunk") => i = j)'
  BY DEF OnItsWay
<1>4. (page[r].stream =>
       IF handler[r].pc \in {"addA", "putA", "end", "over"}
       THEN (\E i \in DOMAIN wire[r] : wire[r][i] = "chunk") \/ shown[Len(shown)] = ByModel(<<r>>)
       ELSE shown[Len(shown)] = ByModel(<<>>) /\ \A i \in DOMAIN wire[r] : wire[r][i] # "chunk")'
  BY DEF OnItsWay
<1>5. ((page[r].stream /\ page[r].temp) =>
         (\E i \in DOMAIN wire[r] : wire[r][i] = "sid") \/ (current = handler[r].session /\ ~temp))'
  BY DEF OnItsWay
<1> QED
  BY <1>2, <1>3, <1>4, <1>5 DEF OnItsWay

\* The agent is there, or is made: the first two stages.
LEMMA AgentCalm ==
  ASSUME ChatInv, Calm, NEW r \in Requests, GetOrCreateAIAgent(r), UNCHANGED pageVars, ~failed'
  PROVE  Calm'
<1> DEFINE s == handler[r].session
           h == [handler[r] EXCEPT !.pc = "addQ"]
<1>0. /\ Turns /\ InOrder /\ handler \in [Requests -> HandlerStates] /\ memory \in Agents
  BY DEF Calm, ChatInv, AgentInv
<1>1. /\ handler[r].pc = "agent" /\ UNCHANGED <<up, raced, wire>>
      /\ memory' = [memory EXCEPT ![s] = IF @ = None THEN NewAIAgent ELSE @]
      /\ Goto(r, "addQ")
  BY DEF GetOrCreateAIAgent, Fails, At, lifeVars
<1>2. Open(r) /\ Running(r)
  BY <1>0, <1>1 DEF Turns, Works, Active, Calm
<1>3. s \in Sessions
  BY <1>0, <1>2 DEF Running, Heard, HandlerStates, Named
<1>4. h.pc = "addQ" /\ h.session = s /\ h.stream = handler[r].stream /\ handler' = [handler EXCEPT ![r] = h]
  BY <1>0, <1>1 DEF Goto, HandlerStates
<1>5. /\ memory'[s] = IF memory[s] = None THEN <<>> ELSE memory[s]
      /\ \A t \in Sessions : t # s => memory'[t] = memory[t]
  BY <1>0, <1>1, <1>3 DEF NewAIAgent, Agents, Named
<1>6. Elements(<<>>) = {}
  BY DEF Elements
<1>7. wire[r] \in Seq(EventKinds) /\ wire' = [wire EXCEPT ![r] = wire[r]]
  BY <1>0, <1>1 DEF Turns
<1>8. UNCHANGED <<page, shown, current, temp>>
  BY DEF pageVars
<1> HIDE DEF h
<1>9. \A t \in Sessions : memory[t] # None => memory'[t] # None /\ Elements(memory[t]) \subseteq Elements(memory'[t])
  BY <1>5
<1>10. \A t \in Sessions : memory'[t] = memory[t] \/ memory'[t] = <<>>
  BY <1>5
<1> HIDE DEF s
<1>11. /\ Turns' /\ CachedFit' /\ AtRest' /\ (temp => current = None)' /\ Displayed(r)'
       /\ \A q \in Requests : Open(q)' => q = r
       /\ handler'[r] = h /\ wire'[r] = wire[r]
  BY <1>1, <1>2, <1>4, <1>7, <1>9, HandleFrame DEF s
<1>12. InOrder'
  BY <1>1, <1>2, <1>4, <1>8, <1>10, StepInOrder DEF s, Answering
<1>13. Heard(r)'
  <2>1. memory'[s] # None => \A m \in Elements(memory'[s]) : m.req < r
    BY <1>1, <1>2, <1>5, <1>6 DEF Running, Heard, s
  <2>2. s # None /\ h.stream = page[r].stream
    BY <1>2, <1>4 DEF Running, Heard, s
  <2> QED
    BY <1>4, <1>8, <1>11, <2>1, <2>2 DEF Heard, Answering
<1>14. OnItsWay(r)'
  BY <1>1, <1>2, <1>4, <1>8, <1>11, NothingSent DEF Running, s
<1> QED
  BY <1>11, <1>12, <1>13, <1>14 DEF Calm, Running

\* AddMessage takes the slice.
LEMMA AddReadCalm ==
  ASSUME ChatInv, Calm, NEW r \in Requests, NEW pc, NEW next, AddRead(r, pc, next), UNCHANGED pageVars,
         (pc = "addQ" /\ next = "putQ") \/ (pc = "addA" /\ next = "putA")
  PROVE  Calm'
<1> DEFINE s == handler[r].session
           h == [handler[r] EXCEPT !.pc = next, !.seen = memory[s]]
<1>0. /\ Turns /\ InOrder /\ handler \in [Requests -> HandlerStates] /\ memory \in Agents
  BY DEF Calm, ChatInv, AgentInv
<1>5. handler[r].pc = pc
  BY DEF AddRead, At
<1>2. Open(r) /\ Running(r)
  BY <1>0, <1>5 DEF Turns, Works, Active, Calm
<1>6. Appending(s) = {}
  <2> SUFFICES ASSUME NEW q \in Requests, handler[q].pc \in {"putQ", "putA"} PROVE FALSE
    BY DEF Appending
  <2>1. Works(q) /\ Works(r)
    BY <1>5 DEF Works, Active
  <2>2. q = r
    BY <1>0, <2>1 DEF Turns
  <2> QED
    BY <2>2, <1>5
<1>1. /\ UNCHANGED <<up, raced, wire, memory>> /\ handler[r].pc = pc
      /\ handler' = [handler EXCEPT ![r] = h]
  BY <1>0, <1>5, <1>6 DEF AddRead, lifeVars
<1>3. s \in Sessions
  BY <1>0, <1>2 DEF Running, Heard, HandlerStates, Named
<1>4. h.pc = next /\ h.session = s /\ h.stream = handler[r].stream
  BY <1>0 DEF HandlerStates
<1>7. wire[r] \in Seq(EventKinds) /\ wire' = [wire EXCEPT ![r] = wire[r]]
  BY <1>0, <1>1 DEF Turns
<1>8. UNCHANGED <<page, shown, current, temp>>
  BY DEF pageVars
<1> HIDE DEF h, s
<1>11. /\ Turns' /\ CachedFit' /\ AtRest' /\ (temp => current = None)' /\ Displayed(r)'
       /\ \A q \in Requests : Open(q)' => q = r
       /\ handler'[r] = h /\ wire'[r] = wire[r]
  BY <1>1, <1>2, <1>4, <1>7, HandleFrame DEF s
<1>12. InOrder'
  BY <1>1, <1>2, <1>4, <1>8, StepInOrder DEF s, Answering
<1>13. Heard(r)'
  BY <1>1, <1>2, <1>4, <1>8, <1>11 DEF Heard, Answering, Running, s
<1>14. OnItsWay(r)'
  BY <1>1, <1>2, <1>4, <1>8, <1>11, NothingSent DEF Running, s
<1> QED
  BY <1>11, <1>12, <1>13, <1>14 DEF Calm, Running

\* One more message, after those before it.
ItsTurn(i) == i % 2 = 1
InTurns(list) ==
  /\ \A i \in DOMAIN list : list[i].user = ItsTurn(i)
  /\ \A i, j \in DOMAIN list : i < j => RankOf(list[i].req, list[i].user) < RankOf(list[j].req, list[j].user)

LEMMA OneMore ==
  ASSUME NEW list \in Seq(Messages), NEW m \in Messages, InTurns(list), m.user = ItsTurn(Len(list) + 1),
         \A x \in Elements(list) : RankOf(x.req, x.user) < RankOf(m.req, m.user)
  PROVE  /\ Len(list) \in Nat /\ Len(Append(list, m)) = Len(list) + 1
         /\ Elements(Append(list, m)) = Elements(list) \cup {m} /\ InTurns(Append(list, m))
<1> PICK new : new = Append(list, m)
  OBVIOUS
<1> DEFINE n == Len(list)
<1>1. n \in Nat /\ DOMAIN list = 1 .. n
  OBVIOUS
<1>2. /\ DOMAIN new = 1 .. n + 1 /\ new[n + 1] = m /\ Len(new) = n + 1
      /\ \A i \in 1 .. n : new[i] = list[i]
  BY AppendProperties
<1> HIDE DEF n
<1>3. \A i \in DOMAIN new : i \in 1 .. n \/ i = n + 1
  BY <1>1, <1>2
<1>4. 1 .. n \subseteq DOMAIN new /\ n + 1 \in DOMAIN new
  BY <1>1, <1>2
<1>5. Elements(new) = Elements(list) \cup {m}
  <2>1. Elements(new) \subseteq Elements(list) \cup {m}
    BY <1>1, <1>2, <1>3 DEF Elements
  <2>2. Elements(list) \cup {m} \subseteq Elements(new)
    BY <1>1, <1>2, <1>4 DEF Elements
  <2> QED
    BY <2>1, <2>2
<1>6. \A i \in DOMAIN new : new[i].user = ItsTurn(i)
  <2> SUFFICES ASSUME NEW i \in DOMAIN new PROVE new[i].user = ItsTurn(i)
    OBVIOUS
  <2>1. CASE i \in 1 .. n
    BY <1>1, <1>2, <2>1, Zenon DEF InTurns
  <2>2. CASE i = n + 1
    BY <1>2, <2>2, Zenon DEF n
  <2> QED
    BY <1>3, <2>1, <2>2
<1>7. ASSUME NEW i \in DOMAIN new, NEW j \in DOMAIN new, i < j
      PROVE  RankOf(new[i].req, new[i].user) < RankOf(new[j].req, new[j].user)
  <2>1. i \in 1 .. n /\ new[i] = list[i] /\ list[i] \in Elements(list)
    BY <1>1, <1>2, <1>3, <1>7 DEF Elements
  <2>2. CASE j \in 1 .. n
    BY <1>1, <1>2, <1>7, <2>1, <2>2 DEF InTurns
  <2>3. CASE j = n + 1
    BY <1>2, <2>1, <2>3
  <2> QED
    BY <1>3, <2>2, <2>3
<1> QED
  BY <1>1, <1>2, <1>5, <1>6, <1>7 DEF n, InTurns

\* AddMessage writes it back: a question after an answer, an answer after its question.
LEMMA AddWriteCalm ==
  ASSUME ChatInv, Calm, NEW r \in Requests, NEW pc, NEW user \in BOOLEAN, NEW next,
         AddWrite(r, pc, user, next), UNCHANGED pageVars,
         (pc = "putQ" /\ user /\ next = "model") \/ (pc = "putA" /\ ~user /\ next = "end")
  PROVE  Calm'
<1> DEFINE s == handler[r].session
           m == Msg(s, r, user)
           old == memory[s]
           new == Append(handler[r].seen, m)
           h == [handler[r] EXCEPT !.pc = next, !.seen = <<>>]
<1>0. /\ Turns /\ InOrder /\ handler \in [Requests -> HandlerStates] /\ memory \in Agents /\ Placed(r)
  BY DEF Calm, ChatInv, AgentInv
<1>1. /\ handler[r].pc = pc /\ UNCHANGED <<up, raced, wire>>
      /\ handler' = [handler EXCEPT ![r] = h]
  BY <1>0 DEF AddWrite, At, lifeVars
<1>w1. /\ Puts(r) /\ m \in Messages /\ m = Pending(r) /\ s \in Named
       /\ handler[r].seen \in Seq(Messages) /\ Written(r, m)
  <2>1. PICK pc1 \in {"putQ", "putA"}, next1 \in {"model", "end"} : pc1 = pc /\ next1 = next
    OBVIOUS
  <2>2. AddWrite(r, pc1, user, next1) /\ user = (pc1 = "putQ")
    BY <2>1
  <2>3. AgentInv
    BY DEF ChatInv
  <2> QED
    BY <2>2, <2>3, WriteIs, Zenon
<1>w2. AddsAlone(r)
  BY <1>0, <1>w1 DEF Turns, ChatInv, AgentInv, UnracedAlone
<1>2. Open(r) /\ Running(r) /\ Works(r)
  BY <1>0, <1>1 DEF Turns, Works, Active, Calm
<1>3. s \in Sessions /\ s # None
  BY <1>0, <1>2 DEF Running, Heard, HandlerStates, Named
<1>4. h.pc = next /\ h.session = s /\ h.stream = handler[r].stream
  BY <1>0 DEF HandlerStates
<1>5. old # None /\ handler[r].seen = old
  BY <1>0, <1>1, <1>2, <1>w2 DEF Placed, AddsAlone
<1>6. old \in Seq(Messages)
  BY <1>0, <1>3, <1>5 DEF Agents, Named
<1>7. m \in Messages /\ m.req = r /\ m.user = user
  BY <1>3 DEF Msg, Messages, Named
<1>8. new = Append(old, m)
  BY <1>5
<1>9. UNCHANGED <<page, shown, current, temp>>
  BY DEF pageVars
<1>10. wire[r] \in Seq(EventKinds) /\ wire' = [wire EXCEPT ![r] = wire[r]]
  BY <1>0, <1>1 DEF Turns
<1>11. memory'[s] = new /\ \A t \in Sessions : t # s => memory'[t] = memory[t]
  <2>1. memory'[s] = new
    BY <1>w1, <1>w2, AloneWrites DEF ChatInv
  <2>2. \A t \in Named : t # s => memory'[t] = memory[t]
    BY <1>w1 DEF Written
  <2> QED
    BY <2>1, <2>2 DEF Named
<1> HIDE DEF h, new
<1>12. \A q \in Requests : handler[q].pc \in Answering => q = r
  BY <1>0, <1>2 DEF Turns, Works, Answering, Active
<1>13. Heard(r)
  BY <1>2 DEF Running
<1>14. Len(old) \in Nat /\ (user <=> Len(old) % 2 # 1)
  <2>0. Len(old) \in Nat
    BY <1>6
  <2>1. CASE pc = "putQ" /\ user
    <3>1. Len(old) % 2 # 1
      BY <1>0, <1>1, <1>3, <1>5, <1>12, <2>1 DEF InOrder, Answering
    <3> QED
      BY <2>0, <2>1, <3>1, Zenon
  <2>2. CASE pc = "putA" /\ ~user
    <3>1. Len(old) % 2 = 1
      BY <1>1, <1>13, <2>2 DEF Heard, Answering
    <3> QED
      BY <2>0, <2>2, <3>1, Zenon
  <2> QED
    BY <2>1, <2>2
<1>15. m.user = ((Len(old) + 1) % 2 = 1)
  <2>1. PICK n \in Nat : n = Len(old)
    BY <1>14
  <2>2. (n + 1) % 2 = 1 <=> n % 2 # 1
    OBVIOUS
  <2> QED
    BY <1>7, <1>14, <2>1, <2>2, Zenon
<1>16. ASSUME NEW x \in Elements(old) PROVE x \in Messages /\ RankOf(x.req, x.user) < RankOf(m.req, m.user)
  <2>1. x \in Messages
    BY <1>6 DEF Elements
  <2>2. CASE pc = "putQ" /\ user
    <3>1. x.req < r
      BY <1>1, <1>5, <1>13, <2>2 DEF Heard
    <3>2. m.user = TRUE
      BY <1>7, <2>2
    <3> QED
      BY <1>7, <2>1, <3>1, <3>2, SaidIs
  <2>3. CASE pc = "putA" /\ ~user
    <3>1. x.req < r \/ (x.req = r /\ x.user)
      BY <1>1, <1>5, <1>13, <2>3 DEF Heard, Answering
    <3>2. m.user = FALSE /\ x.user \in BOOLEAN /\ x.req \in Nat /\ r \in Nat
      BY <1>7, <2>1, <2>3, PageAssumption DEF Messages
    <3> QED
      BY <1>7, <2>1, <3>1, <3>2 DEF RankOf
  <2> QED
    BY <2>1, <2>2, <2>3
<1>17. /\ \A i \in DOMAIN old : old[i].user = (i % 2 = 1) /\ page[old[i].req].pc # "idle"
       /\ \A i, j \in DOMAIN old : i < j => RankOf(old[i].req, old[i].user) < RankOf(old[j].req, old[j].user)
  BY <1>0, <1>3, <1>5, Zenon DEF InOrder
<1> HIDE DEF old, m
<1>18. /\ Len(new) = Len(old) + 1 /\ Elements(new) = Elements(old) \cup {m}
       /\ \A i \in DOMAIN new : new[i].user = (i % 2 = 1)
       /\ \A i, j \in DOMAIN new : i < j => RankOf(new[i].req, new[i].user) < RankOf(new[j].req, new[j].user)
  <2>1. InTurns(old)
    BY <1>17, Zenon DEF InTurns, ItsTurn
  <2>2. \A x \in Elements(old) : RankOf(x.req, x.user) < RankOf(m.req, m.user)
    BY <1>16
  <2>3. m.user = ItsTurn(Len(old) + 1)
    BY <1>15, Zenon DEF ItsTurn
  <2>4. Len(new) = Len(old) + 1 /\ Elements(new) = Elements(old) \cup {m} /\ InTurns(new)
    BY <1>6, <1>7, <1>8, <2>1, <2>2, <2>3, OneMore
  <2> QED
    BY <2>4, Zenon DEF InTurns, ItsTurn
<1>19. new \in Seq(Messages) /\ new # None
  <2>1. new \in Seq(Messages)
    BY <1>6, <1>7, <1>8, AppendProperties
  <2> QED
    BY <2>1, ChatAssumption
<1>20. \A t \in Sessions : memory[t] # None => memory'[t] # None /\ Elements(memory[t]) \subseteq Elements(memory'[t])
  BY <1>11, <1>18, <1>19 DEF old
<1>21. h.session = handler[r].session /\ h.pc # "idle"
  BY <1>4
<1>22. /\ Turns' /\ CachedFit' /\ AtRest' /\ (temp => current = None)' /\ Displayed(r)'
       /\ \A q \in Requests : Open(q)' => q = r
       /\ handler'[r] = h /\ wire'[r] = wire[r] /\ \A q \in Requests : q # r => handler'[q] = handler[q]
  BY <1>1, <1>2, <1>10, <1>20, <1>21, HandleFrame
<1> HIDE DEF s
<1>23. InOrder'
  <2> SUFFICES ASSUME NEW t \in Sessions, memory'[t] # None
               PROVE  /\ \A i \in DOMAIN memory'[t] : /\ memory'[t][i].user = (i % 2 = 1)
                                                     /\ page[memory'[t][i].req].pc # "idle"
                      /\ \A i, j \in DOMAIN memory'[t] : i < j =>
                           RankOf(memory'[t][i].req, memory'[t][i].user) < RankOf(memory'[t][j].req, memory'[t][j].user)
                      /\ Len(memory'[t]) % 2 = 1 =>
                           \E q \in Requests : handler'[q].pc \in Answering /\ handler'[q].session = t
    BY <1>9 DEF InOrder
  <2>1. CASE t = s
    <3>1. ASSUME NEW i \in DOMAIN new PROVE page[new[i].req].pc # "idle"
      <4>1. new[i] \in Elements(old) \cup {m}
        BY <1>18 DEF Elements
      <4>2. CASE new[i] = m
        BY <1>2, <1>7, <4>2 DEF Open
      <4>3. CASE new[i] \in Elements(old)
        BY <1>17, <4>3 DEF Elements
      <4> QED
        BY <4>1, <4>2, <4>3
    <3>2. Len(new) % 2 = 1 => handler'[r].pc \in Answering /\ handler'[r].session = s
      <4>1. Len(new) % 2 = 1 => user
        BY <1>14, <1>18
      <4> QED
        BY <1>4, <1>22, <4>1 DEF Answering
    <3>3. memory'[t] = new
      BY <1>11, <2>1
    <3>4. Len(new) % 2 = 1 => \E q \in Requests : handler'[q].pc \in Answering /\ handler'[q].session = t
      BY <2>1, <3>2
    <3> QED
      BY <1>18, <3>1, <3>3, <3>4, Zenon
  <2>2. CASE t # s
    <3>1. PICK list : list = memory[t]
      OBVIOUS
    <3>2. memory'[t] = list /\ memory[t] # None
      BY <1>11, <2>2, <3>1
    <3>3. /\ \A i \in DOMAIN list : list[i].user = (i % 2 = 1) /\ page[list[i].req].pc # "idle"
          /\ \A i, j \in DOMAIN list : i < j => RankOf(list[i].req, list[i].user) < RankOf(list[j].req, list[j].user)
          /\ Len(list) % 2 = 1 => \E q \in Requests : handler[q].pc \in Answering /\ handler[q].session = t
      <4>1. /\ \A i \in DOMAIN memory[t] : memory[t][i].user = (i % 2 = 1) /\ page[memory[t][i].req].pc # "idle"
            /\ \A i, j \in DOMAIN memory[t] : i < j =>
                 RankOf(memory[t][i].req, memory[t][i].user) < RankOf(memory[t][j].req, memory[t][j].user)
            /\ Len(memory[t]) % 2 = 1 => \E q \in Requests : handler[q].pc \in Answering /\ handler[q].session = t
        BY <1>0, <3>2, Zenon DEF InOrder
      <4> QED
        BY <3>1, <4>1, Zenon
    <3>4. ~(Len(list) % 2 = 1)
      BY <1>12, <2>2, <3>3 DEF s
    <3> QED
      BY <3>2, <3>3, <3>4, Zenon
  <2> QED
    BY <2>1, <2>2
<1>24. Heard(r)'
  <2>1. handler'[r].pc = next /\ handler'[r].session = s /\ handler'[r].stream = page'[r].stream
    BY <1>4, <1>9, <1>13, <1>22 DEF Heard
  <2>2. memory'[s] = new /\ new # None /\ m \in Elements(new)
    BY <1>11, <1>18, <1>19
  <2>3. next = "end" => Msg(s, r, TRUE) \in Elements(new) /\ Msg(s, r, FALSE) \in Elements(new)
    <3> SUFFICES ASSUME next = "end" PROVE Msg(s, r, TRUE) \in Elements(new) /\ Msg(s, r, FALSE) \in Elements(new)
      OBVIOUS
    <3>1. pc = "putA" /\ user = FALSE
      OBVIOUS
    <3>2. Msg(s, r, TRUE) \in Elements(old)
      BY <1>1, <1>13, <3>1 DEF Heard, Answering, old, s
    <3> QED
      BY <1>18, <3>1, <3>2 DEF m
  <2>4. next = "model" => /\ Len(new) % 2 = 1 /\ Msg(s, r, TRUE) \in Elements(new)
                          /\ \A x \in Elements(new) : x.req < r \/ (x.req = r /\ x.user)
    <3> SUFFICES ASSUME next = "model"
                 PROVE  /\ Len(new) % 2 = 1 /\ Msg(s, r, TRUE) \in Elements(new)
                        /\ \A x \in Elements(new) : x.req < r \/ (x.req = r /\ x.user)
      OBVIOUS
    <3>1. pc = "putQ" /\ user = TRUE
      OBVIOUS
    <3>2. \A x \in Elements(old) : x.req < r
      BY <1>1, <1>5, <1>13, <3>1 DEF Heard, old, s
    <3>3. Len(new) % 2 = 1
      BY <1>14, <1>18, <3>1
    <3> QED
      BY <1>7, <1>18, <3>1, <3>2, <3>3 DEF m
  <2>5. next \in {"model", "end"} /\ s # None
    BY <1>3
  <2> QED
    BY <2>1, <2>2, <2>3, <2>4, <2>5 DEF Heard, Answering
<1>25. OnItsWay(r)'
  <2>1. OnItsWay(r)
    BY <1>2 DEF Running
  <2>2. /\ handler[r].pc # "over"
        /\ handler[r].pc \in {"addA", "putA", "end", "over"} <=> handler'[r].pc \in {"addA", "putA", "end", "over"}
    BY <1>1, <1>4, <1>22
  <2>3. handler'[r].session = handler[r].session
    BY <1>21, <1>22
  <2> QED
    BY <1>9, <1>22, <2>1, <2>2, <2>3, NothingSent
<1> QED
  BY <1>22, <1>23, <1>24, <1>25 DEF Calm, Running

\* What is sent comes after what is on its way.
Joins(all, w, es) ==
  /\ all \in Seq(EventKinds) /\ Len(w) \in Nat /\ Len(es) \in Nat /\ Len(all) = Len(w) + Len(es)
  /\ DOMAIN w = 1 .. Len(w) /\ DOMAIN all = 1 .. Len(all)
  /\ \A i \in DOMAIN w : i \in DOMAIN all /\ all[i] = w[i]
  /\ \A j \in 1 .. Len(es) : Len(w) + j \in DOMAIN all /\ all[Len(w) + j] = es[j]
  /\ \A i \in DOMAIN all : i \in DOMAIN w \/ \E j \in 1 .. Len(es) : i = Len(w) + j

LEMMA Joined ==
  ASSUME NEW w \in Seq(EventKinds), NEW es \in Seq(EventKinds)
  PROVE  Joins(w \o es, w, es)
<1> PICK all : all = w \o es
  OBVIOUS
<1>1. /\ all \in Seq(EventKinds) /\ Len(w) \in Nat /\ Len(es) \in Nat /\ Len(all) = Len(w) + Len(es)
      /\ DOMAIN w = 1 .. Len(w) /\ DOMAIN all = 1 .. Len(all)
  BY ConcatProperties
<1>2. \A i \in 1 .. Len(w) + Len(es) : all[i] = IF i <= Len(w) THEN w[i] ELSE es[i - Len(w)]
  BY ConcatProperties
<1>3. ASSUME NEW i \in DOMAIN w PROVE i \in DOMAIN all /\ all[i] = w[i]
  BY <1>1, <1>2
<1>4. ASSUME NEW j \in 1 .. Len(es) PROVE Len(w) + j \in DOMAIN all /\ all[Len(w) + j] = es[j]
  <2>1. PICK k : k = Len(w) + j
    OBVIOUS
  <2>2. k \in 1 .. Len(w) + Len(es) /\ ~(k <= Len(w)) /\ k - Len(w) = j
    BY <1>1, <2>1
  <2>3. all[k] = es[k - Len(w)]
    BY <1>2, <2>2
  <2> QED
    BY <1>1, <2>1, <2>2, <2>3
<1>5. ASSUME NEW i \in DOMAIN all, i \notin DOMAIN w PROVE \E j \in 1 .. Len(es) : i = Len(w) + j
  <2>1. i \in Nat /\ i > Len(w) /\ i <= Len(w) + Len(es)
    BY <1>1, <1>5
  <2>2. i - Len(w) \in 1 .. Len(es) /\ i = Len(w) + (i - Len(w))
    BY <1>1, <2>1
  <2> QED
    BY <2>2
<1> QED
  BY <1>1, <1>3, <1>4, <1>5 DEF Joins

\* The model answers: a stream brings the answer to the page.
LEMMA ModelCalm ==
  ASSUME ChatInv, Calm, NEW r \in Requests, Model(r), UNCHANGED pageVars, ~failed'
  PROVE  Calm'
<1> DEFINE s == handler[r].session
           h == [handler[r] EXCEPT !.pc = "addA"]
           es == IF handler[r].stream THEN <<"chunk">> ELSE <<>>
<1>0. /\ Turns /\ InOrder /\ handler \in [Requests -> HandlerStates] /\ memory \in Agents
  BY DEF Calm, ChatInv, AgentInv
<1>1. /\ handler[r].pc = "model" /\ UNCHANGED <<up, raced, memory>>
      /\ Events(r, es) /\ Goto(r, "addA")
  BY Zenon DEF Model, At, lifeVars
<1>2. Open(r) /\ Running(r)
  BY <1>0, <1>1 DEF Turns, Works, Active, Calm
<1>3. h.pc = "addA" /\ h.session = s /\ h.stream = handler[r].stream /\ handler' = [handler EXCEPT ![r] = h]
  BY <1>0, <1>1 DEF Goto, HandlerStates
<1>4. es \in Seq(EventKinds) /\ (handler[r].stream => es = <<"chunk">>) /\ (~handler[r].stream => es = <<>>)
  BY DEF EventKinds
<1> HIDE DEF h, es
<1>5. PICK w : w = wire[r]
  OBVIOUS
<1>6. PICK all : all = w \o es
  OBVIOUS
<1>7. w \in Seq(EventKinds) /\ wire' = [wire EXCEPT ![r] = all]
  BY <1>0, <1>1, <1>5, <1>6 DEF Turns, Events
<1>8. /\ all \in Seq(EventKinds) /\ Len(w) \in Nat /\ Len(es) \in Nat /\ Len(all) = Len(w) + Len(es)
      /\ DOMAIN w = 1 .. Len(w) /\ DOMAIN all = 1 .. Len(all)
      /\ \A i \in DOMAIN w : i \in DOMAIN all /\ all[i] = w[i]
      /\ \A j \in 1 .. Len(es) : Len(w) + j \in DOMAIN all /\ all[Len(w) + j] = es[j]
      /\ \A i \in DOMAIN all : i \in DOMAIN w \/ \E j \in 1 .. Len(es) : i = Len(w) + j
  <2>1. w \in Seq(EventKinds) /\ es \in Seq(EventKinds)
    BY <1>4, <1>7
  <2>2. Joins(all, w, es)
    BY <1>6, <2>1, Joined
  <2> QED
    BY <2>2 DEF Joins
<1>9. UNCHANGED <<page, shown, current, temp>>
  BY DEF pageVars
<1>10. h.session = handler[r].session /\ h.pc # "idle"
  BY <1>3
<1> HIDE DEF s
<1>11. /\ Turns' /\ CachedFit' /\ AtRest' /\ (temp => current = None)' /\ Displayed(r)'
       /\ \A q \in Requests : Open(q)' => q = r
       /\ handler'[r] = h /\ wire'[r] = all
  BY <1>1, <1>2, <1>3, <1>7, <1>8, <1>10, HandleFrame
<1>12. InOrder'
  BY <1>1, <1>2, <1>3, <1>9, <1>10, StepInOrder DEF Answering
<1>13. Heard(r)'
  BY <1>1, <1>2, <1>3, <1>9, <1>11 DEF Heard, Answering, Running, s
<1>14. /\ \A i \in DOMAIN w : w[i] \notin {"eof", "ok"} /\ (page[r].stream <=> w[i] # "ok")
       /\ page[r].stream => shown[Len(shown)] = ByModel(<<>>) /\ \A i \in DOMAIN w : w[i] # "chunk"
       /\ (page[r].stream /\ page[r].temp) =>
            (\E i \in DOMAIN w : w[i] = "sid") \/ (current = handler[r].session /\ ~temp)
       /\ handler[r].stream = page[r].stream
  BY <1>1, <1>2, <1>5 DEF Running, OnItsWay, Heard
<1>15. OnItsWay(r)'
  <2>1. CASE page[r].stream
    <3>1. es = <<"chunk">> /\ Len(es) = 1 /\ es[1] = "chunk"
      BY <1>4, <1>14, <2>1
    <3>2. /\ Len(w) + 1 \in DOMAIN all /\ all[Len(w) + 1] = "chunk"
          /\ \A i \in DOMAIN all : i \in DOMAIN w \/ i = Len(w) + 1
      BY <1>8, <3>1
    <3>3. \A i \in DOMAIN all : all[i] \notin {"eof", "ok"} /\ (all[i] = "chunk" => i = Len(w) + 1)
      BY <1>8, <1>14, <2>1, <3>2
    <3>4. page[r].temp => (\E i \in DOMAIN all : all[i] = "sid") \/ (current = handler[r].session /\ ~temp)
      BY <1>8, <1>14, <2>1
    <3>5. shown[Len(shown)] = ByModel(<<>>)
      BY <1>14, <2>1
    <3> QED
      BY <1>3, <1>9, <1>10, <1>11, <2>1, <3>2, <3>3, <3>4, <3>5 DEF OnItsWay
  <2>2. CASE ~page[r].stream
    <3>1. DOMAIN w = {}
      BY <1>14, <2>2
    <3>2. Len(es) = 0
      BY <1>4, <1>14, <2>2
    <3>3. DOMAIN all = {}
      BY <1>8, <3>1, <3>2
    <3> QED
      BY <1>9, <1>11, <2>2, <3>3 DEF OnItsWay
  <2> QED
    BY <2>1, <2>2
<1> QED
  BY <1>11, <1>12, <1>13, <1>15 DEF Calm, Running

\* The answer is there: the end of the stream, or the answer itself.
LEMMA AnswerCalm ==
  ASSUME ChatInv, Calm, NEW r \in Requests, Answer(r), UNCHANGED pageVars
  PROVE  Calm'
<1> DEFINE s == handler[r].session
           h == [handler[r] EXCEPT !.pc = "over"]
           es == IF handler[r].stream THEN <<"done", "eof">> ELSE <<"ok">>
<1>0. /\ Turns /\ InOrder /\ handler \in [Requests -> HandlerStates] /\ memory \in Agents
  BY DEF Calm, ChatInv, AgentInv
<1>1. /\ handler[r].pc = "end" /\ UNCHANGED <<up, raced, memory>>
      /\ Events(r, es) /\ Goto(r, "over")
  BY Zenon DEF Answer, At, lifeVars
<1>2. Open(r) /\ Running(r)
  BY <1>0, <1>1 DEF Turns, Works, Active, Calm
<1>3. h.pc = "over" /\ h.session = s /\ h.stream = handler[r].stream /\ handler' = [handler EXCEPT ![r] = h]
  BY <1>0, <1>1 DEF Goto, HandlerStates
<1>4. es \in Seq(EventKinds) /\ (handler[r].stream => es = <<"done", "eof">>) /\ (~handler[r].stream => es = <<"ok">>)
  <2>1. <<"done", "eof">> \in Seq(EventKinds)
    BY DEF EventKinds
  <2>2. <<"ok">> \in Seq(EventKinds)
    BY DEF EventKinds
  <2> QED
    BY <2>1, <2>2, Zenon
<1> HIDE DEF h, es
<1>5. PICK w : w = wire[r]
  OBVIOUS
<1>6. PICK all : all = w \o es
  OBVIOUS
<1>7. w \in Seq(EventKinds) /\ wire' = [wire EXCEPT ![r] = all]
  BY <1>0, <1>1, <1>5, <1>6 DEF Turns, Events
<1>8. /\ all \in Seq(EventKinds) /\ Len(w) \in Nat /\ Len(es) \in Nat /\ Len(all) = Len(w) + Len(es)
      /\ DOMAIN w = 1 .. Len(w) /\ DOMAIN all = 1 .. Len(all)
      /\ \A i \in DOMAIN w : i \in DOMAIN all /\ all[i] = w[i]
      /\ \A j \in 1 .. Len(es) : Len(w) + j \in DOMAIN all /\ all[Len(w) + j] = es[j]
      /\ \A i \in DOMAIN all : i \in DOMAIN w \/ \E j \in 1 .. Len(es) : i = Len(w) + j
  <2>1. w \in Seq(EventKinds) /\ es \in Seq(EventKinds)
    BY <1>4, <1>7
  <2>2. Joins(all, w, es)
    BY <1>6, <2>1, Joined
  <2> QED
    BY <2>2 DEF Joins
<1>9. UNCHANGED <<page, shown, current, temp>>
  BY DEF pageVars
<1>10. h.session = handler[r].session /\ h.pc # "idle"
  BY <1>3
<1> HIDE DEF s
<1>11. /\ Turns' /\ CachedFit' /\ AtRest' /\ (temp => current = None)' /\ Displayed(r)'
       /\ \A q \in Requests : Open(q)' => q = r
       /\ handler'[r] = h /\ wire'[r] = all
  BY <1>1, <1>2, <1>3, <1>7, <1>8, <1>10, HandleFrame
<1>12. InOrder'
  BY <1>1, <1>2, <1>3, <1>9, <1>10, StepInOrder DEF Answering
<1>13. Heard(r)'
  BY <1>1, <1>2, <1>3, <1>9, <1>11 DEF Heard, Answering, Running, s
<1>14. /\ \A i \in DOMAIN w : /\ w[i] \notin {"eof", "ok"} /\ (page[r].stream <=> w[i] # "ok")
                              /\ w[i] = "chunk" => shown[Len(shown)] = ByModel(<<>>)
       /\ \A i, j \in DOMAIN w : (w[i] = "chunk" /\ w[j] = "chunk") => i = j
       /\ page[r].stream => (\E i \in DOMAIN w : w[i] = "chunk") \/ shown[Len(shown)] = ByModel(<<r>>)
       /\ (page[r].stream /\ page[r].temp) =>
            (\E i \in DOMAIN w : w[i] = "sid") \/ (current = handler[r].session /\ ~temp)
       /\ handler[r].stream = page[r].stream
  BY <1>1, <1>2, <1>5 DEF Running, OnItsWay, Heard
<1>15. OnItsWay(r)'
  <2>1. CASE page[r].stream
    <3>1. Len(es) = 2 /\ es[1] = "done" /\ es[2] = "eof"
      BY <1>4, <1>14, <2>1
    <3>2. /\ all[Len(w) + 1] = "done" /\ all[Len(w) + 2] = "eof" /\ Len(all) = Len(w) + 2
          /\ \A i \in DOMAIN all : i \in DOMAIN w \/ i = Len(w) + 1 \/ i = Len(w) + 2
      BY <1>8, <3>1
    <3>3. \A i \in DOMAIN all : /\ all[i] # "ok" /\ (all[i] = "eof" => i = Len(all))
                                /\ (all[i] = "chunk" => i \in DOMAIN w /\ w[i] = "chunk")
      BY <1>8, <1>14, <2>1, <3>2
    <3>4. page[r].temp => (\E i \in DOMAIN all : all[i] = "sid") \/ (current = handler[r].session /\ ~temp)
      BY <1>8, <1>14, <2>1
    <3>5. (\E i \in DOMAIN all : all[i] = "chunk") \/ shown[Len(shown)] = ByModel(<<r>>)
      BY <1>8, <1>14, <2>1
    <3>6. \A i \in DOMAIN all : all[i] = "chunk" => shown[Len(shown)] = ByModel(<<>>)
      BY <1>14, <3>3
    <3>7. \A i, j \in DOMAIN all : (all[i] = "chunk" /\ all[j] = "chunk") => i = j
      BY <1>14, <3>3
    <3> QED
      BY <1>3, <1>9, <1>10, <1>11, <2>1, <3>3, <3>4, <3>5, <3>6, <3>7 DEF OnItsWay
  <2>2. CASE ~page[r].stream
    <3>1. DOMAIN w = {}
      BY <1>14, <2>2
    <3>2. Len(es) = 1 /\ es[1] = "ok"
      BY <1>4, <1>14, <2>2
    <3>3. Len(all) = Len(w) + 1 /\ \A i \in DOMAIN all : i = Len(all) /\ all[i] = "ok"
      BY <1>8, <3>1, <3>2
    <3> QED
      BY <1>3, <1>9, <1>11, <2>2, <3>3 DEF OnItsWay
  <2> QED
    BY <2>1, <2>2
<1> QED
  BY <1>11, <1>12, <1>13, <1>15 DEF Calm, Running

\* The question and the answer of a request after what came before.
LEMMA FitsExchange ==
  ASSUME NEW list, NEW n \in Nat, NEW a \in Seq(Messages), FitsUpTo(list, n, a), a # None,
         NEW s \in Sessions, NEW r \in Requests,
         Msg(s, r, TRUE) \in Elements(a), Msg(s, r, FALSE) \in Elements(a),
         list[n + 1] = ByUser(r), list[n + 2] = ByModel(<<r>>),
         \A i \in 1 .. n : Rank(list[i]) < RankOf(r, TRUE)
  PROVE  FitsUpTo(list, n + 2, a)
<1>1. PICK u, m : u = Msg(s, r, TRUE) /\ m = Msg(s, r, FALSE)
  OBVIOUS
<1>2. /\ u \in Messages /\ u \in Elements(a) /\ list[n + 1] = Said(u)
      /\ m \in Messages /\ m \in Elements(a) /\ list[n + 2] = Said(m)
  BY <1>1 DEF Msg, Messages, Named, Said, ByUser, ByModel
<1>3. Rank(list[n + 1]) = RankOf(r, TRUE) /\ Rank(list[n + 2]) = RankOf(r, FALSE)
  BY <1>1, <1>2, SaidIs DEF Msg
<1>4. RankOf(r, TRUE) = 2 * r /\ RankOf(r, FALSE) = 2 * r + 1 /\ r \in Nat
  BY PageAssumption DEF RankOf
<1>5. FitsUpTo(list, n + 1, a)
  BY <1>2, <1>3, FitsOneMore
<1>6. PICK k \in Nat : k = n + 1 /\ k + 1 = n + 2
  OBVIOUS
<1>7. \A i \in 1 .. k : Rank(list[i]) < Rank(list[k + 1])
  <2> SUFFICES ASSUME NEW i \in 1 .. k PROVE Rank(list[i]) < Rank(list[k + 1])
    OBVIOUS
  <2>1. Rank(list[k + 1]) = 2 * r + 1 /\ Rank(list[k]) = 2 * r
    BY <1>3, <1>4, <1>6
  <2>2. CASE i = k
    <3>1. 2 * r < 2 * r + 1
      BY <1>4
    <3> QED
      BY <2>1, <2>2, <3>1
  <2>3. CASE i \in 1 .. n
    <3>1. PICK x \in Elements(a) : list[i] = Said(x)
      BY <2>3 DEF FitsUpTo
    <3>2. x \in Messages
      BY <3>1 DEF Elements
    <3>3. Rank(list[i]) \in Nat
      BY <3>1, <3>2, SaidIs
    <3>4. Rank(list[i]) < 2 * r
      BY <1>4, <2>3
    <3>5. Rank(list[i]) < 2 * r + 1
      BY <1>4, <3>3, <3>4
    <3> QED
      BY <2>1, <3>5
  <2>4. i = k \/ i \in 1 .. n
    BY <1>6
  <2> QED
    BY <2>2, <2>3, <2>4
<1>8. FitsUpTo(list, k, a) /\ list[k + 1] = Said(m)
  BY <1>2, <1>5, <1>6
<1>9. FitsUpTo(list, k + 1, a)
  BY <1>2, <1>7, <1>8, FitsOneMore
<1> QED
  BY <1>6, <1>9

\* An event of the request under way is taken.
Taken(w, rest) ==
  /\ Len(w) \in Nat /\ DOMAIN w = 1 .. Len(w) /\ 1 \in DOMAIN w
  /\ rest \in Seq(EventKinds) /\ Len(rest) = Len(w) - 1 /\ DOMAIN rest = 1 .. Len(rest)
  /\ \A i \in DOMAIN rest : i + 1 \in DOMAIN w /\ rest[i] = w[i + 1]
  /\ \A i \in DOMAIN w : i # 1 => i - 1 \in DOMAIN rest /\ rest[i - 1] = w[i]

LEMMA ArrivesIs ==
  ASSUME ChatInv, Calm, NEW r \in Requests, NEW event, Arrives(r, event)
  PROVE  /\ Open(r) /\ Heard(r) /\ OnItsWay(r) /\ Displayed(r) /\ Turns /\ InOrder /\ CachedFit
         /\ temp => current = None
         /\ UNCHANGED <<up, memory, handler, raced, loads>>
         /\ event \in EventKinds /\ wire[r][1] = event /\ Taken(wire[r], wire'[r])
         /\ wire' \in [Requests -> Seq(EventKinds)]
         /\ \A q \in Requests : q # r => wire'[q] = wire[q]
         /\ \A q \in Requests : Open(q) => q = r
         /\ loads = <<>>
<1>1. Turns /\ InOrder /\ CachedFit /\ (temp => current = None)
  BY DEF Calm
<1>2. /\ Open(r) /\ wire[r] # <<>> /\ Head(wire[r]) = event /\ wire' = [wire EXCEPT ![r] = Tail(@)]
      /\ UNCHANGED <<up, memory, handler, raced, loads>>
  BY DEF Arrives, Open
<1>3. Heard(r) /\ OnItsWay(r) /\ Displayed(r)
  BY <1>2 DEF Calm, Running
<1>4. PICK w : w = wire[r]
  OBVIOUS
<1>5. PICK rest : rest = Tail(w)
  OBVIOUS
<1>6. w \in Seq(EventKinds) /\ w # <<>>
  BY <1>1, <1>2, <1>4 DEF Turns
<1>7. Len(w) \in Nat /\ DOMAIN w = 1 .. Len(w) /\ 1 \in DOMAIN w /\ w[1] = event /\ event \in EventKinds
  BY <1>2, <1>4, <1>6
<1>8. /\ rest \in Seq(EventKinds) /\ Len(rest) = Len(w) - 1 /\ DOMAIN rest = 1 .. Len(rest)
      /\ \A i \in 1 .. Len(w) - 1 : rest[i] = w[i + 1]
  BY <1>5, <1>6
<1>9. \A i \in DOMAIN rest : i + 1 \in DOMAIN w /\ rest[i] = w[i + 1]
  BY <1>7, <1>8
<1>10. ASSUME NEW i \in DOMAIN w, i # 1 PROVE i - 1 \in DOMAIN rest /\ rest[i - 1] = w[i]
  <2>1. PICK j : j = i - 1
    OBVIOUS
  <2>2. j \in 1 .. Len(w) - 1 /\ i = j + 1
    BY <1>7, <1>10, <2>1
  <2>3. rest[j] = w[j + 1]
    BY <1>8, <2>2
  <2> QED
    BY <1>8, <2>1, <2>2, <2>3
<1>11. Taken(w, rest)
  BY <1>7, <1>8, <1>9, <1>10 DEF Taken
<1>12. wire'[r] = rest /\ wire' \in [Requests -> Seq(EventKinds)] /\ \A q \in Requests : q # r => wire'[q] = wire[q]
  BY <1>1, <1>2, <1>4, <1>5, <1>8 DEF Turns
<1> QED
  BY <1>1, <1>2, <1>3, <1>4, <1>7, <1>11, <1>12 DEF Turns

LEMMA SameInOrder == ASSUME InOrder, UNCHANGED <<memory, handler, page>> PROVE InOrder'
BY DEF InOrder

\* An event after which the request is still under way.
LEMMA StillOpen ==
  ASSUME ChatInv, Calm, NEW r \in Requests, NEW event, Arrives(r, event), UNCHANGED page, temp' \in BOOLEAN,
         CachedFit', (temp => current = None)', OnItsWay(r)', Displayed(r)'
  PROVE  Calm'
<1>1. /\ Open(r) /\ Heard(r) /\ Turns /\ InOrder
      /\ UNCHANGED <<up, memory, handler, raced, loads>>
      /\ wire' \in [Requests -> Seq(EventKinds)]
      /\ \A q \in Requests : q # r => wire'[q] = wire[q]
      /\ \A q \in Requests : Open(q) => q = r
  BY ArrivesIs
<1>2. \A q \in Requests : Open(q)' <=> Open(q)
  BY DEF Open
<1>3. Turns'
  <2>1. \A q \in Requests : page'[q].pc = "idle" => handler'[q].pc = "idle" /\ wire'[q] = <<>>
    BY <1>1 DEF Turns, Open
  <2>2. \A q \in Requests : Works(q)' => Open(q)'
    BY <1>1, <1>2 DEF Turns, Works
  <2> QED
    BY <1>1, <1>2, <2>1, <2>2 DEF Turns
<1>4. InOrder'
  BY <1>1, SameInOrder
<1>5. AtRest'
  BY <1>1, <1>2 DEF AtRest
<1>6. Heard(r)'
  BY <1>1, Zenon DEF Heard
<1> QED
  BY <1>1, <1>2, <1>3, <1>4, <1>5, <1>6 DEF Calm, Running

\* What is left of it.
IsLeft(r, w, rest) ==
  /\ \A i \in DOMAIN rest : /\ page[r].stream <=> rest[i] # "ok"
                            /\ rest[i] \in {"eof", "ok"} => i = Len(rest) /\ handler[r].pc = "over"
                            /\ rest[i] = "chunk" => shown[Len(shown)] = ByModel(<<>>) /\ w[1] # "chunk"
  /\ \A i, j \in DOMAIN rest : (rest[i] = "chunk" /\ rest[j] = "chunk") => i = j
  /\ \A e : e # w[1] => ((\E i \in DOMAIN w : w[i] = e) <=> (\E i \in DOMAIN rest : rest[i] = e))

LEMMA TakenRest ==
  ASSUME NEW r \in Requests, OnItsWay(r), NEW w, NEW rest, w = wire[r], Taken(w, rest)
  PROVE  IsLeft(r, w, rest)
<1>1. /\ \A i \in DOMAIN w : /\ page[r].stream <=> w[i] # "ok"
                             /\ w[i] \in {"eof", "ok"} => i = Len(w) /\ handler[r].pc = "over"
                             /\ w[i] = "chunk" => shown[Len(shown)] = ByModel(<<>>)
      /\ \A i, j \in DOMAIN w : (w[i] = "chunk" /\ w[j] = "chunk") => i = j
  BY DEF OnItsWay
<1>2. /\ Len(w) \in Nat /\ DOMAIN w = 1 .. Len(w) /\ 1 \in DOMAIN w
      /\ Len(rest) = Len(w) - 1 /\ DOMAIN rest = 1 .. Len(rest)
      /\ \A i \in DOMAIN rest : i + 1 \in DOMAIN w /\ rest[i] = w[i + 1]
      /\ \A i \in DOMAIN w : i # 1 => i - 1 \in DOMAIN rest /\ rest[i - 1] = w[i]
  BY DEF Taken
<1>3. ASSUME NEW i \in DOMAIN rest
      PROVE  /\ page[r].stream <=> rest[i] # "ok"
             /\ rest[i] \in {"eof", "ok"} => i = Len(rest) /\ handler[r].pc = "over"
             /\ rest[i] = "chunk" => shown[Len(shown)] = ByModel(<<>>) /\ w[1] # "chunk"
  <2>1. PICK k \in DOMAIN w : k = i + 1 /\ rest[i] = w[k]
    BY <1>2
  <2>2. page[r].stream <=> rest[i] # "ok"
    BY <1>1, <2>1
  <2>3. rest[i] \in {"eof", "ok"} => i = Len(rest) /\ handler[r].pc = "over"
    <3>1. rest[i] \in {"eof", "ok"} => k = Len(w) /\ handler[r].pc = "over"
      BY <1>1, <2>1
    <3> QED
      BY <1>2, <2>1, <3>1
  <2>4. rest[i] = "chunk" => shown[Len(shown)] = ByModel(<<>>)
    BY <1>1, <2>1
  <2>5. k # 1
    BY <1>2, <2>1
  <2>6. rest[i] = "chunk" => w[1] # "chunk"
    BY <1>1, <1>2, <2>1, <2>5
  <2> QED
    BY <2>2, <2>3, <2>4, <2>6
<1>4. ASSUME NEW i \in DOMAIN rest, NEW j \in DOMAIN rest, rest[i] = "chunk", rest[j] = "chunk" PROVE i = j
  <2>1. i + 1 = j + 1
    BY <1>1, <1>2, <1>4
  <2> QED
    BY <1>2, <2>1
<1>5. ASSUME NEW e, e # w[1] PROVE (\E i \in DOMAIN w : w[i] = e) <=> (\E i \in DOMAIN rest : rest[i] = e)
  BY <1>2, <1>5
<1> QED
  BY <1>3, <1>4, <1>5 DEF IsLeft

\* The end of the stream and what is listed in its place.
LEMMA DoneCalm ==
  ASSUME ChatInv, Calm, NEW r \in Requests, Done(r)
  PROVE  Calm'
<1>1. Arrives(r, "done") /\ UNCHANGED <<shown, current, temp, cached, page>>
  BY DEF Done
<1>2. PICK event : event = "done"
  OBVIOUS
<1>3. Arrives(r, event)
  BY <1>1, <1>2
<1>4. PICK w, rest : w = wire[r] /\ rest = wire'[r]
  OBVIOUS
<1>5. /\ OnItsWay(r) /\ Displayed(r) /\ Turns /\ CachedFit /\ (temp => current = None)
      /\ UNCHANGED <<up, memory, handler, raced, loads>> /\ w[1] = event /\ Taken(w, rest)
  BY <1>3, <1>4, ArrivesIs
<1>6. temp' \in BOOLEAN
  BY <1>1, <1>5 DEF Turns
<1>7. CachedFit'
  BY <1>1, <1>5, Zenon DEF CachedFit, Open
<1>8. OnItsWay(r)'
  <2>1. /\ \A i \in DOMAIN rest : /\ page[r].stream <=> rest[i] # "ok"
                                  /\ rest[i] \in {"eof", "ok"} => i = Len(rest) /\ handler[r].pc = "over"
                                  /\ rest[i] = "chunk" => shown[Len(shown)] = ByModel(<<>>) /\ w[1] # "chunk"
        /\ \A i, j \in DOMAIN rest : (rest[i] = "chunk" /\ rest[j] = "chunk") => i = j
        /\ \A e : e # w[1] => ((\E i \in DOMAIN w : w[i] = e) <=> (\E i \in DOMAIN rest : rest[i] = e))
    <3>1. IsLeft(r, w, rest)
      BY <1>4, <1>5, TakenRest
    <3> QED
      BY <3>1, Zenon DEF IsLeft
  <2>2. /\ (\E i \in DOMAIN w : w[i] = "chunk") <=> (\E i \in DOMAIN rest : rest[i] = "chunk")
        /\ (\E i \in DOMAIN w : w[i] = "sid") <=> (\E i \in DOMAIN rest : rest[i] = "sid")
    BY <1>2, <1>5, <2>1
  <2>3. page[r].stream =>
          IF handler[r].pc \in {"addA", "putA", "end", "over"}
          THEN (\E i \in DOMAIN rest : rest[i] = "chunk") \/ shown[Len(shown)] = ByModel(<<r>>)
          ELSE shown[Len(shown)] = ByModel(<<>>) /\ \A i \in DOMAIN rest : rest[i] # "chunk"
    BY <1>4, <1>5, <2>2 DEF OnItsWay
  <2>4. (page[r].stream /\ page[r].temp) =>
          (\E i \in DOMAIN rest : rest[i] = "sid") \/ (current = handler[r].session /\ ~temp)
    BY <1>4, <1>5, <2>2 DEF OnItsWay
  <2> QED
    BY <1>1, <1>4, <1>5, <2>1, <2>3, <2>4, Zenon DEF OnItsWay
<1>9. Displayed(r)'
  BY <1>1, <1>5, Zenon DEF Displayed, Before
<1>10. (temp => current = None)'
  BY <1>1, <1>5
<1> QED
  BY <1>1, <1>3, <1>6, <1>7, <1>8, <1>9, <1>10, StillOpen

\* The name of the new session: the page is in it from now on.
LEMMA SessionIdCalm ==
  ASSUME ChatInv, Calm, NEW r \in Requests, SessionId(r)
  PROVE  Calm'
<1>1. /\ Arrives(r, "sid") /\ UNCHANGED <<shown, page>>
      /\ page[r].temp => /\ cached' = [cached EXCEPT ![handler[r].session] = <<>>]
                         /\ current' = handler[r].session /\ temp' = FALSE
      /\ ~page[r].temp => UNCHANGED <<cached, current, temp>>
  BY Zenon DEF SessionId
<1>2. PICK event : event = "sid"
  OBVIOUS
<1>3. Arrives(r, event)
  BY <1>1, <1>2
<1>4. PICK w, rest : w = wire[r] /\ rest = wire'[r]
  OBVIOUS
<1>5. /\ OnItsWay(r) /\ Displayed(r) /\ Turns /\ CachedFit /\ (temp => current = None) /\ Heard(r) /\ Open(r)
      /\ UNCHANGED <<up, memory, handler, raced, loads>> /\ w[1] = event /\ Taken(w, rest)
  BY <1>3, <1>4, ArrivesIs
<1>6. temp' \in BOOLEAN
  BY <1>1, <1>5 DEF Turns
<1>7. CachedFit'
  <2>1. CASE ~page[r].temp
    BY <1>1, <1>5, <2>1, Zenon DEF CachedFit, Open
  <2>2. CASE page[r].temp
    <3>1. cached \in [Sessions -> Seq(ShownMsgs) \cup {None}] /\ handler[r].session \in Sessions
      BY <1>5 DEF ChatInv, PageInv, AgentInv, HandlerStates, Named, Heard
    <3>2. cached'[handler[r].session] = <<>> /\ \A t \in Sessions : t # handler[r].session => cached'[t] = cached[t]
      BY <1>1, <2>2, <3>1
    <3>3. Fits(<<>>, memory[handler[r].session])
      BY DEF Fits, FitsUpTo
    <3> SUFFICES ASSUME NEW t \in Sessions, cached'[t] # None
                 PROVE  /\ Fits(cached'[t], memory[t])
                        /\ memory[t] # None \/ \E q \in Requests : Open(q) /\ handler[q].session = t
      BY <1>1, <1>5 DEF CachedFit, Open
    <3>4. CASE t = handler[r].session
      BY <1>5, <3>2, <3>3, <3>4
    <3>5. CASE t # handler[r].session
      BY <1>5, <3>2, <3>5 DEF CachedFit
    <3> QED
      BY <3>4, <3>5
  <2> QED
    BY <2>1, <2>2
<1>8. OnItsWay(r)'
  <2>1. /\ \A i \in DOMAIN rest : /\ page[r].stream <=> rest[i] # "ok"
                                  /\ rest[i] \in {"eof", "ok"} => i = Len(rest) /\ handler[r].pc = "over"
                                  /\ rest[i] = "chunk" => shown[Len(shown)] = ByModel(<<>>) /\ w[1] # "chunk"
        /\ \A i, j \in DOMAIN rest : (rest[i] = "chunk" /\ rest[j] = "chunk") => i = j
        /\ \A e : e # w[1] => ((\E i \in DOMAIN w : w[i] = e) <=> (\E i \in DOMAIN rest : rest[i] = e))
    <3>1. IsLeft(r, w, rest)
      BY <1>4, <1>5, TakenRest
    <3> QED
      BY <3>1, Zenon DEF IsLeft
  <2>2. (\E i \in DOMAIN w : w[i] = "chunk") <=> (\E i \in DOMAIN rest : rest[i] = "chunk")
    BY <1>2, <1>5, <2>1
  <2>3. page[r].stream =>
          IF handler[r].pc \in {"addA", "putA", "end", "over"}
          THEN (\E i \in DOMAIN rest : rest[i] = "chunk") \/ shown[Len(shown)] = ByModel(<<r>>)
          ELSE shown[Len(shown)] = ByModel(<<>>) /\ \A i \in DOMAIN rest : rest[i] # "chunk"
    BY <1>4, <1>5, <2>2 DEF OnItsWay
  <2>4. page[r].temp => current' = handler[r].session /\ ~temp'
    BY <1>1
  <2> QED
    BY <1>1, <1>4, <1>5, <2>1, <2>3, <2>4, Zenon DEF OnItsWay
<1>9. Displayed(r)'
  <2>1. (~page[r].temp => current = handler[r].session /\ ~temp)'
    BY <1>1, <1>5 DEF Displayed
  <2>2. Before(r)' = Before(r)
    BY <1>1 DEF Before
  <2> QED
    BY <1>1, <1>5, <2>1, <2>2, Zenon DEF Displayed
<1>10. (temp => current = None)'
  BY <1>1, <1>5
<1> QED
  BY <1>1, <1>3, <1>6, <1>7, <1>8, <1>9, <1>10, StillOpen

LEMMA FirstText ==
  ASSUME NEW r \in Requests
  PROVE  [ByModel(<<>>) EXCEPT !.text = Append(ByModel(<<>>).text, r)] = ByModel(<<r>>)
<1>1. Append(<<>>, r) = <<r>>
  OBVIOUS
<1>2. ASSUME NEW e, NEW f PROVE [[user |-> FALSE, text |-> e] EXCEPT !.text = f] = [user |-> FALSE, text |-> f]
  <2>1. PICK x \in [user : BOOLEAN, text : {e, f}] : x = [user |-> FALSE, text |-> e]
    OBVIOUS
  <2>2. PICK y \in [user : BOOLEAN, text : {e, f}] : y = [x EXCEPT !.text = f]
    OBVIOUS
  <2>3. y.user = FALSE /\ y.text = f
    BY <2>1, <2>2
  <2>4. y = [user |-> FALSE, text |-> f]
    BY <2>2, <2>3
  <2> QED
    BY <2>1, <2>2, <2>4
<1>3. [user |-> FALSE, text |-> <<>>].text = <<>>
  OBVIOUS
<1> QED
  BY <1>1, <1>2, <1>3, Zenon DEF ByModel

\* The text of the answer: no cached list has the empty message it goes to.
LEMMA ChunkCalm ==
  ASSUME ChatInv, Calm, NEW r \in Requests, Chunk(r)
  PROVE  Calm'
<1> DEFINE n == Len(shown)
           More(list) == [list EXCEPT ![n].text = Append(@, r)]
<1>1. /\ Arrives(r, "chunk") /\ UNCHANGED <<current, temp, page>>
      /\ shown' = IF shown = <<>> THEN shown ELSE More(shown)
      /\ cached' = [s \in Sessions |-> IF shown # <<>> /\ cached[s] = shown THEN More(shown) ELSE cached[s]]
  BY DEF Chunk, AppendToLast
<1>2. PICK event : event = "chunk"
  OBVIOUS
<1>3. Arrives(r, event)
  BY <1>1, <1>2
<1>4. PICK w, rest : w = wire[r] /\ rest = wire'[r]
  OBVIOUS
<1>5. /\ OnItsWay(r) /\ Displayed(r) /\ Turns /\ CachedFit /\ (temp => current = None) /\ Heard(r) /\ Open(r)
      /\ UNCHANGED <<up, memory, handler, raced, loads>> /\ w[1] = event /\ Taken(w, rest)
  BY <1>3, <1>4, ArrivesIs
<1>6. /\ shown \in Seq(ShownMsgs) /\ cached \in [Sessions -> Seq(ShownMsgs) \cup {None}]
  BY DEF ChatInv, PageInv
<1>7. page[r].stream /\ shown[n] = ByModel(<<>>) /\ handler[r].pc \in {"addA", "putA", "end", "over"}
  <2>1. 1 \in DOMAIN w
    BY <1>5 DEF Taken
  <2> QED
    BY <1>2, <1>4, <1>5, <2>1 DEF OnItsWay
<1>8. n \in Nat /\ n >= 2 /\ n \in DOMAIN shown /\ DOMAIN shown = 1 .. n /\ Before(r) = n - 2
  BY <1>5, <1>6, <1>7 DEF Displayed, Before
<1>9. shown' = More(shown) /\ shown # <<>>
  BY <1>1, <1>8
<1>10. /\ shown'[n] = ByModel(<<r>>) /\ \A i \in 1 .. n : i # n => shown'[i] = shown[i]
       /\ DOMAIN shown' = 1 .. n
  <2>2. shown' = [shown EXCEPT ![n] = [shown[n] EXCEPT !.text = Append(shown[n].text, r)]]
    BY <1>9
  <2>3. shown'[n] = [shown[n] EXCEPT !.text = Append(shown[n].text, r)]
    BY <1>8, <2>2
  <2>6. shown'[n] = ByModel(<<r>>)
    BY <1>7, <2>3, FirstText, Zenon
  <2> QED
    BY <1>8, <2>2, <2>6
<1> HIDE DEF n, More
<1>11. Len(shown') = n
  <2>1. shown' \in Seq(ShownMsgs)
    BY EventKeeps DEF ReadEvent, ChatInv, PageInv
  <2>2. DOMAIN shown' = 1 .. Len(shown') /\ Len(shown') \in Nat
    BY <2>1
  <2>3. PICK k \in Nat : k = Len(shown')
    BY <2>2
  <2>4. n \in Nat /\ n \in 1 .. n /\ 1 .. n = 1 .. k
    BY <1>8, <1>10, <2>2, <2>3
  <2>5. n <= k /\ k \in 1 .. k
    BY <2>4
  <2>6. k <= n
    BY <2>4, <2>5
  <2> QED
    BY <2>3, <2>4, <2>5, <2>6
<1>12. ASSUME NEW t \in Sessions PROVE cached[t] # shown
  <2> SUFFICES ASSUME cached[t] = shown PROVE FALSE
    OBVIOUS
  <2>1. cached[t] # None
    BY <1>6, PageAssumption
  <2>2. FitsUpTo(shown, n, memory[t])
    BY <1>5, <2>1 DEF CachedFit, Fits, n
  <2>3. PICK m \in Elements(memory[t]) : shown[n] = Said(m)
    BY <1>8, <2>2 DEF FitsUpTo
  <2>4. <<>> = <<m.req>>
    BY <1>7, <2>3 DEF Said, ByModel
  <2> QED
    BY <2>4
<1>13. cached' = cached
  BY <1>1, <1>6, <1>12
<1>14. CachedFit'
  BY <1>1, <1>5, <1>13, Zenon DEF CachedFit, Open
<1>15. OnItsWay(r)'
  <2>1. /\ \A i \in DOMAIN rest : /\ page[r].stream <=> rest[i] # "ok"
                                  /\ rest[i] \in {"eof", "ok"} => i = Len(rest) /\ handler[r].pc = "over"
                                  /\ rest[i] # "chunk"
        /\ \A e : e # w[1] => ((\E i \in DOMAIN w : w[i] = e) <=> (\E i \in DOMAIN rest : rest[i] = e))
    <3>1. IsLeft(r, w, rest)
      BY <1>4, <1>5, TakenRest
    <3> QED
      BY <1>2, <1>5, <3>1, Zenon DEF IsLeft
  <2>2. (\E i \in DOMAIN w : w[i] = "sid") <=> (\E i \in DOMAIN rest : rest[i] = "sid")
    BY <1>2, <1>5, <2>1
  <2>3. shown'[Len(shown')] = ByModel(<<r>>)
    BY <1>10, <1>11
  <2>4. (page[r].stream /\ page[r].temp) =>
          (\E i \in DOMAIN rest : rest[i] = "sid") \/ (current = handler[r].session /\ ~temp)
    BY <1>4, <1>5, <2>2 DEF OnItsWay
  <2> QED
    BY <1>1, <1>4, <1>5, <1>7, <2>1, <2>3, <2>4, Zenon DEF OnItsWay
<1>16. Displayed(r)'
  <2>1. Before(r)' = n - 2
    BY <1>1, <1>7, <1>11 DEF Before
  <2>2. \A i \in 1 .. n - 1 : shown'[i] = shown[i]
    BY <1>8, <1>10
  <2>3. /\ n - 2 >= 0 /\ shown[(n - 2) + 1] = ByUser(r) /\ FitsUpTo(shown, n - 2, memory[handler[r].session])
        /\ \A i \in 1 .. n - 2 : Rank(shown[i]) < RankOf(r, TRUE)
        /\ ~page[r].temp => current = handler[r].session /\ ~temp
    BY <1>5, <1>8 DEF Displayed
  <2>4. \A i \in 1 .. n - 2 : shown'[i] = shown[i]
    BY <1>8, <2>2
  <2>5. FitsUpTo(shown', n - 2, memory[handler[r].session])
    BY <2>3, <2>4 DEF FitsUpTo
  <2>6. shown'[(n - 2) + 1] = ByUser(r)
    <3>1. (n - 2) + 1 \in 1 .. n - 1
      BY <1>8
    <3> QED
      BY <2>2, <2>3, <3>1
  <2>7. \A i \in 1 .. n - 2 : Rank(shown'[i]) < RankOf(r, TRUE)
    BY <2>3, <2>4
  <2>8. shown'[Len(shown')] = ByModel(<<r>>)
    BY <1>10, <1>11
  <2> QED
    BY <1>1, <1>5, <2>1, <2>3, <2>5, <2>6, <2>7, <2>8 DEF Displayed
<1>17. (temp => current = None)' /\ temp' \in BOOLEAN
  BY <1>1, <1>5 DEF Turns
<1> QED
  BY <1>1, <1>3, <1>14, <1>15, <1>16, <1>17, StillOpen

LEMMA InOrderPage ==
  ASSUME InOrder, memory \in Agents, UNCHANGED <<memory, handler>>,
         \A q \in Requests : page[q].pc # "idle" => page'[q].pc # "idle"
  PROVE  InOrder'
<1> SUFFICES ASSUME NEW t \in Sessions, memory'[t] # None
             PROVE  /\ \A i \in DOMAIN memory'[t] : /\ memory'[t][i].user = (i % 2 = 1)
                                                   /\ page'[memory'[t][i].req].pc # "idle"
                    /\ \A i, j \in DOMAIN memory'[t] : i < j =>
                         RankOf(memory'[t][i].req, memory'[t][i].user) < RankOf(memory'[t][j].req, memory'[t][j].user)
                    /\ Len(memory'[t]) % 2 = 1 =>
                         \E q \in Requests : handler'[q].pc \in Answering /\ handler'[q].session = t
  BY Zenon DEF InOrder
<1>0. memory' = memory /\ handler' = handler /\ memory[t] # None
  OBVIOUS
<1>1. \A i \in DOMAIN memory[t] : memory[t][i].req \in Requests
  BY <1>0, AgentIs
<1>2. /\ \A i \in DOMAIN memory[t] : memory[t][i].user = (i % 2 = 1) /\ page[memory[t][i].req].pc # "idle"
      /\ \A i, j \in DOMAIN memory[t] : i < j =>
           RankOf(memory[t][i].req, memory[t][i].user) < RankOf(memory[t][j].req, memory[t][j].user)
      /\ Len(memory[t]) % 2 = 1 => \E q \in Requests : handler[q].pc \in Answering /\ handler[q].session = t
  BY <1>0, Zenon DEF InOrder
<1> QED
  BY <1>0, <1>1, <1>2, Zenon

\* A request ends, with its answer remembered: the page shows messages of its session.
LEMMA ClosedCalm ==
  ASSUME ChatInv, Calm, NEW r \in Requests, NEW event, Arrives(r, event), handler[r].pc = "over",
         page' = [page EXCEPT ![r].pc = "closed"], temp' = FALSE,
         NEW s \in Sessions, s = handler[r].session, current' = s, Fits(shown', memory[s]),
         \A t \in Sessions : cached'[t] = cached[t] \/ (t = s /\ Fits(cached'[t], memory[t]))
  PROVE  Calm'
<1>1. /\ Open(r) /\ Heard(r) /\ Turns /\ InOrder /\ CachedFit
      /\ UNCHANGED <<up, memory, handler, raced, loads>>
      /\ wire' \in [Requests -> Seq(EventKinds)]
      /\ \A q \in Requests : q # r => wire'[q] = wire[q]
      /\ \A q \in Requests : Open(q) => q = r
      /\ loads = <<>>
  BY ArrivesIs
<1>2. /\ page'[r].pc = "closed" /\ \A q \in Requests : q # r => page'[q] = page[q]
      /\ page' \in [Requests -> [pc : {"idle", "open", "closed"}, temp : BOOLEAN,
                                 session : Sessions \cup {None}, stream : BOOLEAN]]
  <2>1. page \in [Requests -> [pc : {"idle", "open", "closed"}, temp : BOOLEAN,
                               session : Sessions \cup {None}, stream : BOOLEAN]]
    BY <1>1 DEF Turns
  <2>2. [page[r] EXCEPT !.pc = "closed"] \in [pc : {"idle", "open", "closed"}, temp : BOOLEAN,
                                             session : Sessions \cup {None}, stream : BOOLEAN]
    BY <2>1
  <2>3. page' = [page EXCEPT ![r] = [page[r] EXCEPT !.pc = "closed"]] /\ [page[r] EXCEPT !.pc = "closed"].pc = "closed"
    BY <2>1
  <2> QED
    BY <2>1, <2>2, <2>3
<1>3. \A q \in Requests : ~Open(q)'
  BY <1>1, <1>2 DEF Open
<1>4. \A q \in Requests : page'[q].pc = "idle" <=> page[q].pc = "idle"
  BY <1>1, <1>2 DEF Open
<1>5. Turns'
  <2>1. \A q \in Requests : page'[q].pc = "idle" => handler'[q].pc = "idle" /\ wire'[q] = <<>>
    BY <1>1, <1>4 DEF Turns, Open
  <2>2. \A q \in Requests : ~Works(q)'
    BY <1>1 DEF Turns, Works, Active
  <2>3. up' /\ raced' = {} /\ temp' \in BOOLEAN
    BY <1>1 DEF Turns
  <2>4. \A p, q \in Requests : (page'[p].pc # "idle" /\ page'[q].pc = "idle") => p < q
    BY <1>1, <1>4 DEF Turns
  <2> QED
    BY <1>1, <1>2, <1>3, <2>1, <2>2, <2>3, <2>4, Zenon DEF Turns
<1>6. InOrder'
  <2>1. memory \in Agents /\ \A q \in Requests : page[q].pc # "idle" => page'[q].pc # "idle"
    BY <1>4 DEF ChatInv, AgentInv
  <2> QED
    BY <1>1, <2>1, InOrderPage
<1>7. memory[s] # None /\ s # None
  BY <1>1 DEF Heard
<1>8. CachedFit'
  <2> SUFFICES ASSUME NEW t \in Sessions, cached'[t] # None
               PROVE  Fits(cached'[t], memory[t]) /\ memory[t] # None
    BY <1>1 DEF CachedFit
  <2>1. CASE t = s
    BY <1>1, <1>7, <2>1 DEF CachedFit
  <2>2. CASE t # s
    BY <1>1, <2>2 DEF CachedFit
  <2> QED
    BY <2>1, <2>2
<1>9. AtRest'
  BY <1>1, <1>7 DEF AtRest
<1> QED
  BY <1>3, <1>5, <1>6, <1>8, <1>9 DEF Calm

LEMMA StreamEndsCalm ==
  ASSUME ChatInv, Calm, NEW r \in Requests, StreamEnds(r)
  PROVE  Calm'
<1>1. PICK event \in {"eof", "lost"} : Arrives(r, event)
  BY DEF StreamEnds
<1>2. page' = [page EXCEPT ![r].pc = "closed"] /\ UNCHANGED <<shown, current, temp, cached>>
  BY DEF StreamEnds
<1>3. /\ OnItsWay(r) /\ Displayed(r) /\ Heard(r) /\ event \in EventKinds /\ wire[r][1] = event
      /\ Taken(wire[r], wire'[r]) /\ UNCHANGED memory /\ Turns
  BY <1>1, ArrivesIs
<1>4. PICK w : w = wire[r]
  OBVIOUS
<1>5. Len(w) \in Nat /\ DOMAIN w = 1 .. Len(w) /\ 1 \in DOMAIN w /\ w[1] = "eof"
  BY <1>3, <1>4 DEF Taken, EventKinds
<1>6. page[r].stream /\ 1 = Len(w) /\ handler[r].pc = "over"
  BY <1>3, <1>4, <1>5 DEF OnItsWay
<1>7. \A i \in DOMAIN w : w[i] = "eof"
  <2>0. DOMAIN w = 1 .. 1
    BY <1>5, <1>6, Zenon
  <2>1. \A i \in DOMAIN w : i = 1
    BY <2>0
  <2> QED
    BY <1>5, <2>1
<1>8. shown[Len(shown)] = ByModel(<<r>>) /\ current = handler[r].session /\ ~temp
  <2>1. shown[Len(shown)] = ByModel(<<r>>)
    BY <1>3, <1>4, <1>6, <1>7 DEF OnItsWay
  <2>2. current = handler[r].session /\ ~temp
    BY <1>3, <1>4, <1>6, <1>7 DEF OnItsWay, Displayed
  <2> QED
    BY <2>1, <2>2
<1>9. PICK s \in Sessions : s = handler[r].session
  BY <1>3 DEF ChatInv, AgentInv, HandlerStates, Named, Heard
<1>10. /\ memory[s] # None /\ memory[s] \in Seq(Messages)
       /\ Msg(s, r, TRUE) \in Elements(memory[s]) /\ Msg(s, r, FALSE) \in Elements(memory[s])
  BY <1>3, <1>6, <1>9 DEF Heard, ChatInv, AgentInv, Agents, Named
<1>11. PICK n \in Nat : n = Before(r) /\ n + 2 = Len(shown)
  <2>1. Len(shown) \in Nat
    BY DEF ChatInv, PageInv
  <2> QED
    BY <1>3, <1>6, <2>1 DEF Displayed, Before
<1>12. /\ FitsUpTo(shown, n, memory[s]) /\ shown[n + 1] = ByUser(r) /\ shown[n + 2] = ByModel(<<r>>)
       /\ \A i \in 1 .. n : Rank(shown[i]) < RankOf(r, TRUE)
  BY <1>3, <1>8, <1>9, <1>11 DEF Displayed
<1>13. Fits(shown, memory[s])
  BY <1>10, <1>11, <1>12, FitsExchange DEF Fits
<1>14. temp' = FALSE /\ current' = s /\ shown' = shown /\ cached' = cached
  BY <1>2, <1>3, <1>8, <1>9 DEF Turns
<1> QED
  BY <1>1, <1>2, <1>6, <1>9, <1>13, <1>14, ClosedCalm

LEMMA AnsweredCalm ==
  ASSUME ChatInv, Calm, NEW r \in Requests, Answered(r)
  PROVE  Calm'
<1> DEFINE exchange == <<ByUser(r), ByModel(<<r>>)>>
<1>1. /\ Arrives(r, "ok") /\ page' = [page EXCEPT ![r].pc = "closed"]
      /\ page[r].temp => /\ cached' = [cached EXCEPT ![handler[r].session] = exchange]
                         /\ current' = handler[r].session /\ temp' = FALSE /\ shown' = exchange
      /\ ~page[r].temp => shown' = Append(shown, ByModel(<<r>>)) /\ UNCHANGED <<cached, current, temp>>
  BY Zenon DEF Answered
<1>2. PICK event : event = "ok"
  OBVIOUS
<1>3. Arrives(r, event)
  BY <1>1, <1>2
<1>4. /\ OnItsWay(r) /\ Displayed(r) /\ Heard(r) /\ wire[r][1] = event
      /\ Taken(wire[r], wire'[r]) /\ UNCHANGED memory /\ Turns
  BY <1>3, ArrivesIs
<1>5. ~page[r].stream /\ handler[r].pc = "over"
  <2>1. 1 \in DOMAIN wire[r]
    BY <1>4 DEF Taken
  <2> QED
    BY <1>2, <1>4, <2>1 DEF OnItsWay
<1>6. PICK s \in Sessions : s = handler[r].session
  BY <1>4 DEF ChatInv, AgentInv, HandlerStates, Named, Heard
<1>7. /\ memory[s] # None /\ memory[s] \in Seq(Messages)
      /\ Msg(s, r, TRUE) \in Elements(memory[s]) /\ Msg(s, r, FALSE) \in Elements(memory[s])
  BY <1>4, <1>5, <1>6 DEF Heard, ChatInv, AgentInv, Agents, Named
<1>8. CASE page[r].temp
  <2>1. Len(exchange) = 2 /\ exchange[1] = ByUser(r) /\ exchange[2] = ByModel(<<r>>)
    OBVIOUS
  <2> HIDE DEF exchange
  <2>2. PICK n \in Nat : n = 0
    OBVIOUS
  <2>3. /\ FitsUpTo(exchange, n, memory[s]) /\ exchange[n + 1] = ByUser(r) /\ exchange[n + 2] = ByModel(<<r>>)
        /\ \A i \in 1 .. n : Rank(exchange[i]) < RankOf(r, TRUE)
    BY <2>1, <2>2 DEF FitsUpTo
  <2>4. Fits(exchange, memory[s])
    <3>1. FitsUpTo(exchange, n + 2, memory[s])
      BY <1>7, <2>3, FitsExchange
    <3>2. Len(exchange) = n + 2
      BY <2>1, <2>2
    <3> QED
      BY <3>1, <3>2 DEF Fits
  <2>5. cached \in [Sessions -> Seq(ShownMsgs) \cup {None}]
    BY DEF ChatInv, PageInv
  <2>6. \A t \in Sessions : cached'[t] = cached[t] \/ (t = s /\ Fits(cached'[t], memory[t]))
    BY <1>1, <1>6, <1>8, <2>4, <2>5
  <2>7. temp' = FALSE /\ current' = s /\ Fits(shown', memory[s])
    BY <1>1, <1>6, <1>8, <2>4
  <2> QED
    BY <1>1, <1>3, <1>5, <1>6, <2>6, <2>7, ClosedCalm
<1>9. CASE ~page[r].temp
  <2>1. PICK n : n = Len(shown)
    OBVIOUS
  <2>2. n \in Nat /\ shown \in Seq(ShownMsgs) /\ ByModel(<<r>>) \in ShownMsgs
    BY <2>1 DEF ChatInv, PageInv, ByModel, ShownMsgs
  <2>3. PICK k \in Nat : k = Before(r) /\ k + 1 = n
    BY <1>4, <1>5, <2>1, <2>2 DEF Displayed, Before
  <2>4. PICK list : list = shown'
    OBVIOUS
  <2>5. list = Append(shown, ByModel(<<r>>))
    BY <1>1, <1>9, <2>4
  <2>6. Len(list) = n + 1 /\ list[n + 1] = ByModel(<<r>>) /\ \A i \in 1 .. n : list[i] = shown[i]
    BY <2>1, <2>2, <2>5, AppendProperties
  <2>7. k + 2 = n + 1 /\ k + 1 \in 1 .. n /\ \A i \in 1 .. k : i \in 1 .. n
    BY <2>2, <2>3
  <2>8. shown[k + 1] = ByUser(r) /\ FitsUpTo(shown, k, memory[s]) /\ \A i \in 1 .. k : Rank(shown[i]) < RankOf(r, TRUE)
    BY <1>4, <1>6, <2>3 DEF Displayed
  <2>9. FitsUpTo(list, k, memory[s])
    BY <2>6, <2>7, <2>8 DEF FitsUpTo
  <2>10. list[k + 1] = ByUser(r) /\ list[k + 2] = ByModel(<<r>>) /\ Len(list) = k + 2
    BY <2>6, <2>7, <2>8
  <2>11. \A i \in 1 .. k : Rank(list[i]) < RankOf(r, TRUE)
    BY <2>6, <2>7, <2>8
  <2>12. FitsUpTo(list, k + 2, memory[s])
    BY <1>7, <2>9, <2>10, <2>11, FitsExchange
  <2>13. Fits(list, memory[s])
    BY <2>10, <2>12 DEF Fits
  <2>14. temp' = FALSE /\ current' = s /\ Fits(shown', memory[s]) /\ cached' = cached
    BY <1>1, <1>4, <1>6, <1>9, <2>4, <2>13 DEF Displayed, Turns
  <2> QED
    BY <1>1, <1>3, <1>5, <1>6, <2>14, ClosedCalm
<1> QED
  BY <1>8, <1>9

LEMMA EventCalm ==
  ASSUME ChatInv, Calm, NEW r \in Requests, ReadEvent(r)
  PROVE  Calm'
<1>1. ~Failed(r) /\ ~Rejected(r)
  <2>1. ASSUME NEW event \in {"fail", "lost"}, Arrives(r, event) PROVE FALSE
    <3>1. event \in EventKinds
      BY <2>1, ArrivesIs
    <3> QED
      BY <3>1 DEF EventKinds
  <2> QED
    BY <2>1 DEF Failed, Rejected
<1> QED
  BY <1>1, SessionIdCalm, ChunkCalm, DoneCalm, StreamEndsCalm, AnsweredCalm DEF ReadEvent

\* The user, or the sidebar, acts while nothing is under way: what is left of Calm.
LEMMA MovedCalm ==
  ASSUME ChatInv, Calm, ~overlap', Acts, UNCHANGED <<backVars, page>>, temp' \in BOOLEAN,
         temp' => current' = None /\ shown' = <<>> /\ loads' = <<>>,
         CachedFit', current' # None => memory[current'] # None,
         (current' # None /\ loads' = <<>>) => Fits(shown', memory[current']),
         loads' # <<>> => Len(loads') = 1 /\ current' # None /\ loads'[1].session = current' /\ loads'[1].reply = None
  PROVE  Calm'
<1>1. Turns /\ InOrder /\ UNCHANGED <<up, raced, memory, handler, wire>> /\ loads = <<>> /\ \A r \in Requests : ~Open(r)
  BY DEF Calm, backVars, Acts, InFlight, Open
<1>2. \A r \in Requests : ~Open(r)'
  BY <1>1 DEF Open
<1>3. Turns'
  <2>1. \A r \in Requests : ~Works(r)'
    BY <1>1 DEF Turns, Works
  <2> QED
    BY <1>1, <1>2, <2>1 DEF Turns
<1>4. InOrder'
  BY <1>1, SameInOrder
<1>5. AtRest'
  BY <1>1 DEF AtRest
<1> QED
  BY <1>2, <1>3, <1>4, <1>5 DEF Calm

LEMMA MoveCalm ==
  ASSUME ChatInv, Calm, ~overlap', CreateNewSession \/ FetchSessions \/ \E s \in Sessions : SwitchSession(s)
  PROVE  Calm'
<1>1. Acts /\ UNCHANGED <<backVars, page>>
  BY DEF CreateNewSession, FetchSessions, SwitchSession, Move
<1>2. /\ Turns /\ CachedFit /\ AtRest /\ loads = <<>> /\ (\A r \in Requests : ~Open(r)) /\ (temp => current = None)
      /\ UNCHANGED <<memory, handler>>
  BY <1>1 DEF Calm, Acts, InFlight, Open, backVars
<1>3. /\ temp => shown = <<>>
      /\ current # None => memory[current] # None /\ Fits(shown, memory[current])
  BY <1>2 DEF AtRest
<1>5. CASE CreateNewSession
  <2>1. current' = None /\ temp' = TRUE /\ shown' = <<>> /\ UNCHANGED <<cached, loads>>
    BY <1>5 DEF CreateNewSession
  <2>2. CachedFit'
    BY <1>1, <1>2, <2>1, Zenon DEF CachedFit, Open
  <2> QED
    BY <1>1, <1>2, <2>1, <2>2, MovedCalm
<1>6. CASE FetchSessions
  <2>1. /\ UNCHANGED <<shown, current, temp, loads>>
        /\ cached' = [s \in Sessions |-> IF s \in Parsed(SessionInfos) THEN <<>> ELSE None]
    BY <1>6 DEF FetchSessions
  <2>2. \A s \in Sessions : cached'[s] = None
    BY <2>1, NothingParsed
  <2>3. CachedFit'
    BY <2>2 DEF CachedFit
  <2>4. temp' \in BOOLEAN
    BY <1>2, <2>1 DEF Turns
  <2> QED
    BY <1>1, <1>2, <1>3, <2>1, <2>3, <2>4, MovedCalm
<1>7. ASSUME NEW s \in Sessions, SwitchSession(s) PROVE Calm'
  <2>1. /\ cached[s] # None /\ current' = s /\ temp' = FALSE /\ UNCHANGED cached
        /\ cached[s] = <<>> => loads' = Append(loads, [session |-> s, reply |-> None])
        /\ cached[s] # <<>> => shown' = cached[s] /\ UNCHANGED loads
    BY <1>7, Zenon DEF SwitchSession
  <2>2. memory[s] # None /\ Fits(cached[s], memory[s])
    BY <1>2, <2>1 DEF CachedFit
  <2>3. CachedFit'
    BY <1>1, <1>2, <2>1, Zenon DEF CachedFit, Open
  <2>4. s # None
    BY ChatAssumption
  <2>5. PICK load : load = [session |-> s, reply |-> None]
    OBVIOUS
  <2>6. Append(<<>>, load) = <<load>> /\ load.session = s /\ load.reply = None
    BY <2>5
  <2>7. cached[s] = <<>> => Len(loads') = 1 /\ loads'[1].session = s /\ loads'[1].reply = None /\ loads' # <<>>
    BY <1>2, <2>1, <2>5, <2>6
  <2>8. cached[s] # <<>> => loads' = <<>> /\ shown' = cached[s]
    BY <1>2, <2>1
  <2>9. loads' = <<>> => Fits(shown', memory[s])
    BY <2>2, <2>7, <2>8
  <2>10. loads' # <<>> => Len(loads') = 1 /\ loads'[1].session = s /\ loads'[1].reply = None
    BY <2>7, <2>8
  <2> QED
    BY <1>1, <2>1, <2>2, <2>3, <2>4, <2>9, <2>10, MovedCalm
<1> QED
  BY <1>5, <1>6, <1>7

\* A history is on its way: nothing else is, and it is that of the current session.
LEMMA Loading ==
  ASSUME ChatInv, Calm, loads # <<>>
  PROVE  /\ \A r \in Requests : ~Open(r)
         /\ DOMAIN loads = {1} /\ Len(loads) = 1 /\ current \in Sessions /\ memory[current] # None /\ ~temp
         /\ loads[1].session = current
         /\ loads[1].reply # None => loads[1].reply.ok /\ Fits(loads[1].reply.list, memory[current])
<1>1. \A r \in Requests : ~Open(r)
  BY DEF Calm, Turns
<1>2. /\ Len(loads) = 1 /\ current # None /\ loads[1].session = current /\ ~temp /\ memory[current] # None
      /\ loads[1].reply # None => loads[1].reply.ok /\ Fits(loads[1].reply.list, memory[current])
  BY <1>1 DEF Calm, AtRest
<1>3. current \in Sessions /\ DOMAIN loads = 1 .. 1
  BY <1>2 DEF ChatInv, PageInv, AgentInv
<1>4. 1 .. 1 = {1}
  OBVIOUS
<1> QED
  BY <1>1, <1>2, <1>3, <1>4

\* The history of an agent are its messages: questions and answers take turns in it.
LEMMA HistoryFits ==
  ASSUME InOrder, memory \in Agents, NEW s \in Sessions, memory[s] # None
  PROVE  Fits(History(s), memory[s])
<1>1. PICK mem : mem = memory[s]
  OBVIOUS
<1>2. /\ Len(mem) \in Nat /\ DOMAIN mem = 1 .. Len(mem) /\ \A i \in DOMAIN mem : mem[i] \in Messages
  BY <1>1, AgentIs
<1>3. /\ \A i \in DOMAIN mem : mem[i].user = (i % 2 = 1)
      /\ \A i, j \in DOMAIN mem : i < j => RankOf(mem[i].req, mem[i].user) < RankOf(mem[j].req, mem[j].user)
  BY <1>1, Zenon DEF InOrder
<1>4. PICK list : list = History(s)
  OBVIOUS
<1>5. list = [i \in DOMAIN mem |-> [user |-> i % 2 = 1, text |-> <<mem[i].req>>]]
  BY <1>1, <1>4 DEF History
<1>6. \A i \in DOMAIN mem : list[i] = Said(mem[i])
  <2> SUFFICES ASSUME NEW i \in DOMAIN mem PROVE list[i] = Said(mem[i])
    OBVIOUS
  <2>1. list[i] = [user |-> i % 2 = 1, text |-> <<mem[i].req>>]
    BY <1>5, Zenon
  <2>2. mem[i].user = (i % 2 = 1)
    BY <1>3, Zenon
  <2> QED
    BY <2>1, <2>2, Zenon DEF Said
<1>7. Len(list) = Len(mem)
  BY <1>2, <1>5
<1>8. \A i \in DOMAIN mem : Rank(list[i]) = RankOf(mem[i].req, mem[i].user)
  BY <1>2, <1>6, SaidIs
<1>9. \A i \in 1 .. Len(list) : mem # None /\ \E m \in Elements(mem) : list[i] = Said(m)
  BY <1>1, <1>2, <1>6, <1>7 DEF Elements
<1>10. \A i, j \in 1 .. Len(list) : i < j => Rank(list[i]) < Rank(list[j])
  BY <1>2, <1>3, <1>7, <1>8
<1> QED
  BY <1>1, <1>4, <1>9, <1>10 DEF Fits, FitsUpTo

LEMMA HistoryCalm == ASSUME ChatInv, Calm, GetChatHistory PROVE Calm'
<1>1. UNCHANGED <<up, raced, page, temp, wire, handler, memory, cached, shown, current>>
  BY DEF GetChatHistory, backVars
<1>2. PICK i \in DOMAIN loads :
        loads' = [loads EXCEPT ![i].reply =
                    IF up /\ GetAIAgent(loads[i].session)
                    THEN [ok |-> TRUE, list |-> History(loads[i].session)]
                    ELSE [ok |-> FALSE, list |-> <<>>]]
  BY DEF GetChatHistory
<1>3. /\ Turns /\ InOrder /\ CachedFit /\ (temp => current = None) /\ up /\ memory \in Agents /\ loads \in Seq(Loads)
  BY DEF Calm, Turns, ChatInv, AgentInv, PageInv
<1>4. loads # <<>>
  BY <1>2
<1>5. /\ \A r \in Requests : ~Open(r)
      /\ DOMAIN loads = {1} /\ Len(loads) = 1 /\ current \in Sessions /\ memory[current] # None /\ ~temp
      /\ loads[1].session = current
  BY <1>4, Loading
<1>6. i = 1
  BY <1>2, <1>5
<1>7. PICK reply : reply = [ok |-> TRUE, list |-> History(current)]
  OBVIOUS
<1>8. loads' = [loads EXCEPT ![1].reply = reply]
  BY <1>2, <1>3, <1>5, <1>6, <1>7 DEF GetAIAgent
<1>9. Fits(History(current), memory[current])
  BY <1>3, <1>5, HistoryFits
<1>10. reply.ok /\ Fits(reply.list, memory[current])
  BY <1>7, <1>9
<1>11. Len(loads') = 1 /\ loads'[1].session = current /\ loads'[1].reply = reply
  <2>1. loads \in [1 .. 1 -> Loads] /\ Len(loads) = 1 /\ loads[1] \in Loads
    <3>1. loads \in [1 .. Len(loads) -> Loads]
      BY <1>3
    <3>2. loads \in [1 .. 1 -> Loads] /\ 1 \in 1 .. 1
      BY <1>5, <3>1
    <3> QED
      BY <1>5, <3>2
  <2>2. loads' = [loads EXCEPT ![1] = [loads[1] EXCEPT !.reply = reply]]
    BY <1>8
  <2>3. [loads[1] EXCEPT !.reply = reply].session = current /\ [loads[1] EXCEPT !.reply = reply].reply = reply
    BY <1>5, <2>1 DEF Loads
  <2>4. loads'[1] = [loads[1] EXCEPT !.reply = reply] /\ DOMAIN loads' = 1 .. 1
    <3>1. 1 \in DOMAIN loads /\ DOMAIN loads = 1 .. 1
      BY <2>1
    <3> QED
      BY <2>2, <3>1, Zenon
  <2>5. Len(loads') = 1
    <3>1. loads' \in Seq(Loads)
      BY HistoryKeeps DEF ChatInv, PageInv
    <3>2. PICK k \in Nat : k = Len(loads') /\ DOMAIN loads' = 1 .. k
      BY <3>1
    <3>3. 1 .. k = 1 .. 1
      BY <2>4, <3>2
    <3>4. k = 1
      BY <3>3
    <3> QED
      BY <3>2, <3>4
  <2> QED
    BY <2>3, <2>4, <2>5
<1>12. loads' # <<>>
  BY <1>11
<1>13. \A r \in Requests : ~Open(r)'
  BY <1>1, <1>5 DEF Open
<1>14. Turns'
  <2>1. \A r \in Requests : ~Works(r)
    BY <1>3, <1>5 DEF Turns
  <2>2. \A r \in Requests : ~Works(r)'
    BY <1>1, <2>1 DEF Works
  <2> QED
    BY <1>1, <1>3, <1>13, <2>2 DEF Turns
<1>15. InOrder'
  BY <1>1, <1>3, SameInOrder
<1>16. CachedFit'
  BY <1>1, <1>3, Zenon DEF CachedFit, Open
<1>17. AtRest'
  <2>1. ~temp' /\ current' = current /\ current # None /\ memory' = memory /\ memory[current] # None
    BY <1>1, <1>5, ChatAssumption
  <2> QED
    BY <1>10, <1>11, <1>12, <2>1, Zenon DEF AtRest
<1> QED
  BY <1>1, <1>3, <1>13, <1>14, <1>15, <1>16, <1>17 DEF Calm

LEMMA LoadCalm == ASSUME ChatInv, Calm, LoadReturns PROVE Calm'
<1>1. UNCHANGED <<up, raced, page, temp, wire, handler, memory, current>>
  BY DEF LoadReturns, backVars
<1>2. PICK i \in DOMAIN loads :
        /\ loads[i].reply # None
        /\ loads' = SubSeq(loads, 1, i - 1) \o SubSeq(loads, i + 1, Len(loads))
        /\ \/ /\ shown' = loads[i].reply.list
              /\ cached' = [cached EXCEPT ![loads[i].session] = IF @ = None THEN None ELSE loads[i].reply.list]
           \/ ~loads[i].reply.ok
  BY DEF LoadReturns
<1>3. /\ Turns /\ InOrder /\ CachedFit /\ (temp => current = None) /\ loads \in Seq(Loads)
      /\ cached \in [Sessions -> Seq(ShownMsgs) \cup {None}]
  BY DEF Calm, ChatInv, PageInv
<1>4. loads # <<>>
  BY <1>2
<1>5. /\ \A r \in Requests : ~Open(r)
      /\ DOMAIN loads = {1} /\ Len(loads) = 1 /\ current \in Sessions /\ memory[current] # None /\ ~temp
      /\ loads[1].session = current
      /\ loads[1].reply # None => loads[1].reply.ok /\ Fits(loads[1].reply.list, memory[current])
  BY <1>4, Loading
<1>6. i = 1 /\ Len(loads) = 1
  BY <1>2, <1>3, <1>5
<1>7. PICK list : list = loads[1].reply.list
  OBVIOUS
<1>8. /\ shown' = list /\ cached' = [cached EXCEPT ![current] = IF @ = None THEN None ELSE list]
      /\ Fits(list, memory[current])
  BY <1>2, <1>5, <1>6, <1>7
<1>9. loads' = <<>>
  <2>1. loads' = SubSeq(loads, 1, 0) \o SubSeq(loads, 2, 1)
    BY <1>2, <1>6
  <2>2. SubSeq(loads, 1, 0) = <<>> /\ SubSeq(loads, 2, 1) = <<>>
    BY <1>3
  <2> QED
    BY <2>1, <2>2
<1>10. \A r \in Requests : ~Open(r)'
  BY <1>1, <1>5 DEF Open
<1>11. Turns'
  <2>1. \A r \in Requests : ~Works(r)
    BY <1>3, <1>5 DEF Turns
  <2>2. \A r \in Requests : ~Works(r)'
    BY <1>1, <2>1 DEF Works
  <2> QED
    BY <1>1, <1>3, <1>10, <2>2 DEF Turns
<1>12. InOrder'
  BY <1>1, <1>3, SameInOrder
<1>13. CachedFit'
  <2> SUFFICES ASSUME NEW t \in Sessions, cached'[t] # None
               PROVE  Fits(cached'[t], memory[t]) /\ memory[t] # None
    BY <1>1 DEF CachedFit
  <2>1. CASE t = current
    BY <1>3, <1>5, <1>8, <2>1
  <2>2. CASE t # current
    BY <1>3, <1>5, <1>8, <2>2 DEF CachedFit
  <2> QED
    BY <2>1, <2>2
<1>14. AtRest'
  BY <1>1, <1>5, <1>8, <1>9 DEF AtRest
<1> QED
  BY <1>1, <1>3, <1>10, <1>11, <1>12, <1>13, <1>14 DEF Calm

LEMMA HandleCalm ==
  ASSUME ChatInv, Calm, NEW r \in Requests, Handle(r), UNCHANGED pageVars, ~failed'
  PROVE  Calm'
<1>1. CASE AddRead(r, "addQ", "putQ") \/ AddRead(r, "addA", "putA")
  <2>1. PICK pc, next : AddRead(r, pc, next) /\ ((pc = "addQ" /\ next = "putQ") \/ (pc = "addA" /\ next = "putA"))
    BY <1>1
  <2> QED
    BY <2>1, AddReadCalm
<1>2. CASE AddWrite(r, "putQ", TRUE, "model")
  <2>1. PICK pc, next : pc = "putQ" /\ next = "model"
    OBVIOUS
  <2>2. AddWrite(r, pc, TRUE, next) /\ TRUE \in BOOLEAN
    BY <1>2, <2>1, Zenon
  <2> QED
    BY <2>1, <2>2, AddWriteCalm, Zenon
<1>3. CASE AddWrite(r, "putA", FALSE, "end")
  <2>1. PICK pc, next : pc = "putA" /\ next = "end"
    OBVIOUS
  <2>2. AddWrite(r, pc, FALSE, next) /\ FALSE \in BOOLEAN
    BY <1>3, <2>1, Zenon
  <2> QED
    BY <2>1, <2>2, AddWriteCalm, Zenon
<1> QED
  BY <1>1, <1>2, <1>3, AgentCalm, ModelCalm, AnswerCalm DEF Handle, AddQuestion, AddAnswer

LEMMA CalmInit == Init => CalmInv
<1> SUFFICES ASSUME Init PROVE Calm
  BY DEF CalmInv
<1>1. /\ up /\ raced = {} /\ temp = FALSE /\ current = None /\ loads = <<>> /\ shown = <<>>
      /\ memory = [s \in Named |-> None] /\ cached = [s \in Sessions |-> None]
      /\ handler = [r \in Requests |-> NoHandler] /\ wire = [r \in Requests |-> <<>>]
      /\ page = [r \in Requests |-> NoPage]
  BY DEF Init, BackInit
<1>2. \A r \in Requests : page[r].pc = "idle" /\ handler[r].pc = "idle" /\ wire[r] = <<>>
  BY <1>1 DEF NoPage, NoHandler
<1>3. Turns
  <2>1. wire \in [Requests -> Seq(EventKinds)]
    <3>1. <<>> \in Seq(EventKinds)
      OBVIOUS
    <3> QED
      BY <1>1, <3>1
  <2>2. page \in [Requests -> [pc : {"idle", "open", "closed"}, temp : BOOLEAN,
                               session : Sessions \cup {None}, stream : BOOLEAN]]
    BY <1>1 DEF NoPage
  <2>3. \A r \in Requests : ~Works(r) /\ ~Open(r)
    BY <1>2 DEF Works, Active, Open
  <2> QED
    BY <1>1, <1>2, <2>1, <2>2, <2>3 DEF Turns
<1>4. InOrder /\ CachedFit
  BY <1>1 DEF InOrder, CachedFit, Named
<1>5. AtRest
  BY <1>1 DEF AtRest
<1> QED
  BY <1>1, <1>2, <1>3, <1>4, <1>5 DEF Calm, Open

LEMMA CalmNext == ChatInv /\ CalmInv /\ [Next]_vars => CalmInv'
<1> SUFFICES ASSUME ChatInv, CalmInv, [Next]_vars, ~failed', ~overlap' PROVE Calm'
  BY DEF CalmInv
<1>1. CASE Backend
  <2>1. BackNext /\ UNCHANGED pageVars /\ ~overlap
    BY <1>1 DEF Backend, pageVars
  <2>2. ASSUME NEW r \in Requests, Handle(r) PROVE Calm'
    <3>1. ~failed
      BY <2>2 DEF Handle, GetOrCreateAIAgent, AddQuestion, AddAnswer, AddRead, AddWrite, Model, Answer, Fails
    <3> QED
      BY <2>1, <2>2, <3>1, HandleCalm DEF CalmInv
  <2>3. CASE ReadMessage \/ MQMessage
    <3>1. ~failed /\ UNCHANGED <<up, raced, wire, handler, memory>>
      BY <2>3 DEF ReadMessage, MQMessage, lifeVars
    <3>2. UNCHANGED <<page, temp, loads, cached, shown, current>>
      BY <2>1 DEF pageVars
    <3> QED
      BY <2>1, <3>1, <3>2, SameCalm DEF CalmInv
  <2>4. ~Crash
    BY DEF Crash
  <2>5. CASE Restart
    <3>1. ~failed /\ ~up
      BY <2>5 DEF Restart
    <3> QED
      BY <2>1, <3>1 DEF CalmInv, Calm, Turns
  <2> QED
    BY <2>1, <2>2, <2>3, <2>4, <2>5 DEF BackNext
<1>2. ASSUME NEW r \in Requests, HandleStreaming(r) \/ HandleNormal(r) PROVE Calm'
  <2>1. ~overlap
    BY <1>2 DEF HandleStreaming, HandleNormal, SendMessage, Acts
  <2>2. ~failed
    BY <1>2 DEF HandleStreaming, HandleNormal, CreateStreamSessionAndSendMessage, ChatStreamSend,
                CreateSessionAndSendMessage, ChatSend, ReceiveNew, Receive, Refuse, Fails
  <2> QED
    BY <1>2, <2>1, <2>2, SendCalm DEF CalmInv
<1>8. ASSUME NEW r \in Requests, NEW s \in Named, NEW stream \in BOOLEAN, OtherPage(r, s, stream)
      PROVE  Calm'
  BY <1>8 DEF OtherPage
<1>3. ASSUME NEW r \in Requests, ReadEvent(r) PROVE Calm'
  <2>1. \E event : Arrives(r, event)
    <3>1. \/ Arrives(r, "sid") \/ Arrives(r, "chunk") \/ Arrives(r, "done") \/ Arrives(r, "eof")
          \/ Arrives(r, "ok") \/ Arrives(r, "fail") \/ Arrives(r, "lost")
      BY <1>3 DEF ReadEvent, SessionId, Chunk, Done, StreamEnds, Answered, Failed, Rejected
    <3> QED
      BY <3>1, Zenon
  <2>2. ~failed /\ ~overlap
    BY <2>1 DEF Arrives
  <2> QED
    BY <1>3, <2>2, EventCalm DEF CalmInv
<1>4. CASE CreateNewSession \/ FetchSessions \/ \E s \in Sessions : SwitchSession(s)
  <2>1. ~failed /\ ~overlap
    <3>1. Move
      BY <1>4 DEF CreateNewSession, FetchSessions, SwitchSession
    <3> QED
      BY <3>1 DEF Move, Acts, backVars
  <2> QED
    BY <1>4, <2>1, MoveCalm DEF CalmInv
<1>5. CASE GetChatHistory
  <2>1. ~failed /\ ~overlap
    BY <1>5 DEF GetChatHistory, backVars
  <2> QED
    BY <1>5, <2>1, HistoryCalm DEF CalmInv
<1>6. CASE LoadReturns
  <2>1. ~failed /\ ~overlap
    BY <1>6 DEF LoadReturns, backVars
  <2> QED
    BY <1>6, <2>1, LoadCalm DEF CalmInv
<1>7. CASE UNCHANGED vars
  <2>1. /\ UNCHANGED <<up, raced, page, temp, wire, handler, loads, memory, cached, shown, current>>
        /\ ~failed /\ ~overlap
    BY <1>7 DEF vars, backVars, pageVars
  <2> QED
    BY <2>1, SameCalm DEF CalmInv
<1> QED
  BY <1>1, <1>2, <1>3, <1>4, <1>5, <1>6, <1>7, <1>8 DEF Next

\* However many requests and sessions: without a failure, and one thing at a time, what
\* the page shows under a session are messages of that session's agent, by the same
\* author and in the same order (use-chat.ts:60-256, session.go:154-175).
THEOREM ShownBelongsAlways == Spec => []ShownBelongs
<1>1. Init => ChatInv /\ CalmInv
  BY ChatInit, CalmInit
<1>2. ChatInv /\ CalmInv /\ [Next]_vars => ChatInv' /\ CalmInv'
  BY ChatNext, CalmNext
<1>3. ChatInv /\ CalmInv => ShownBelongs
  BY CalmShows
<1> QED
  BY <1>1, <1>2, <1>3, PTL DEF Spec
=============================================================================
