----------------------- MODULE ResumableUploadProofs -----------------------
(***************************************************************************)
(* The upload of a large PDF, for every number of chunks, tabs, requests,  *)
(* attempts, broken bodies, lost answers and restarts: the types of its    *)
(* state, and that what it stores is the whole file.                       *)
(*                                                                         *)
(* Neither follows from one step.  A chunk is whole because the request    *)
(* that renames it counted what it wrote into the very file that is at the *)
(* temporary path; so the invariant says, for as long as no two requests   *)
(* write a chunk at once, what each request, each path and the one tab     *)
(* that assembles have in hand.                                            *)
(***************************************************************************)
EXTENDS ResumableUpload, FiniteSetTheorems, TLAPS

Many == Cardinality(Chunks)

\* The states of a PUT request that has the temporary file open.
InWork == {"writing", "checked", "replacing"}

UnusedRequest == [st |-> "unused"]

SomeRequest ==
  [st : InWork \cup {"sent", "stored", "refused"}, from : Clients, chunk : Chunks, file : Requests,
   off : 0 .. 2, awaited : BOOLEAN]

SomeClient ==
  [st : {"idle", "sending", "completing", "failed", "done"}, todo : SUBSET Chunks, tries : [Chunks -> 0 .. Attempts]]

SomeComplete == [st : {"none", "sent", "assembling", "stored"}, next : 1 .. Many + 1]

\* The state keeps its types.
UploadTypeOK ==
  /\ dir \in BOOLEAN /\ overlap \in BOOLEAN /\ breaks \in 0 .. MaxBreaks
  /\ tmp \in [Chunks -> Requests \cup {NoRequest}]
  /\ part \in [Chunks -> Requests \cup {NoRequest}]
  /\ data \in [Requests -> SUBSET Halves]
  /\ req \in [Requests -> SomeRequest \cup {UnusedRequest}]
  /\ client \in [Clients -> SomeClient]
  /\ complete \in [Clients -> SomeComplete]
  /\ target \in [Chunks -> SUBSET Halves]
  /\ result \in SUBSET [Chunks -> SUBSET Halves]

-----------------------------------------------------------------------------
(* Files and paths.                                                        *)

\* f is a file that some request created for chunk i.
FileOf(f, i) == f \in Requests /\ req[f].st \notin {"unused", "sent"} /\ req[f].chunk = i

\* What is at the paths of a chunk belongs to it, the file being written is not the
\* chunk received, and nothing is left in a directory that was removed.
PathsOf(i) ==
  /\ tmp[i] # NoRequest => FileOf(tmp[i], i) /\ tmp[i] # part[i]
  /\ part[i] # NoRequest => FileOf(part[i], i)
  /\ ~dir => tmp[i] = NoRequest /\ part[i] = NoRequest

\* The file a request has open belongs to its chunk.
Opened(k) == req[k].st \in InWork => FileOf(req[k].file, req[k].chunk)

Files == (\A i \in Chunks : PathsOf(i)) /\ \A k \in Requests : Opened(k)

-----------------------------------------------------------------------------
(* What is in them while no two requests write one chunk.                  *)

\* A request in work is the only one of its chunk.
Alone(k) == \A j \in Requests : req[j].st \in InWork /\ req[j].chunk = req[k].chunk => j = k

\* The file it has open is the one at the temporary path, if any is, and not the
\* chunk received before; it holds what the request has written so far.
InHand(k) ==
  LET f == req[k].file
      i == req[k].chunk IN
  /\ Alone(k)
  /\ tmp[i] \in {f, NoRequest} /\ part[i] # f
  /\ data[f] = IF req[k].st = "writing" THEN {h \in Halves : h < req[k].off} ELSE Halves

\* A chunk received is whole.
Whole(i) == part[i] # NoRequest => data[part[i]] = Halves

\* The tab that assembles is the only one, and what it has appended is whole.
Appended(c) ==
  complete[c].st \in {"assembling", "stored"} =>
    /\ \A d \in Clients : complete[d].st \in {"assembling", "stored"} => d = c
    /\ \A i \in Chunks : i < complete[c].next => target[i] = Halves

Contents ==
  /\ \A k \in Requests : req[k].st \in InWork => InHand(k)
  /\ \A i \in Chunks : Whole(i)
  /\ \A c \in Clients : Appended(c)
  /\ \A f \in result : \A i \in Chunks : f[i] = Halves

\* What was only sent begins at the beginning: a request with the first half, an
\* assembly with the first chunk.
Fresh ==
  /\ \A k \in Requests : req[k].st = "sent" => req[k].off = 0
  /\ \A c \in Clients : complete[c].st = "sent" => complete[c].next = 1

UploadInv == UploadTypeOK /\ Files /\ Fresh /\ (~overlap => Contents)

-----------------------------------------------------------------------------
(* Facts the steps share.                                                  *)

\* The chunks are numbered from 1, and after the last comes none.
LEMMA ChunkNumbers ==
  /\ Many \in Nat /\ Chunks = 1 .. Many /\ NoRequest \notin Requests /\ Attempts \in Nat /\ MaxBreaks \in Nat
PROOF
  <1>1. Many \in Nat
    BY ResumableAssumption, FS_CardinalityType DEF Many
  <1> QED
    BY <1>1, ResumableAssumption DEF Many

\* A request that was sent has all its fields (resumable_upload.go:122).
LEMMA RequestFields ==
  ASSUME UploadTypeOK, NEW k \in Requests, req[k].st # "unused"
  PROVE  /\ req[k] \in SomeRequest
         /\ req[k].st \in InWork \cup {"sent", "stored", "refused"} /\ req[k].from \in Clients
         /\ req[k].chunk \in Chunks /\ req[k].file \in Requests /\ req[k].off \in 0 .. 2
         /\ req[k].awaited \in BOOLEAN
PROOF
  <1>1. req[k] \in SomeRequest \cup {UnusedRequest}
    BY DEF UploadTypeOK
  <1>2. UnusedRequest.st = "unused"
    BY DEF UnusedRequest
  <1>3. req[k] \in SomeRequest
    BY <1>1, <1>2
  <1> QED
    BY <1>3 DEF SomeRequest

\* What a step writes into a request keeps its fields typed.
LEMMA RequestUpdates ==
  ASSUME NEW r \in SomeRequest
  PROVE  /\ \A s \in InWork \cup {"sent", "stored", "refused"} : [r EXCEPT !.st = s] \in SomeRequest
         /\ [r EXCEPT !.awaited = FALSE] \in SomeRequest
         /\ r.off < 2 => [r EXCEPT !.off = @ + 1] \in SomeRequest
PROOF
  <1>1. ASSUME NEW s \in InWork \cup {"sent", "stored", "refused"}  PROVE [r EXCEPT !.st = s] \in SomeRequest
    BY <1>1 DEF SomeRequest
  <1>2. [r EXCEPT !.awaited = FALSE] \in SomeRequest
    BY DEF SomeRequest
  <1>3. ASSUME r.off < 2  PROVE [r EXCEPT !.off = @ + 1] \in SomeRequest
    <2>1. r.off \in 0 .. 2 /\ r.off + 1 \in 0 .. 2
      BY <1>3 DEF SomeRequest
    <2> QED
      BY <2>1 DEF SomeRequest
  <1> QED
    BY <1>1, <1>2, <1>3

\* What a step writes into a tab keeps its fields typed.
LEMMA ClientUpdates ==
  ASSUME NEW r \in SomeClient
  PROVE  /\ \A s \in {"idle", "sending", "completing", "failed", "done"} : [r EXCEPT !.st = s] \in SomeClient
         /\ \A i \in Chunks : [r EXCEPT !.todo = @ \ {i}] \in SomeClient
         /\ \A i \in Chunks : r.tries[i] < Attempts => [r EXCEPT !.tries[i] = @ + 1] \in SomeClient
PROOF
  <1>1. ASSUME NEW s \in {"idle", "sending", "completing", "failed", "done"}  PROVE [r EXCEPT !.st = s] \in SomeClient
    BY DEF SomeClient
  <1>2. ASSUME NEW i \in Chunks  PROVE [r EXCEPT !.todo = @ \ {i}] \in SomeClient
    <2>1. r.todo \ {i} \in SUBSET Chunks
      BY DEF SomeClient
    <2> QED
      BY <2>1 DEF SomeClient
  <1>3. ASSUME NEW i \in Chunks, r.tries[i] < Attempts  PROVE [r EXCEPT !.tries[i] = @ + 1] \in SomeClient
    <2> DEFINE t == [r.tries EXCEPT ![i] = r.tries[i] + 1]
    <2>1. r.tries \in [Chunks -> 0 .. Attempts]
      BY DEF SomeClient
    <2>2. t \in [Chunks -> 0 .. Attempts]
      BY <1>3, <2>1, ChunkNumbers
    <2>3. [r EXCEPT !.tries[i] = @ + 1] = [r EXCEPT !.tries = t]
      BY DEF SomeClient
    <2> HIDE DEF t
    <2>4. [r EXCEPT !.tries = t] \in SomeClient
      BY <2>2 DEF SomeClient
    <2> QED
      BY <2>3, <2>4
  <1> QED
    BY <1>1, <1>2, <1>3

\* What a step writes into an assembly keeps its fields typed.
LEMMA CompleteUpdates ==
  ASSUME NEW r \in SomeComplete
  PROVE  /\ \A s \in {"none", "sent", "assembling", "stored"} : [r EXCEPT !.st = s] \in SomeComplete
         /\ r.next \in Chunks => [r EXCEPT !.next = @ + 1] \in SomeComplete
PROOF
  <1>1. ASSUME NEW s \in {"none", "sent", "assembling", "stored"}  PROVE [r EXCEPT !.st = s] \in SomeComplete
    BY DEF SomeComplete
  <1>2. ASSUME r.next \in Chunks  PROVE [r EXCEPT !.next = @ + 1] \in SomeComplete
    <2>1. r.next + 1 \in 1 .. Many + 1
      BY <1>2, ChunkNumbers
    <2> QED
      BY <2>1 DEF SomeComplete
  <1> QED
    BY <1>1, <1>2

-----------------------------------------------------------------------------
(* The types.                                                              *)

\* Every step of an upload keeps the types.
LEMMA TypeStep ==
  ASSUME UploadTypeOK, [ResumableNext]_resumableVars
  PROVE  UploadTypeOK'
PROOF
  <1> USE ChunkNumbers DEF UploadTypeOK
  <1>a. \A k \in Requests : req[k].st # "unused" => req[k] \in SomeRequest
    BY RequestFields
  <1>1. ASSUME NEW c \in Clients, BeginUpload(c)  PROVE UploadTypeOK'
    <2>1. [st |-> "sending", todo |-> Chunks \ Received, tries |-> [i \in Chunks |-> 0]] \in SomeClient
      BY DEF SomeClient
    <2> QED
      BY <1>1, <2>1 DEF BeginUpload
  <1>2. ASSUME NEW c \in Clients, NEW i \in Chunks, NEW k \in Requests, SendChunk(c, i, k)  PROVE UploadTypeOK'
    <2>1. [st |-> "sent", from |-> c, chunk |-> i, file |-> k, off |-> 0, awaited |-> TRUE] \in SomeRequest
      BY DEF SomeRequest
    <2>2. client[c] \in SomeClient /\ client[c].tries[i] < Attempts
      BY <1>2 DEF SendChunk
    <2>3. [client[c] EXCEPT !.tries[i] = @ + 1] \in SomeClient
      BY <2>2, ClientUpdates
    <2>4. client' = [client EXCEPT ![c] = [client[c] EXCEPT !.tries[i] = @ + 1]]
      BY <1>2 DEF SendChunk
    <2>5. client' \in [Clients -> SomeClient]
      BY <2>3, <2>4
    <2> QED
      BY <1>2, <2>1, <2>5 DEF SendChunk
  <1>3. ASSUME NEW k \in Requests, ChunkAnswered(k)  PROVE UploadTypeOK'
    <2>a. req[k] \in SomeRequest /\ req[k].from \in Clients /\ req[k].chunk \in Chunks
      BY <1>3, RequestFields DEF ChunkAnswered
    <2>1. [req[k] EXCEPT !.awaited = FALSE] \in SomeRequest /\ req[k].from \in Clients
      BY <2>a, RequestUpdates
    <2>2. [client[req[k].from] EXCEPT !.todo = @ \ {req[k].chunk}] \in SomeClient
      BY <2>a, ClientUpdates
    <2>3. client' \in [Clients -> SomeClient]
      BY <1>3, <2>1, <2>2 DEF ChunkAnswered
    <2> QED
      BY <1>3, <2>1, <2>3 DEF ChunkAnswered
  <1>4. ASSUME NEW k \in Requests, AnswerLost(k)  PROVE UploadTypeOK'
    <2>1. [req[k] EXCEPT !.awaited = FALSE] \in SomeRequest
      BY <1>4, <1>a, RequestUpdates DEF AnswerLost
    <2> QED
      BY <1>4, <2>1 DEF AnswerLost, Breaks
  <1>5. ASSUME NEW c \in Clients, SendComplete(c)  PROVE UploadTypeOK'
    <2>1. [client[c] EXCEPT !.st = "completing"] \in SomeClient
      BY ClientUpdates
    <2>2. [st |-> "sent", next |-> 1] \in SomeComplete
      BY DEF SomeComplete
    <2> QED
      BY <1>5, <2>1, <2>2 DEF SendComplete
  <1>6. ASSUME NEW c \in Clients, UploadChunkFails(c)  PROVE UploadTypeOK'
    <2>1. [client[c] EXCEPT !.st = "failed"] \in SomeClient
      BY ClientUpdates
    <2> QED
      BY <1>6, <2>1 DEF UploadChunkFails
  <1>7. ASSUME NEW k \in Requests, ChunkOpens(k)  PROVE UploadTypeOK'
    <2>1. req[k] \in SomeRequest
      BY <1>7, <1>a DEF ChunkOpens
    <2> DEFINE i == req[k].chunk
               f == IF tmp[i] = NoRequest THEN k ELSE tmp[i]
    <2>2. i \in Chunks /\ f \in Requests /\ [req[k] EXCEPT !.st = "refused"] \in SomeRequest
      BY <2>1 DEF SomeRequest
    <2>3. [req[k] EXCEPT !.st = "writing", !.file = f] \in SomeRequest
      BY <2>1, <2>2 DEF SomeRequest, InWork
    <2>4. CASE ~dir
      BY <1>7, <2>2, <2>4 DEF ChunkOpens
    <2>5. CASE dir
      <3>1. /\ tmp' = [tmp EXCEPT ![i] = f] /\ data' = [data EXCEPT ![f] = {}]
            /\ req' = [req EXCEPT ![k] = [req[k] EXCEPT !.st = "writing", !.file = f]]
            /\ overlap' \in BOOLEAN
        BY <1>7, <2>5 DEF ChunkOpens
      <3> QED
        BY <1>7, <2>2, <2>3, <3>1 DEF ChunkOpens
    <2> QED
      BY <2>4, <2>5
  <1>8. ASSUME NEW k \in Requests, ChunkWrites(k)  PROVE UploadTypeOK'
    <2>1. req[k] \in SomeRequest /\ req[k].off < 2
      BY <1>8, <1>a DEF ChunkWrites
    <2>2. req[k].off \in Halves /\ req[k].file \in Requests
      BY <2>1 DEF SomeRequest, Halves
    <2>3. [req[k] EXCEPT !.off = @ + 1] \in SomeRequest
      BY <2>1, RequestUpdates
    <2> QED
      BY <1>8, <2>2, <2>3 DEF ChunkWrites
  <1>9. ASSUME NEW k \in Requests, ChunkCopied(k)  PROVE UploadTypeOK'
    <2>1. /\ req[k].chunk \in Chunks /\ [req[k] EXCEPT !.st = "refused"] \in SomeRequest
          /\ [req[k] EXCEPT !.st = "checked"] \in SomeRequest
      BY <1>9, RequestFields, RequestUpdates DEF ChunkCopied, InWork
    <2>2. CASE req[k].off < 2
      <3>1. breaks' \in 0 .. MaxBreaks
        BY <1>9, <2>2 DEF ChunkCopied, Breaks
      <3> QED
        BY ZenonT(30), <1>9, <2>1, <2>2, <3>1 DEF ChunkCopied
    <2>3. CASE ~(req[k].off < 2)
      BY <1>9, <2>1, <2>3 DEF ChunkCopied
    <2> QED
      BY <2>2, <2>3
  <1>10. ASSUME NEW k \in Requests, ChunkRemoved(k)  PROVE UploadTypeOK'
    <2>1. req[k].chunk \in Chunks /\ [req[k] EXCEPT !.st = "replacing"] \in SomeRequest
      BY <1>10, RequestFields, RequestUpdates DEF ChunkRemoved, InWork
    <2> QED
      BY <1>10, <2>1 DEF ChunkRemoved
  <1>11. ASSUME NEW k \in Requests, ChunkRenamed(k)  PROVE UploadTypeOK'
    <2>1. /\ req[k].chunk \in Chunks /\ [req[k] EXCEPT !.st = "refused"] \in SomeRequest
          /\ [req[k] EXCEPT !.st = "stored"] \in SomeRequest
      BY <1>11, RequestFields, RequestUpdates DEF ChunkRenamed
    <2> QED
      BY ZenonT(30), <1>11, <2>1 DEF ChunkRenamed
  <1>b1. ASSUME NEW c \in Clients  PROVE /\ [client[c] EXCEPT !.st = "failed"] \in SomeClient
                                         /\ [client[c] EXCEPT !.st = "done"] \in SomeClient
    BY ClientUpdates
  <1>b2. ASSUME NEW c \in Clients, NEW s \in {"none", "assembling", "stored"}
         PROVE  [complete[c] EXCEPT !.st = s] \in SomeComplete
    BY CompleteUpdates
  <1>12. ASSUME NEW c \in Clients, CompleteBegins(c)  PROVE UploadTypeOK'
    BY <1>12, <1>b1, <1>b2 DEF CompleteBegins, CompleteFails, Nothing
  <1>13. ASSUME NEW c \in Clients, ChunkAssembled(c)  PROVE UploadTypeOK'
    <2>1. complete[c].next \in Chunks /\ complete[c] \in SomeComplete
      BY <1>13 DEF ChunkAssembled
    <2>2. [complete[c] EXCEPT !.next = @ + 1] \in SomeComplete
      BY <2>1, CompleteUpdates
    <2>3. part[complete[c].next] # NoRequest => data[part[complete[c].next]] \in SUBSET Halves
      BY <2>1
    <2> QED
      BY ZenonT(30), <1>13, <1>b1, <1>b2, <2>1, <2>2, <2>3 DEF ChunkAssembled, CompleteFails
  <1>14. ASSUME NEW c \in Clients, FileStored(c)  PROVE UploadTypeOK'
    BY <1>14, <1>b2 DEF FileStored
  <1>15. ASSUME NEW c \in Clients, DirectoryRemoved(c)  PROVE UploadTypeOK'
    BY <1>15, <1>b1, <1>b2 DEF DirectoryRemoved
  <1>16. ASSUME ServerRestarts  PROVE UploadTypeOK'
    <2>1. ASSUME NEW k \in Requests, req[k].st \notin {"unused", "stored", "refused"}
          PROVE  [req[k] EXCEPT !.st = "refused"] \in SomeRequest
      BY <2>1, <1>a, RequestUpdates
    <2>2. req' \in [Requests -> SomeRequest \cup {UnusedRequest}]
      BY <1>16, <2>1 DEF ServerRestarts
    <2>3. client' \in [Clients -> SomeClient] /\ complete' \in [Clients -> SomeComplete]
      BY <1>16, <1>b1, <1>b2 DEF ServerRestarts
    <2> QED
      BY <1>16, <2>2, <2>3 DEF ServerRestarts, Breaks
  <1>17. CASE UNCHANGED resumableVars
    BY <1>17 DEF resumableVars
  <1> QED
    BY <1>1, <1>2, <1>3, <1>4, <1>5, <1>6, <1>7, <1>8, <1>9, <1>10, <1>11, <1>12, <1>13, <1>14, <1>15, <1>16, <1>17
    DEF ResumableNext

-----------------------------------------------------------------------------
(* Files and paths.                                                        *)

\* What opening the temporary file does to a request and the paths, while the
\* directory is there (resumable_upload.go:163).
LEMMA OpensEffect ==
  ASSUME UploadTypeOK, NEW k \in Requests, ChunkOpens(k), dir
  PROVE  \E i \in Chunks, f \in Requests :
         /\ i = req[k].chunk /\ f = IF tmp[i] = NoRequest THEN k ELSE tmp[i]
         /\ req[k].st = "sent"
         /\ req'[k].st = "writing" /\ req'[k].chunk = i /\ req'[k].file = f /\ req'[k].off = req[k].off
         /\ \A j \in Requests : j # k => req'[j] = req[j]
         /\ tmp' = [tmp EXCEPT ![i] = f] /\ data' = [data EXCEPT ![f] = {}]
         /\ part' = part /\ dir' = dir /\ ((\E j \in Requests : req[j].st \in InWork /\ req[j].chunk = i) => overlap')
PROOF
  <1> DEFINE i == req[k].chunk
             f == IF tmp[i] = NoRequest THEN k ELSE tmp[i]
  <1>1. req[k].st = "sent" /\ req[k] \in SomeRequest /\ i \in Chunks /\ f \in Requests
    BY RequestFields DEF ChunkOpens, UploadTypeOK
  <1>2. /\ req' = [req EXCEPT ![k] = [req[k] EXCEPT !.st = "writing", !.file = f]]
        /\ tmp' = [tmp EXCEPT ![i] = f] /\ data' = [data EXCEPT ![f] = {}]
        /\ part' = part /\ dir' = dir /\ ((\E j \in Requests : req[j].st \in InWork /\ req[j].chunk = i) => overlap')
    BY DEF ChunkOpens, UploadTypeOK, Writing, InWork
  <1>3. /\ [req[k] EXCEPT !.st = "writing", !.file = f].st = "writing"
        /\ [req[k] EXCEPT !.st = "writing", !.file = f].chunk = req[k].chunk
        /\ [req[k] EXCEPT !.st = "writing", !.file = f].file = f
        /\ [req[k] EXCEPT !.st = "writing", !.file = f].off = req[k].off
    BY <1>1 DEF SomeRequest
  <1>4. req \in [Requests -> SomeRequest \cup {UnusedRequest}]
    BY DEF UploadTypeOK
  <1>5. req'[k] = [req[k] EXCEPT !.st = "writing", !.file = f] /\ \A j \in Requests : j # k => req'[j] = req[j]
    BY <1>2, <1>4
  <1> QED
    BY <1>1, <1>2, <1>3, <1>5

\* A request keeps its chunk and, once it has opened it, its file, and never goes
\* back; only its own opening brings it to work.
LEMMA RequestStays ==
  ASSUME UploadTypeOK, [ResumableNext]_resumableVars, NEW j \in Requests
  PROVE  /\ req[j].st \notin {"unused", "sent"} => req'[j].st \notin {"unused", "sent"} /\ req'[j].chunk = req[j].chunk
         /\ req'[j].st \in InWork =>
              \/ req[j].st \in InWork /\ req'[j].file = req[j].file
              \/ ChunkOpens(j) /\ dir
PROOF
  <1> DEFINE Goal == /\ req[j].st \notin {"unused", "sent"} =>
                          req'[j].st \notin {"unused", "sent"} /\ req'[j].chunk = req[j].chunk
                     /\ req'[j].st \in InWork =>
                          \/ req[j].st \in InWork /\ req'[j].file = req[j].file
                          \/ ChunkOpens(j) /\ dir
  <1>a. \A k \in Requests : req[k].st # "unused" => req[k] \in SomeRequest
    BY RequestFields
  <1>b. req \in [Requests -> SomeRequest \cup {UnusedRequest}]
    BY DEF UploadTypeOK
  <1>1. CASE req' = req
    BY <1>1 DEF Goal
  <1>2. ASSUME NEW c \in Clients, NEW i \in Chunks, NEW k \in Requests, SendChunk(c, i, k)  PROVE Goal
    BY <1>b, <1>2 DEF SendChunk, InWork
  <1>3. ASSUME NEW k \in Requests, ChunkAnswered(k) \/ AnswerLost(k)  PROVE Goal
    <2>1. req' = [req EXCEPT ![k] = [req[k] EXCEPT !.awaited = FALSE]] /\ req[k] \in SomeRequest
      BY <1>3, <1>a, <1>b DEF ChunkAnswered, AnswerLost
    <2>2. /\ [req[k] EXCEPT !.awaited = FALSE].st = req[k].st /\ [req[k] EXCEPT !.awaited = FALSE].chunk = req[k].chunk
          /\ [req[k] EXCEPT !.awaited = FALSE].file = req[k].file
      BY <2>1 DEF SomeRequest
    <2>3. CASE j = k
      BY <1>b, <2>1, <2>2, <2>3
    <2>4. CASE j # k
      BY <1>b, <2>1, <2>4
    <2> QED
      BY <2>3, <2>4
  <1>4. ASSUME NEW k \in Requests, ChunkOpens(k)  PROVE Goal
    <2>1. CASE j # k
      BY <1>b, <1>4, <2>1 DEF ChunkOpens
    <2>2. CASE j = k /\ dir
      BY <1>4, <2>2, OpensEffect
    <2>3. CASE j = k /\ ~dir
      <3>1. req'[k] = [req[k] EXCEPT !.st = "refused"] /\ req[k].st = "sent" /\ req[k] \in SomeRequest
        BY <1>a, <1>b, <1>4, <2>3 DEF ChunkOpens
      <3>2. req'[k].st = "refused"
        BY <3>1 DEF SomeRequest
      <3> QED
        BY <2>3, <3>1, <3>2 DEF InWork
    <2> QED
      BY <2>1, <2>2, <2>3
  <1>5. ASSUME NEW k \in Requests, ChunkWrites(k)  PROVE Goal
    <2>1. req' = [req EXCEPT ![k] = [req[k] EXCEPT !.off = @ + 1]] /\ req[k] \in SomeRequest
      BY <1>5, <1>a, <1>b DEF ChunkWrites
    <2>2. /\ [req[k] EXCEPT !.off = @ + 1].st = req[k].st /\ [req[k] EXCEPT !.off = @ + 1].chunk = req[k].chunk
          /\ [req[k] EXCEPT !.off = @ + 1].file = req[k].file
      BY <2>1 DEF SomeRequest
    <2> QED
      BY <1>b, <2>1, <2>2
  <1>6. ASSUME NEW k \in Requests, ChunkCopied(k) \/ ChunkRemoved(k) \/ ChunkRenamed(k)  PROVE Goal
    <2>1. PICK s \in {"refused", "checked", "replacing", "stored"} : req' = [req EXCEPT ![k].st = s]
      BY <1>6 DEF ChunkCopied, ChunkRemoved, ChunkRenamed
    <2>2. req[k].st \in InWork /\ req[k] \in SomeRequest
      BY <1>6, <1>a DEF ChunkCopied, ChunkRemoved, ChunkRenamed, InWork
    <2>3. [req[k] EXCEPT !.st = s].st = s /\ [req[k] EXCEPT !.st = s].chunk = req[k].chunk
          /\ [req[k] EXCEPT !.st = s].file = req[k].file
      BY <2>2 DEF SomeRequest
    <2> QED
      BY <1>b, <2>1, <2>2, <2>3
  <1>7. CASE ServerRestarts
    <2>1. req'[j] = IF req[j].st \in {"unused", "stored", "refused"} THEN req[j] ELSE [req[j] EXCEPT !.st = "refused"]
      BY <1>7 DEF ServerRestarts
    <2>2. CASE req[j].st \in {"unused", "stored", "refused"}
      BY <2>1, <2>2 DEF InWork
    <2>3. CASE req[j].st \notin {"unused", "stored", "refused"}
      <3>1. req[j] \in SomeRequest /\ req'[j] = [req[j] EXCEPT !.st = "refused"]
        BY <1>a, <2>1, <2>3
      <3>2. req'[j].st = "refused" /\ req'[j].chunk = req[j].chunk
        BY <3>1 DEF SomeRequest
      <3> QED
        BY <3>2 DEF InWork
    <2> QED
      BY <2>2, <2>3
  <1>8. ASSUME NEW c \in Clients,
               \/ BeginUpload(c) \/ SendComplete(c) \/ UploadChunkFails(c) \/ CompleteBegins(c)
               \/ ChunkAssembled(c) \/ FileStored(c) \/ DirectoryRemoved(c)
        PROVE  req' = req
    BY <1>8 DEF BeginUpload, SendComplete, UploadChunkFails, CompleteBegins, ChunkAssembled, FileStored, DirectoryRemoved
  <1>9. UNCHANGED resumableVars => req' = req
    BY DEF resumableVars
  <1> QED
    BY <1>1, <1>2, <1>3, <1>4, <1>5, <1>6, <1>7, <1>8, <1>9 DEF ResumableNext

\* A file stays one of its chunk, and so does the file a request has open.
LEMMA FilesStep ==
  ASSUME UploadTypeOK, Files, [ResumableNext]_resumableVars
  PROVE  Files'
PROOF
  <1>t. /\ tmp \in [Chunks -> Requests \cup {NoRequest}] /\ part \in [Chunks -> Requests \cup {NoRequest}]
        /\ NoRequest \notin Requests
    BY ChunkNumbers DEF UploadTypeOK
  <1>f. \A f \in Requests : req[f].st \notin {"unused", "sent"} =>
                              req'[f].st \notin {"unused", "sent"} /\ req'[f].chunk = req[f].chunk
    BY RequestStays
  <1>1. ASSUME NEW k \in Requests, ChunkOpens(k), dir  PROVE Files'
    <2>1. PICK i \in Chunks, f \in Requests :
          /\ i = req[k].chunk /\ f = IF tmp[i] = NoRequest THEN k ELSE tmp[i]
          /\ req[k].st = "sent"
          /\ req'[k].st = "writing" /\ req'[k].chunk = i /\ req'[k].file = f /\ req'[k].off = req[k].off
          /\ \A j \in Requests : j # k => req'[j] = req[j]
          /\ tmp' = [tmp EXCEPT ![i] = f] /\ data' = [data EXCEPT ![f] = {}]
          /\ part' = part /\ dir' = dir /\ ((\E j \in Requests : req[j].st \in InWork /\ req[j].chunk = i) => overlap')
      BY <1>1, OpensEffect
    <2>2. PathsOf(i)
      BY <2>1 DEF Files
    <2>3. f # part[i] /\ req'[f].st \notin {"unused", "sent"} /\ req'[f].chunk = i
      <3>1. CASE tmp[i] = NoRequest
        BY <1>t, <2>1, <2>2, <3>1 DEF PathsOf, FileOf
      <3>2. CASE tmp[i] # NoRequest
        BY <1>f, <2>1, <2>2, <3>2 DEF PathsOf, FileOf
      <3> QED
        BY <3>1, <3>2
    <2>4. ASSUME NEW h \in Chunks  PROVE PathsOf(h)'
      <3>1. CASE h = i
        BY <1>1, <1>t, <1>f, <2>1, <2>2, <2>3, <3>1 DEF PathsOf, FileOf
      <3>2. CASE h # i
        BY <1>t, <1>f, <2>1, <3>2 DEF PathsOf, Files, FileOf
      <3> QED
        BY <3>1, <3>2
    <2>5. ASSUME NEW j \in Requests  PROVE Opened(j)'
      <3>1. CASE j = k
        BY <2>1, <2>3, <3>1 DEF Opened, FileOf
      <3>2. CASE j # k
        BY <1>f, <2>1, <3>2 DEF Opened, Files, FileOf
      <3> QED
        BY <3>1, <3>2
    <2> QED
      BY <2>4, <2>5 DEF Files
  <1>2. ASSUME ~ \E k \in Requests : ChunkOpens(k) /\ dir  PROVE Files'
    <2>1. ASSUME NEW j \in Requests  PROVE Opened(j)'
      <3> SUFFICES ASSUME req'[j].st \in InWork  PROVE FileOf(req[j].file, req[j].chunk)'
        BY DEF Opened
      <3>1. req[j].st \in InWork /\ req'[j].file = req[j].file
        BY <1>2, RequestStays
      <3>2. req'[j].chunk = req[j].chunk
        BY <1>f, <3>1 DEF InWork
      <3> QED
        BY <1>f, <3>1, <3>2 DEF Files, Opened, FileOf
    <2>2. ASSUME \A i \in Chunks : \/ tmp'[i] = tmp[i] /\ part'[i] = part[i]
                                   \/ tmp'[i] = NoRequest /\ part'[i] \in {part[i], tmp[i], NoRequest}
                                   \/ tmp'[i] = tmp[i] /\ part'[i] = NoRequest,
                 ~dir' => \/ ~dir
                          \/ \A i \in Chunks : tmp'[i] = NoRequest /\ part'[i] = NoRequest
          PROVE  Files'
      <3>1. ASSUME NEW i \in Chunks  PROVE PathsOf(i)'
        <4>1. PathsOf(i)
          BY DEF Files
        <4> QED
          BY <2>2, <1>f, <1>t, <4>1 DEF PathsOf, FileOf
      <3> QED
        BY <2>1, <3>1 DEF Files
    <2>3. ASSUME NEW k \in Requests, ChunkCopied(k)  PROVE Files'
      BY <2>2, <2>3, <1>t DEF ChunkCopied
    <2>4. ASSUME NEW k \in Requests, ChunkRemoved(k)  PROVE Files'
      BY <2>2, <2>4, <1>t DEF ChunkRemoved
    <2>5. ASSUME NEW k \in Requests, ChunkRenamed(k)  PROVE Files'
      BY <2>2, <2>5, <1>t DEF ChunkRenamed
    <2>6. ASSUME NEW c \in Clients, DirectoryRemoved(c)  PROVE Files'
      BY <2>2, <2>6 DEF DirectoryRemoved
    <2>7. ASSUME dir' = dir /\ tmp' = tmp /\ part' = part  PROVE Files'
      BY <2>2, <2>7
    <2>8. ASSUME NEW k \in Requests, ChunkOpens(k)  PROVE Files'
      BY <1>2, <2>7, <2>8 DEF ChunkOpens
    <2>9. ASSUME NEW k \in Requests, ChunkAnswered(k) \/ AnswerLost(k) \/ ChunkWrites(k)  PROVE Files'
      BY <2>7, <2>9 DEF ChunkAnswered, AnswerLost, ChunkWrites
    <2>10. ASSUME NEW c \in Clients,
                  \/ BeginUpload(c) \/ SendComplete(c) \/ UploadChunkFails(c) \/ CompleteBegins(c)
                  \/ ChunkAssembled(c) \/ FileStored(c) \/ \E i \in Chunks, k \in Requests : SendChunk(c, i, k)
           PROVE  Files'
      BY <2>7, <2>10 DEF BeginUpload, SendComplete, UploadChunkFails, CompleteBegins, ChunkAssembled, FileStored, SendChunk
    <2>11. CASE ServerRestarts \/ UNCHANGED resumableVars
      BY <2>7, <2>11 DEF ServerRestarts, resumableVars
    <2> QED
      BY <2>3, <2>4, <2>5, <2>6, <2>8, <2>9, <2>10, <2>11 DEF ResumableNext
  <1> QED
    BY <1>1, <1>2

-----------------------------------------------------------------------------
(* What is in the files.                                                   *)

\* What was only sent still begins at the beginning.
LEMMA FreshStep ==
  ASSUME UploadTypeOK, Fresh, [ResumableNext]_resumableVars
  PROVE  Fresh'
PROOF
  <1>r. req \in [Requests -> SomeRequest \cup {UnusedRequest}] /\ complete \in [Clients -> SomeComplete]
    BY DEF UploadTypeOK
  <1>a. \A k \in Requests : req[k].st # "unused" => req[k] \in SomeRequest
    BY RequestFields
  <1> DEFINE Sent(k) == req'[k].st = "sent" => req'[k].off = 0
             Asked(c) == complete'[c].st = "sent" => complete'[c].next = 1
  <1>1. ASSUME NEW j \in Requests  PROVE Sent(j)
    <2>0. req[j].st = "sent" => req[j].off = 0
      BY DEF Fresh
    <2>1. CASE req'[j] = req[j]
      BY <2>0, <2>1
    <2>2. ASSUME NEW c \in Clients, NEW i \in Chunks, NEW k \in Requests, SendChunk(c, i, k)  PROVE Sent(j)
      BY <1>r, <2>0, <2>2 DEF SendChunk
    <2>3. ASSUME NEW k \in Requests, ChunkAnswered(k) \/ AnswerLost(k)  PROVE Sent(j)
      <3>1. req' = [req EXCEPT ![k] = [req[k] EXCEPT !.awaited = FALSE]] /\ req[k] \in SomeRequest
        BY <1>a, <1>r, <2>3 DEF ChunkAnswered, AnswerLost
      <3>2. /\ [req[k] EXCEPT !.awaited = FALSE].st = req[k].st
            /\ [req[k] EXCEPT !.awaited = FALSE].off = req[k].off
        BY <3>1 DEF SomeRequest
      <3>3. CASE j = k
        BY <1>r, <2>0, <3>1, <3>2, <3>3
      <3>4. CASE j # k
        BY <1>r, <2>0, <3>1, <3>4
      <3> QED
        BY <3>3, <3>4
    <2>4. ASSUME NEW k \in Requests, ChunkOpens(k)  PROVE Sent(j)
      <3>1. CASE j # k
        BY <1>r, <2>0, <2>4, <3>1 DEF ChunkOpens
      <3>2. CASE j = k /\ dir
        BY <2>4, <3>2, OpensEffect
      <3>3. CASE j = k /\ ~dir
        <4>1. req'[k] = [req[k] EXCEPT !.st = "refused"] /\ req[k] \in SomeRequest
          BY <1>a, <1>r, <2>4, <3>3 DEF ChunkOpens
        <4>2. req'[k].st = "refused"
          BY <4>1 DEF SomeRequest
        <4> QED
          BY <3>3, <4>2
      <3> QED
        BY <3>1, <3>2, <3>3
    <2>5. ASSUME NEW k \in Requests, ChunkWrites(k)  PROVE Sent(j)
      <3>1. /\ req' = [req EXCEPT ![k] = [req[k] EXCEPT !.off = @ + 1]] /\ req[k] \in SomeRequest
            /\ req[k].st = "writing"
        BY <1>a, <1>r, <2>5 DEF ChunkWrites
      <3>2. [req[k] EXCEPT !.off = @ + 1].st = req[k].st
        BY <3>1 DEF SomeRequest
      <3> QED
        BY <1>r, <2>0, <3>1, <3>2
    <2>6. ASSUME NEW k \in Requests, ChunkCopied(k) \/ ChunkRemoved(k) \/ ChunkRenamed(k)  PROVE Sent(j)
      <3>1. PICK s \in {"refused", "checked", "replacing", "stored"} : req' = [req EXCEPT ![k].st = s]
        BY <2>6 DEF ChunkCopied, ChunkRemoved, ChunkRenamed
      <3>2. req[k] \in SomeRequest
        BY <2>6, <1>a DEF ChunkCopied, ChunkRemoved, ChunkRenamed
      <3>3. [req[k] EXCEPT !.st = s].st = s
        BY <3>2 DEF SomeRequest
      <3> QED
        BY <1>r, <2>0, <3>1, <3>3
    <2>7. CASE ServerRestarts
      <3>1. req'[j] = IF req[j].st \in {"unused", "stored", "refused"} THEN req[j] ELSE [req[j] EXCEPT !.st = "refused"]
        BY <2>7 DEF ServerRestarts
      <3>2. req[j].st \notin {"unused", "stored", "refused"} => [req[j] EXCEPT !.st = "refused"].st = "refused"
        BY <1>a DEF SomeRequest
      <3> QED
        BY <3>1, <3>2
    <2>8. ASSUME NEW c \in Clients,
                 \/ BeginUpload(c) \/ SendComplete(c) \/ UploadChunkFails(c) \/ CompleteBegins(c)
                 \/ ChunkAssembled(c) \/ FileStored(c) \/ DirectoryRemoved(c)
          PROVE  req' = req
      BY <2>8 DEF BeginUpload, SendComplete, UploadChunkFails, CompleteBegins, ChunkAssembled, FileStored, DirectoryRemoved
    <2>9. UNCHANGED resumableVars => req' = req
      BY DEF resumableVars
    <2> QED
      BY <2>1, <2>2, <2>3, <2>4, <2>5, <2>6, <2>7, <2>8, <2>9 DEF ResumableNext
  <1>2. ASSUME NEW d \in Clients  PROVE Asked(d)
    <2>0. complete[d].st = "sent" => complete[d].next = 1
      BY DEF Fresh
    <2>1. CASE complete' = complete
      BY <2>0, <2>1
    <2>2. ASSUME NEW c \in Clients, SendComplete(c)  PROVE Asked(d)
      BY <1>r, <2>0, <2>2 DEF SendComplete
    <2>3. ASSUME NEW c \in Clients, NEW s \in {"none", "assembling", "stored"}, complete' = [complete EXCEPT ![c].st = s]
          PROVE  Asked(d)
      <3>1. complete'[c].st = s
        BY <1>r, <2>3 DEF SomeComplete
      <3> QED
        BY <1>r, <2>0, <2>3, <3>1
    <2>4. ASSUME NEW c \in Clients, CompleteBegins(c) \/ FileStored(c) \/ DirectoryRemoved(c)  PROVE Asked(d)
      BY <2>3, <2>4 DEF CompleteBegins, CompleteFails, FileStored, DirectoryRemoved
    <2>5. ASSUME NEW c \in Clients, ChunkAssembled(c)  PROVE Asked(d)
      <3>1. CASE complete' = [complete EXCEPT ![c].st = "none"]
        BY <2>3, <3>1
      <3>2. CASE complete' = [complete EXCEPT ![c].next = @ + 1]
        <4>1. complete[c].st = "assembling" /\ complete'[c].st = complete[c].st
          BY <1>r, <2>5, <3>2 DEF ChunkAssembled, SomeComplete
        <4> QED
          BY <1>r, <2>0, <3>2, <4>1
      <3> QED
        BY <2>5, <3>1, <3>2 DEF ChunkAssembled, CompleteFails
    <2>6. CASE ServerRestarts
      <3>1. complete'[d].st = "none"
        BY <1>r, <2>6 DEF ServerRestarts, SomeComplete
      <3> QED
        BY <3>1
    <2>7. ASSUME NEW k \in Requests,
                 \/ ChunkAnswered(k) \/ AnswerLost(k) \/ ChunkOpens(k) \/ ChunkWrites(k)
                 \/ ChunkCopied(k) \/ ChunkRemoved(k) \/ ChunkRenamed(k)
          PROVE  complete' = complete
      BY <2>7 DEF ChunkAnswered, AnswerLost, ChunkOpens, ChunkWrites, ChunkCopied, ChunkRemoved, ChunkRenamed
    <2>8. ASSUME NEW c \in Clients, BeginUpload(c) \/ UploadChunkFails(c) \/ \E i \in Chunks, k \in Requests : SendChunk(c, i, k)
          PROVE  complete' = complete
      BY <2>8 DEF BeginUpload, UploadChunkFails, SendChunk
    <2>9. UNCHANGED resumableVars => complete' = complete
      BY DEF resumableVars
    <2> QED
      BY <2>1, <2>2, <2>4, <2>5, <2>6, <2>7, <2>8, <2>9 DEF ResumableNext
  <1> QED
    BY <1>1, <1>2 DEF Fresh

\* Two requests that wrote a chunk at once, or two that assembled, are not forgotten.
LEMMA OverlapStays ==
  ASSUME UploadTypeOK, [ResumableNext]_resumableVars, overlap
  PROVE  overlap'
PROOF
  BY DEF UploadTypeOK, ResumableNext, resumableVars, BeginUpload, SendComplete, UploadChunkFails, CompleteBegins,
         ChunkAssembled, FileStored, DirectoryRemoved, SendChunk, ChunkAnswered, AnswerLost, ChunkOpens, ChunkWrites,
         ChunkCopied, ChunkRemoved, ChunkRenamed, ServerRestarts

\* What a step of a request in work does to the requests.
LEMMA WorkEffect ==
  ASSUME UploadTypeOK, NEW k \in Requests
  PROVE  /\ ChunkWrites(k) => /\ req[k].st = "writing" /\ req'[k].st = "writing" /\ req'[k].chunk = req[k].chunk
                              /\ req'[k].file = req[k].file /\ req[k].off < 2 /\ req'[k].off = req[k].off + 1
                              /\ \A j \in Requests : j # k => req'[j] = req[j]
         /\ \A s \in {"refused", "checked", "replacing", "stored"} :
              req[k].st \in InWork /\ req' = [req EXCEPT ![k].st = s] =>
                /\ req'[k].st = s /\ req'[k].chunk = req[k].chunk /\ req'[k].file = req[k].file
                /\ \A j \in Requests : j # k => req'[j] = req[j]
PROOF
  <1>r. req \in [Requests -> SomeRequest \cup {UnusedRequest}]
    BY DEF UploadTypeOK
  <1>a. req[k].st # "unused" => req[k] \in SomeRequest
    BY RequestFields
  <1>1. ASSUME ChunkWrites(k)
        PROVE  /\ req[k].st = "writing" /\ req'[k].st = "writing" /\ req'[k].chunk = req[k].chunk
               /\ req'[k].file = req[k].file /\ req[k].off < 2 /\ req'[k].off = req[k].off + 1
               /\ \A j \in Requests : j # k => req'[j] = req[j]
    BY <1>r, <1>a, <1>1 DEF ChunkWrites, SomeRequest
  <1>2. ASSUME NEW s \in {"refused", "checked", "replacing", "stored"}, req[k].st \in InWork, req' = [req EXCEPT ![k].st = s]
        PROVE  /\ req'[k].st = s /\ req'[k].chunk = req[k].chunk /\ req'[k].file = req[k].file
               /\ \A j \in Requests : j # k => req'[j] = req[j]
    BY <1>r, <1>a, <1>2 DEF InWork, SomeRequest
  <1> QED
    BY <1>1, <1>2

\* While no two requests write one chunk, what each has written is in the file it
\* has open, which is at the temporary path, and what was received is whole.
LEMMA WritingStep ==
  ASSUME UploadTypeOK, Files, Fresh, Contents, [ResumableNext]_resumableVars, ~overlap'
  PROVE  /\ \A k \in Requests : req'[k].st \in InWork => InHand(k)'
         /\ \A i \in Chunks : Whole(i)'
PROOF
  <1> DEFINE Goal == /\ \A k \in Requests : req'[k].st \in InWork => InHand(k)'
                     /\ \A i \in Chunks : Whole(i)'
  <1>t. /\ tmp \in [Chunks -> Requests \cup {NoRequest}] /\ part \in [Chunks -> Requests \cup {NoRequest}]
        /\ data \in [Requests -> SUBSET Halves] /\ NoRequest \notin Requests
    BY ChunkNumbers DEF UploadTypeOK
  <1>r. \A k \in Requests : req[k].st \in InWork => req[k].chunk \in Chunks /\ req[k].file \in Requests /\ req[k].off \in 0 .. 2
    BY RequestFields DEF InWork
  <1>h. \A k \in Requests : req[k].st \in InWork => InHand(k)
    BY DEF Contents
  <1>w. \A i \in Chunks : Whole(i)
    BY DEF Contents
  <1>p. \A i \in Chunks : PathsOf(i)
    BY DEF Files
  <1>o. \A k \in Requests : req[k].st \in InWork => req[req[k].file].chunk = req[k].chunk
    BY DEF Files, Opened, FileOf
  <1>q. \A i \in Chunks : part[i] # NoRequest => part[i] \in Requests /\ req[part[i]].chunk = i
    BY <1>p DEF PathsOf, FileOf
  <1>1. ASSUME data' = data,
               \/ tmp' = tmp /\ part' = part
               \/ \A i \in Chunks : tmp'[i] = NoRequest /\ part'[i] = NoRequest,
               \A j \in Requests : req'[j].st \in InWork =>
                 /\ req'[j].st = req[j].st /\ req'[j].chunk = req[j].chunk
                 /\ req'[j].file = req[j].file /\ req'[j].off = req[j].off
        PROVE  Goal
    <2>1. ASSUME NEW k \in Requests, req'[k].st \in InWork  PROVE InHand(k)'
      <3>1. InHand(k) /\ req[k].st \in InWork
        BY <1>1, <1>h, <2>1
      <3>2. Alone(k)'
        BY <1>1, <2>1, <3>1 DEF InHand, Alone
      <3>3. req[k].chunk \in Chunks /\ req[k].file \in Requests
        BY <1>r, <3>1
      <3> QED
        BY <1>1, <1>t, <2>1, <3>1, <3>2, <3>3 DEF InHand
    <2>2. ASSUME NEW i \in Chunks  PROVE Whole(i)'
      BY <1>1, <1>w DEF Whole
    <2> QED
      BY <2>1, <2>2
  <1>2. ASSUME NEW k \in Requests, ChunkOpens(k), dir  PROVE Goal
    <2>1. PICK i \in Chunks, f \in Requests :
          /\ i = req[k].chunk /\ f = IF tmp[i] = NoRequest THEN k ELSE tmp[i]
          /\ req[k].st = "sent"
          /\ req'[k].st = "writing" /\ req'[k].chunk = i /\ req'[k].file = f /\ req'[k].off = req[k].off
          /\ \A j \in Requests : j # k => req'[j] = req[j]
          /\ tmp' = [tmp EXCEPT ![i] = f] /\ data' = [data EXCEPT ![f] = {}]
          /\ part' = part /\ dir' = dir /\ ((\E j \in Requests : req[j].st \in InWork /\ req[j].chunk = i) => overlap')
      BY <1>2, OpensEffect
    <2>2. \A j \in Requests : ~(req[j].st \in InWork /\ req[j].chunk = i)
      BY <2>1
    <2>3. f # part[i] /\ \A h \in Chunks : h # i => f # part[h]
      <3>1. CASE tmp[i] = NoRequest
        BY <1>p, <1>t, <2>1, <3>1 DEF PathsOf, FileOf
      <3>2. CASE tmp[i] # NoRequest
        BY <1>p, <1>t, <2>1, <3>2 DEF PathsOf, FileOf
      <3> QED
        BY <3>1, <3>2
    <2>4. \A j \in Requests : req[j].st \in InWork => req[j].file # f
      <3> SUFFICES ASSUME NEW j \in Requests, req[j].st \in InWork, req[j].file = f  PROVE FALSE
        OBVIOUS
      <3>1. FileOf(f, req[j].chunk)
        BY DEF Files, Opened
      <3>2. CASE tmp[i] = NoRequest
        BY <2>1, <3>1, <3>2 DEF FileOf
      <3>3. CASE tmp[i] # NoRequest
        BY <1>p, <2>1, <2>2, <3>1, <3>3 DEF FileOf, PathsOf
      <3> QED
        BY <3>2, <3>3
    <2>5. ASSUME NEW j \in Requests, req'[j].st \in InWork  PROVE InHand(j)'
      <3>1. CASE j = k
        <4>1. Alone(k)'
          BY <2>1, <2>2 DEF Alone
        <4>2. req'[k].off = 0
          BY <2>1 DEF Fresh
        <4>3. tmp'[i] = f /\ part'[i] # f /\ data'[f] = {}
          BY <1>t, <2>1, <2>3
        <4>4. {h \in Halves : h < 0} = {}
          BY DEF Halves
        <4> QED
          BY <2>1, <3>1, <4>1, <4>2, <4>3, <4>4 DEF InHand
      <3>2. CASE j # k
        <4>1. req'[j] = req[j] /\ InHand(j) /\ req[j].chunk \in Chunks /\ req[j].file \in Requests /\ req[j].chunk # i
          BY <1>h, <1>r, <2>1, <2>2, <2>5, <3>2
        <4>2. Alone(j)'
          BY <2>1, <4>1 DEF InHand, Alone
        <4>3. data'[req[j].file] = data[req[j].file] /\ tmp'[req[j].chunk] = tmp[req[j].chunk]
          BY <1>t, <2>1, <2>4, <2>5, <4>1
        <4> QED
          BY <2>1, <4>1, <4>2, <4>3 DEF InHand
      <3> QED
        BY <3>1, <3>2
    <2>6. ASSUME NEW h \in Chunks  PROVE Whole(h)'
      BY <1>w, <1>t, <2>1, <2>3 DEF Whole
    <2> QED
      BY <2>5, <2>6
  <1>3. ASSUME NEW k \in Requests, ChunkWrites(k)  PROVE Goal
    <2> DEFINE i == req[k].chunk
               f == req[k].file
    <2>1. /\ req[k].st = "writing" /\ req'[k].st = "writing" /\ req'[k].chunk = i
          /\ req'[k].file = f /\ req[k].off < 2 /\ req'[k].off = req[k].off + 1
          /\ \A j \in Requests : j # k => req'[j] = req[j]
      BY <1>3, WorkEffect
    <2>2. i \in Chunks /\ f \in Requests /\ req[k].off \in 0 .. 2 /\ InHand(k) /\ req[f].chunk = i
      BY <1>h, <1>r, <1>o, <2>1 DEF InWork
    <2>3. tmp' = tmp /\ part' = part /\ data' = [data EXCEPT ![f] = data[f] \cup {req[k].off}]
      BY <1>3, <1>t, <2>2 DEF ChunkWrites
    <2>4. \A j \in Requests : j # k /\ req[j].st \in InWork => req[j].chunk # i
      BY <2>1, <2>2 DEF InHand, Alone, InWork
    <2>a. i = req[k].chunk /\ f = req[k].file
      OBVIOUS
    <2> HIDE DEF i, f
    <2>5. ASSUME NEW j \in Requests, req'[j].st \in InWork  PROVE InHand(j)'
      <3>1. CASE j = k
        <4>1. Alone(k)'
          BY <2>1, <2>4 DEF Alone
        <4>2. data[f] = {h \in Halves : h < req[k].off}
          BY <2>a, <2>1, <2>2 DEF InHand
        <4>3. data'[f] = {h \in Halves : h < req[k].off + 1}
          <5>1. data'[f] = {h \in Halves : h < req[k].off} \cup {req[k].off}
            BY <1>t, <2>2, <2>3, <4>2
          <5>2. CASE req[k].off = 0
            BY <5>1, <5>2 DEF Halves
          <5>3. CASE req[k].off = 1
            BY <5>1, <5>3 DEF Halves
          <5> QED
            BY <2>1, <2>2, <5>2, <5>3
        <4>4. tmp[i] \in {f, NoRequest} /\ part[i] # f
          BY <2>a, <2>2 DEF InHand
        <4> QED
          BY <2>1, <2>3, <3>1, <4>1, <4>3, <4>4 DEF InHand
      <3>2. CASE j # k
        <4>1. req'[j] = req[j] /\ InHand(j) /\ req[j].chunk \in Chunks /\ req[j].file \in Requests /\ req[j].chunk # i
          BY <1>h, <1>r, <2>1, <2>4, <2>5, <3>2
        <4>2. Alone(j)'
          BY <2>1, <2>a, <4>1 DEF InHand, Alone
        <4>3. data'[req[j].file] = data[req[j].file]
          BY <1>t, <1>o, <2>2, <2>3, <2>5, <4>1
        <4> QED
          BY <2>3, <4>1, <4>2, <4>3 DEF InHand
      <3> QED
        BY <3>1, <3>2
    <2>6. ASSUME NEW h \in Chunks  PROVE Whole(h)'
      <3>1. part[h] # NoRequest => part[h] # f
        BY <1>q, <2>a, <2>2 DEF InHand
      <3> QED
        BY <1>w, <1>t, <2>3, <3>1 DEF Whole
    <2> QED
      BY <2>5, <2>6
  <1>4. ASSUME NEW k \in Requests, ChunkCopied(k)  PROVE Goal
    <2>0. req[k].st = "writing" /\ req[k].st \in InWork /\ part' = part /\ data' = data
      BY <1>4 DEF ChunkCopied, InWork
    <2>1. req[k].chunk \in Chunks /\ req[k].file \in Requests /\ req[k].off \in 0 .. 2 /\ InHand(k)
      BY <1>h, <1>r, <2>0
    <2>2. CASE req[k].off < 2
      <3>1. tmp' = [tmp EXCEPT ![req[k].chunk] = NoRequest] /\ req' = [req EXCEPT ![k].st = "refused"]
        BY <1>4, <2>2 DEF ChunkCopied
      <3>2. req'[k].st = "refused" /\ \A j \in Requests : j # k => req'[j] = req[j]
        BY <2>0, <3>1, WorkEffect
      <3>3. ASSUME NEW j \in Requests, req'[j].st \in InWork  PROVE InHand(j)'
        <4>1. j # k /\ req'[j] = req[j] /\ InHand(j) /\ req[j].chunk \in Chunks
          BY <1>h, <1>r, <3>2, <3>3 DEF InWork
        <4>2. Alone(j)'
          BY <3>2, <4>1 DEF InHand, Alone, InWork
        <4>3. tmp'[req[j].chunk] \in {tmp[req[j].chunk], NoRequest}
          BY <1>t, <2>1, <3>1, <4>1
        <4> QED
          BY <2>0, <4>1, <4>2, <4>3 DEF InHand
      <3>4. ASSUME NEW h \in Chunks  PROVE Whole(h)'
        BY <1>w, <2>0 DEF Whole
      <3> QED
        BY <3>3, <3>4
    <2>3. CASE ~(req[k].off < 2)
      <3>1. tmp' = tmp /\ req' = [req EXCEPT ![k].st = "checked"]
        BY <1>4, <2>3 DEF ChunkCopied
      <3>2. /\ req'[k].st = "checked" /\ req'[k].chunk = req[k].chunk /\ req'[k].file = req[k].file
            /\ \A j \in Requests : j # k => req'[j] = req[j]
        BY <2>0, <3>1, WorkEffect
      <3>3. {h \in Halves : h < req[k].off} = Halves
        BY <2>1, <2>3 DEF Halves
      <3>4. ASSUME NEW j \in Requests, req'[j].st \in InWork  PROVE InHand(j)'
        <4>1. InHand(j) /\ req'[j].chunk = req[j].chunk /\ req'[j].file = req[j].file
          BY <1>h, <2>0, <3>2, <3>4
        <4>2. Alone(j)'
          BY <2>0, <3>2, <4>1 DEF InHand, Alone
        <4> QED
          BY <2>0, <3>1, <3>2, <3>3, <4>1, <4>2 DEF InHand
      <3>5. ASSUME NEW h \in Chunks  PROVE Whole(h)'
        BY <1>w, <2>0 DEF Whole
      <3> QED
        BY <3>4, <3>5
    <2> QED
      BY <2>2, <2>3
  <1>5. ASSUME NEW k \in Requests, ChunkRemoved(k)  PROVE Goal
    <2>0. /\ req[k].st = "checked" /\ req[k].st \in InWork /\ tmp' = tmp /\ data' = data
          /\ part' = [part EXCEPT ![req[k].chunk] = NoRequest] /\ req' = [req EXCEPT ![k].st = "replacing"]
      BY <1>5 DEF ChunkRemoved, InWork
    <2>1. req[k].chunk \in Chunks /\ InHand(k)
      BY <1>h, <1>r, <2>0
    <2>2. /\ req'[k].st = "replacing" /\ req'[k].chunk = req[k].chunk /\ req'[k].file = req[k].file
          /\ \A j \in Requests : j # k => req'[j] = req[j]
      BY <2>0, WorkEffect
    <2>3. ASSUME NEW j \in Requests, req'[j].st \in InWork  PROVE InHand(j)'
      <3>1. InHand(j) /\ req'[j].chunk = req[j].chunk /\ req'[j].file = req[j].file /\ req[j].chunk \in Chunks /\ req[j].file \in Requests
        BY <1>h, <1>r, <2>0, <2>2, <2>3
      <3>2. Alone(j)'
        BY <2>0, <2>2, <3>1 DEF InHand, Alone
      <3>3. part'[req[j].chunk] # req[j].file
        BY <1>t, <2>0, <2>1, <3>1 DEF InHand
      <3> QED
        BY <2>0, <2>2, <3>1, <3>2, <3>3 DEF InHand
    <2>4. ASSUME NEW h \in Chunks  PROVE Whole(h)'
      BY <1>w, <1>t, <2>0, <2>1 DEF Whole
    <2> QED
      BY <2>3, <2>4
  <1>6. ASSUME NEW k \in Requests, ChunkRenamed(k)  PROVE Goal
    <2>0. req[k].st = "replacing" /\ req[k].st \in InWork /\ data' = data
      BY <1>6 DEF ChunkRenamed, InWork
    <2>1. req[k].chunk \in Chunks /\ req[k].file \in Requests /\ InHand(k)
      BY <1>h, <1>r, <2>0
    <2> DEFINE i == req[k].chunk
    <2>2. CASE tmp[i] = NoRequest
      <3>1. tmp' = tmp /\ part' = part /\ req' = [req EXCEPT ![k].st = "refused"]
        BY <1>6, <2>2 DEF ChunkRenamed
      <3>2. req'[k].st = "refused" /\ \A j \in Requests : j # k => req'[j] = req[j]
        BY <2>0, <3>1, WorkEffect
      <3> QED
        BY <1>1, <2>0, <3>1, <3>2 DEF InWork
    <2>3. CASE tmp[i] # NoRequest
      <3>1. /\ tmp' = [tmp EXCEPT ![i] = NoRequest] /\ part' = [part EXCEPT ![i] = tmp[i]]
            /\ req' = [req EXCEPT ![k].st = "stored"]
        BY <1>6, <2>3 DEF ChunkRenamed
      <3>2. req'[k].st = "stored" /\ \A j \in Requests : j # k => req'[j] = req[j]
        BY <2>0, <3>1, WorkEffect
      <3>3. tmp[i] = req[k].file /\ data[tmp[i]] = Halves
        BY <2>0, <2>1, <2>3 DEF InHand
      <3>4. ASSUME NEW j \in Requests, req'[j].st \in InWork  PROVE InHand(j)'
        <4>1. j # k /\ req'[j] = req[j] /\ InHand(j) /\ req[j].chunk \in Chunks
          BY <1>h, <1>r, <3>2, <3>4 DEF InWork
        <4>2. req[j].chunk # i
          BY <2>0, <2>1, <3>4, <4>1 DEF InHand, Alone
        <4>3. Alone(j)'
          BY <3>2, <4>1 DEF InHand, Alone, InWork
        <4>4. tmp'[req[j].chunk] = tmp[req[j].chunk] /\ part'[req[j].chunk] = part[req[j].chunk]
          BY <1>t, <3>1, <4>1, <4>2
        <4> QED
          BY <2>0, <4>1, <4>3, <4>4 DEF InHand
      <3>5. ASSUME NEW h \in Chunks  PROVE Whole(h)'
        <4>1. CASE h = i
          BY <1>t, <2>0, <3>1, <3>3, <4>1 DEF Whole
        <4>2. CASE h # i
          BY <1>w, <1>t, <2>0, <3>1, <4>2 DEF Whole
        <4> QED
          BY <4>1, <4>2
      <3> QED
        BY <3>4, <3>5
    <2> QED
      BY <2>2, <2>3
  <1>7. ASSUME ~ \E k \in Requests : \/ ChunkOpens(k) /\ dir
                                     \/ ChunkWrites(k) \/ ChunkCopied(k) \/ ChunkRemoved(k) \/ ChunkRenamed(k)
        PROVE  Goal
    <2>1. /\ data' = data
          /\ \/ tmp' = tmp /\ part' = part
             \/ \A i \in Chunks : tmp'[i] = NoRequest /\ part'[i] = NoRequest
      BY <1>7 DEF ResumableNext, resumableVars, BeginUpload, SendComplete, UploadChunkFails, CompleteBegins,
           ChunkAssembled, FileStored, DirectoryRemoved, SendChunk, ChunkAnswered, AnswerLost, ChunkOpens, ServerRestarts
    <2>2. ASSUME NEW j \in Requests, req'[j].st \in InWork
          PROVE  /\ req'[j].st = req[j].st /\ req'[j].chunk = req[j].chunk
                 /\ req'[j].file = req[j].file /\ req'[j].off = req[j].off
      <3>1. req[j].st \in InWork
        BY <1>7, <2>2, RequestStays
      <3>2. req[j] \in SomeRequest /\ req \in [Requests -> SomeRequest \cup {UnusedRequest}]
        BY <3>1, RequestFields DEF InWork, UploadTypeOK
      <3>3. CASE req'[j] = req[j]
        BY <3>3
      <3>4. ASSUME NEW k \in Requests, ChunkAnswered(k) \/ AnswerLost(k)
            PROVE  /\ req'[j].st = req[j].st /\ req'[j].chunk = req[j].chunk
                   /\ req'[j].file = req[j].file /\ req'[j].off = req[j].off
        <4>1. req' = [req EXCEPT ![k] = [req[k] EXCEPT !.awaited = FALSE]]
          BY <3>2, <3>4 DEF ChunkAnswered, AnswerLost
        <4> QED
          BY <3>2, <4>1 DEF SomeRequest
      <3>5. ASSUME NEW c \in Clients, NEW i \in Chunks, NEW k \in Requests, SendChunk(c, i, k)  PROVE req'[j] = req[j]
        BY <3>1, <3>2, <3>5 DEF SendChunk, InWork
      <3>6. ASSUME NEW k \in Requests, ChunkOpens(k)  PROVE req'[j] = req[j]
        BY <1>7, <3>1, <3>2, <3>6 DEF ChunkOpens, InWork
      <3>7. CASE ServerRestarts
        <4>1. req'[j] = [req[j] EXCEPT !.st = "refused"]
          BY <3>1, <3>7 DEF ServerRestarts, InWork
        <4> QED
          BY <2>2, <3>2, <4>1 DEF SomeRequest, InWork
      <3>8. ASSUME NEW c \in Clients,
                   \/ BeginUpload(c) \/ SendComplete(c) \/ UploadChunkFails(c) \/ CompleteBegins(c)
                   \/ ChunkAssembled(c) \/ FileStored(c) \/ DirectoryRemoved(c)
            PROVE  req' = req
        BY <3>8 DEF BeginUpload, SendComplete, UploadChunkFails, CompleteBegins, ChunkAssembled, FileStored, DirectoryRemoved
      <3>9. UNCHANGED resumableVars => req' = req
        BY DEF resumableVars
      <3> QED
        BY <1>7, <3>3, <3>4, <3>5, <3>6, <3>7, <3>8, <3>9 DEF ResumableNext
    <2> QED
      BY <1>1, <2>1, <2>2
  <1> QED
    BY <1>2, <1>3, <1>4, <1>5, <1>6, <1>7

\* The one tab that assembles appends whole chunks, each in its place, and what is
\* stored has them all.
LEMMA AssemblingStep ==
  ASSUME UploadTypeOK, Fresh, Contents, [ResumableNext]_resumableVars, ~overlap'
  PROVE  /\ \A c \in Clients : Appended(c)'
         /\ \A f \in result' : \A i \in Chunks : f[i] = Halves
PROOF
  <1> DEFINE Goal == /\ \A c \in Clients : Appended(c)'
                     /\ \A f \in result' : \A i \in Chunks : f[i] = Halves
  <1>t. complete \in [Clients -> SomeComplete] /\ target \in [Chunks -> SUBSET Halves]
    BY DEF UploadTypeOK
  <1>n. \A c \in Clients : complete[c].next \in 1 .. Many + 1 /\ Many \in Nat /\ Chunks = 1 .. Many
    BY <1>t, ChunkNumbers DEF SomeComplete
  <1>a. \A c \in Clients : Appended(c)
    BY DEF Contents
  <1>f. \A f \in result : \A i \in Chunks : f[i] = Halves
    BY DEF Contents
  <1>s. ASSUME NEW c \in Clients, NEW s \in {"none", "assembling", "stored"}, complete' = [complete EXCEPT ![c].st = s]
        PROVE  /\ complete'[c].st = s /\ complete'[c].next = complete[c].next
               /\ \A d \in Clients : d # c => complete'[d] = complete[d]
    BY <1>t, <1>s DEF SomeComplete
  <1>1. ASSUME complete' = complete, target' = target, result' = result  PROVE Goal
    BY <1>1, <1>a, <1>f DEF Appended
  <1>2. ASSUME NEW c \in Clients, NEW s \in {"none", "stored"}, complete' = [complete EXCEPT ![c].st = s],
               s = "none" \/ complete[c].st = "assembling",
               target' = target, \A f \in result' : \A i \in Chunks : f[i] = Halves
        PROVE  Goal
    <2>1. /\ complete'[c].st = s /\ complete'[c].next = complete[c].next
          /\ \A d \in Clients : d # c => complete'[d] = complete[d]
      BY <1>2, <1>s
    <2>2. \A d \in Clients : complete'[d].next = complete[d].next
                             /\ (complete'[d].st \in {"assembling", "stored"} => complete[d].st \in {"assembling", "stored"})
      BY <1>2, <2>1
    <2> QED
      BY <1>2, <1>a, <2>2 DEF Appended
  <1>3. ASSUME NEW c \in Clients, SendComplete(c)  PROVE Goal
    <2>1. complete' = [complete EXCEPT ![c] = [st |-> "sent", next |-> 1]] /\ target' = target /\ result' = result
      BY <1>3 DEF SendComplete
    <2>2. \A d \in Clients : complete'[d].st \in {"assembling", "stored"} =>
                               complete'[d] = complete[d]
      BY <1>t, <2>1
    <2> QED
      BY <1>a, <1>f, <2>1, <2>2 DEF Appended
  <1>4. ASSUME NEW c \in Clients, CompleteBegins(c)  PROVE Goal
    <2>1. CASE complete' = [complete EXCEPT ![c].st = "none"] /\ target' = target
      BY <1>2, <1>4, <1>f, <2>1 DEF CompleteBegins
    <2>2. CASE /\ complete' = [complete EXCEPT ![c].st = "assembling"] /\ target' = Nothing
               /\ overlap' = (overlap \/ Assembling # {})
      <3>1. /\ complete'[c].st = "assembling" /\ complete'[c].next = complete[c].next
            /\ \A d \in Clients : d # c => complete'[d] = complete[d]
        BY <1>s, <2>2
      <3>2. \A d \in Clients : complete[d].st \notin {"assembling", "stored"}
        BY <2>2 DEF Assembling
      <3>3. complete[c].next = 1
        BY <1>4 DEF CompleteBegins, Fresh
      <3>4. \A i \in Chunks : ~(i < 1)
        BY <1>n
      <3> QED
        BY <1>4, <1>f, <3>1, <3>2, <3>3, <3>4 DEF CompleteBegins, Appended
    <2> QED
      BY <1>4, <2>1, <2>2 DEF CompleteBegins, CompleteFails
  <1>5. ASSUME NEW c \in Clients, ChunkAssembled(c)  PROVE Goal
    <2>0. complete[c].st = "assembling" /\ complete[c].next \in Chunks /\ result' = result
      BY <1>5 DEF ChunkAssembled
    <2>1. CASE complete' = [complete EXCEPT ![c].st = "none"] /\ target' = target
      BY <1>2, <1>f, <2>0, <2>1
    <2>2. CASE /\ part[complete[c].next] # NoRequest
               /\ target' = [target EXCEPT ![complete[c].next] = data[part[complete[c].next]]]
               /\ complete' = [complete EXCEPT ![c].next = @ + 1]
      <3>1. /\ complete'[c].st = "assembling" /\ complete'[c].next = complete[c].next + 1
            /\ \A d \in Clients : d # c => complete'[d] = complete[d]
        BY <1>t, <2>0, <2>2 DEF SomeComplete
      <3>2. target'[complete[c].next] = Halves
        BY <1>t, <2>0, <2>2 DEF Contents, Whole
      <3>3. Appended(c)
        BY <1>a
      <3>4. \A d \in Clients : complete[d].st \in {"assembling", "stored"} => d = c
        BY <2>0, <3>3 DEF Appended
      <3>5. ASSUME NEW i \in Chunks, i < complete'[c].next  PROVE target'[i] = Halves
        <4>1. i = complete[c].next \/ i < complete[c].next
          BY <1>n, <2>0, <3>1, <3>5
        <4>2. ASSUME i < complete[c].next, i # complete[c].next  PROVE target'[i] = Halves
          BY <1>t, <2>0, <2>2, <3>3, <4>2 DEF Appended
        <4> QED
          BY <3>2, <4>1, <4>2
      <3>6. ASSUME NEW d \in Clients, complete'[d].st \in {"assembling", "stored"}  PROVE d = c
        BY <3>1, <3>4, <3>6
      <3>7. ASSUME NEW d \in Clients  PROVE Appended(d)'
        BY <3>5, <3>6 DEF Appended
      <3> QED
        BY <1>f, <2>0, <3>7
    <2> QED
      BY <1>5, <2>1, <2>2 DEF ChunkAssembled, CompleteFails
  <1>6. ASSUME NEW c \in Clients, FileStored(c)  PROVE Goal
    <2>0. /\ complete[c].st = "assembling" /\ complete[c].next \notin Chunks /\ target' = target
          /\ result' = {target} /\ complete' = [complete EXCEPT ![c].st = "stored"]
      BY <1>6 DEF FileStored
    <2>1. \A i \in Chunks : i < complete[c].next
      BY <1>n, <2>0
    <2>2. \A i \in Chunks : target[i] = Halves
      BY <1>a, <2>0, <2>1 DEF Appended
    <2> QED
      BY <1>2, <2>0, <2>2
  <1>7. ASSUME NEW c \in Clients, DirectoryRemoved(c)  PROVE Goal
    BY <1>2, <1>7, <1>f DEF DirectoryRemoved
  <1>8. CASE ServerRestarts
    <2>1. \A c \in Clients : complete'[c].st = "none"
      BY <1>t, <1>8 DEF ServerRestarts, SomeComplete
    <2> QED
      BY <1>8, <1>f, <2>1 DEF ServerRestarts, Appended
  <1>9. ASSUME NEW k \in Requests,
               \/ ChunkAnswered(k) \/ AnswerLost(k) \/ ChunkOpens(k) \/ ChunkWrites(k)
               \/ ChunkCopied(k) \/ ChunkRemoved(k) \/ ChunkRenamed(k)
        PROVE  Goal
    <2>1. complete' = complete /\ target' = target /\ result' = result
      BY <1>9 DEF ChunkAnswered, AnswerLost, ChunkOpens, ChunkWrites, ChunkCopied, ChunkRemoved, ChunkRenamed
    <2> QED
      BY <1>1, <2>1
  <1>10. ASSUME NEW c \in Clients, BeginUpload(c) \/ UploadChunkFails(c) \/ \E i \in Chunks, k \in Requests : SendChunk(c, i, k)
         PROVE  Goal
    <2>1. complete' = complete /\ target' = target /\ result' = result
      BY <1>10 DEF BeginUpload, UploadChunkFails, SendChunk
    <2> QED
      BY <1>1, <2>1
  <1>11. CASE UNCHANGED resumableVars
    BY <1>1, <1>11 DEF resumableVars
  <1> QED
    BY <1>3, <1>4, <1>5, <1>6, <1>7, <1>8, <1>9, <1>10, <1>11 DEF ResumableNext

-----------------------------------------------------------------------------
(* What follows for every upload.                                          *)

\* The upload begins with nothing in any file and nothing asked.
LEMMA UploadInitially == ResumableInit => UploadInv
PROOF
  <1> SUFFICES ASSUME ResumableInit  PROVE UploadInv
    OBVIOUS
  <1> USE ChunkNumbers DEF ResumableInit
  <1>1. UploadTypeOK
    <2>1. [st |-> "idle", todo |-> {}, tries |-> [i \in Chunks |-> 0]] \in SomeClient
      BY DEF SomeClient
    <2>2. [st |-> "none", next |-> 1] \in SomeComplete
      BY DEF SomeComplete
    <2>3. /\ req \in [Requests -> SomeRequest \cup {UnusedRequest}]
          /\ client \in [Clients -> SomeClient] /\ complete \in [Clients -> SomeComplete]
      BY <2>1, <2>2 DEF UnusedRequest
    <2>4. /\ target \in [Chunks -> SUBSET Halves] /\ result \in SUBSET [Chunks -> SUBSET Halves]
          /\ data \in [Requests -> SUBSET Halves]
      BY DEF Nothing
    <2>5. tmp \in [Chunks -> Requests \cup {NoRequest}] /\ part \in [Chunks -> Requests \cup {NoRequest}]
      OBVIOUS
    <2>6. dir \in BOOLEAN /\ overlap \in BOOLEAN
      OBVIOUS
    <2>7. breaks \in 0 .. MaxBreaks
      OBVIOUS
    <2> QED
      BY <2>3, <2>4, <2>5, <2>6, <2>7 DEF UploadTypeOK
  <1>2. \A k \in Requests : req[k].st = "unused"
    OBVIOUS
  <1>3. \A c \in Clients : complete[c].st = "none"
    OBVIOUS
  <1>4. Files
    BY <1>2 DEF Files, PathsOf, Opened, InWork
  <1>5. Fresh
    BY <1>2, <1>3 DEF Fresh
  <1>6. Contents
    BY <1>2, <1>3 DEF Contents, InWork, Whole, Appended
  <1> QED
    BY <1>1, <1>4, <1>5, <1>6 DEF UploadInv

\* No step of a tab, a request, an assembly or a restart breaks the invariant.
LEMMA UploadStep == UploadInv /\ [ResumableNext]_resumableVars => UploadInv'
PROOF
  <1> SUFFICES ASSUME UploadInv, [ResumableNext]_resumableVars  PROVE UploadInv'
    OBVIOUS
  <1>1. UploadTypeOK /\ Files /\ Fresh
    BY DEF UploadInv
  <1>2. UploadTypeOK' /\ Files' /\ Fresh'
    BY <1>1, TypeStep, FilesStep, FreshStep
  <1>3. ASSUME ~overlap'  PROVE Contents'
    <2>1. ~overlap
      BY <1>1, <1>3, OverlapStays
    <2>2. Contents
      BY <2>1 DEF UploadInv
    <2>3. /\ \A k \in Requests : req'[k].st \in InWork => InHand(k)'
          /\ \A i \in Chunks : Whole(i)'
      BY <1>1, <1>3, <2>2, WritingStep
    <2>4. /\ \A c \in Clients : Appended(c)'
          /\ \A f \in result' : \A i \in Chunks : f[i] = Halves
      BY <1>1, <1>3, <2>2, AssemblingStep
    <2> QED
      BY <2>3, <2>4 DEF Contents
  <1> QED
    BY <1>2, <1>3 DEF UploadInv

\* The tabs, the requests, the paths and the files keep their types, however many
\* requests, restarts and tabs an upload has.
THEOREM UploadTyped == ResumableSpec => []UploadTypeOK
PROOF
  <1>1. UploadInv => UploadTypeOK
    BY DEF UploadInv
  <1> QED
    BY UploadInitially, UploadStep, <1>1, PTL DEF ResumableSpec

\* The stored PDF is the chosen file, whole, unless two requests wrote one of its
\* chunks at once or two tabs were assembling it (resumable_upload.go:163 and :229):
\* for every number of chunks, tabs, requests, broken bodies and restarts.
THEOREM StoredIsWhole == ResumableSpec => []AssembledIsWhole
PROOF
  <1>1. UploadInv => AssembledIsWhole
    BY DEF UploadInv, Contents, AssembledIsWhole
  <1> QED
    BY UploadInitially, UploadStep, <1>1, PTL DEF ResumableSpec
=============================================================================
