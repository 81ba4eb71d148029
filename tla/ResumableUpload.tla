-------------------------- MODULE ResumableUpload ---------------------------
(***************************************************************************)
(* One upload of a large PDF in chunks.  Browser tabs share its id through *)
(* localStorage; each sends the chunks the server has not got, each chunk  *)
(* up to three times, and then asks for the file to be assembled.  The     *)
(* server keeps an upload in a directory: a chunk is written to NNN.tmp    *)
(* and renamed to NNN.part.  Requests run concurrently, and one the browser *)
(* gave up goes on.                                                        *)
(*                                                                         *)
(* A file is named by the request that created it, so that a path and an   *)
(* open descriptor can refer to different files; its contents are the      *)
(* halves of the chunk that are in it (a half skipped is a hole).          *)
(***************************************************************************)
EXTENDS Naturals, FiniteSets

CONSTANTS
  Chunks,     \* 1 .. chunkCount
  Clients,    \* tabs, each with the file in its queue
  Requests,   \* bound: PUT requests of the behaviour, 1 .. n
  NoRequest,  \* no file at a path
  Attempts,   \* how often a chunk is sent: 3 in the code
  MaxBreaks   \* bound: broken bodies, lost answers and crashes

ASSUME ResumableAssumption ==
  /\ IsFiniteSet(Chunks) /\ Chunks = 1 .. Cardinality(Chunks)
  /\ NoRequest \notin Requests /\ {Attempts, MaxBreaks} \subseteq Nat

Halves == {0, 1}

VARIABLES
  dir,        \* the directory of the upload exists
  tmp, part,  \* the file at each path
  data,       \* what is in each file
  req,        \* the PUT requests
  client,     \* the tabs
  complete,   \* the assembly each tab has asked for: the next chunk and where it is
  target,     \* the file being assembled
  result,     \* the stored file, if any: the halves of each chunk
  breaks,
  overlap     \* history: two requests wrote one chunk, or two assembled, at once

resumableVars == <<dir, tmp, part, data, req, client, complete, target, result, breaks, overlap>>

Nothing == [i \in Chunks |-> {}]

ResumableInit ==
  /\ dir = TRUE
  /\ tmp = [i \in Chunks |-> NoRequest] /\ part = [i \in Chunks |-> NoRequest]
  /\ data = [k \in Requests |-> {}]
  /\ req = [k \in Requests |-> [st |-> "unused"]]
  /\ client = [c \in Clients |-> [st |-> "idle", todo |-> {}, tries |-> [i \in Chunks |-> 0]]]
  /\ complete = [c \in Clients |-> [st |-> "none", next |-> 1]]
  /\ target = Nothing /\ result = {}
  /\ breaks = 0 /\ overlap = FALSE

Breaks == breaks < MaxBreaks /\ breaks' = breaks + 1

-----------------------------------------------------------------------------
(* The browser.                                                            *)

Received == {i \in Chunks : part[i] # NoRequest}

\* The upload is begun, or taken up again, by its saved id.  (Without the
\* directory the answer is 404 and the tab begins another upload.)
BeginUpload(c) ==
  /\ dir /\ client[c].st \in {"idle", "failed"}
  /\ client' = [client EXCEPT ![c] =
       [st |-> "sending", todo |-> Chunks \ Received, tries |-> [i \in Chunks |-> 0]]]
  /\ UNCHANGED <<dir, tmp, part, data, req, complete, target, result, breaks, overlap>>

Awaited(c, i) == {k \in Requests : req[k].st # "unused" /\ req[k].from = c /\ req[k].chunk = i /\ req[k].awaited}

\* uploadChunk sends a chunk, again when the attempt before has failed; the other
\* workers go on when one has given up.
SendChunk(c, i, k) ==
  /\ client[c].st \in {"sending", "failed"} /\ i \in client[c].todo /\ Awaited(c, i) = {}
  /\ client[c].tries[i] < Attempts
  /\ req[k].st = "unused" /\ \A j \in Requests : req[j].st = "unused" => k <= j
  /\ client' = [client EXCEPT ![c].tries[i] = @ + 1]
  /\ req' = [req EXCEPT ![k] = [st |-> "sent", from |-> c, chunk |-> i, file |-> k, off |-> 0, awaited |-> TRUE]]
  /\ UNCHANGED <<dir, tmp, part, data, complete, target, result, breaks, overlap>>

\* The browser learns that a chunk is stored, that it is not, or loses the
\* connection while the request goes on.
ChunkAnswered(k) ==
  /\ req[k].st \in {"stored", "refused"} /\ req[k].awaited
  /\ req' = [req EXCEPT ![k].awaited = FALSE]
  /\ client' = IF req[k].st = "stored" THEN [client EXCEPT ![req[k].from].todo = @ \ {req[k].chunk}] ELSE client
  /\ UNCHANGED <<dir, tmp, part, data, complete, target, result, breaks, overlap>>

AnswerLost(k) ==
  /\ req[k].st # "unused" /\ req[k].awaited /\ Breaks
  /\ req' = [req EXCEPT ![k].awaited = FALSE]
  /\ UNCHANGED <<dir, tmp, part, data, client, complete, target, result, overlap>>

\* All chunks are stored, or one has failed three times.
SendComplete(c) ==
  /\ client[c].st = "sending" /\ client[c].todo = {}
  /\ client' = [client EXCEPT ![c].st = "completing"]
  /\ complete' = [complete EXCEPT ![c] = [st |-> "sent", next |-> 1]]
  /\ UNCHANGED <<dir, tmp, part, data, req, target, result, breaks, overlap>>

UploadChunkFails(c) ==
  /\ client[c].st = "sending"
  /\ \E i \in client[c].todo : client[c].tries[i] = Attempts /\ Awaited(c, i) = {}
  /\ client' = [client EXCEPT ![c].st = "failed"]
  /\ UNCHANGED <<dir, tmp, part, data, req, complete, target, result, breaks, overlap>>

-----------------------------------------------------------------------------
(* handleResumableCampaignImageChunk.                                      *)

Writing(i) == {k \in Requests : req[k].st \in {"writing", "checked", "replacing"} /\ req[k].chunk = i}

\* The temporary file is created, or emptied if it is there.
ChunkOpens(k) ==
  /\ req[k].st = "sent"
  /\ IF ~dir THEN req' = [req EXCEPT ![k].st = "refused"] /\ UNCHANGED <<tmp, data, overlap>>
     ELSE LET i == req[k].chunk
              f == IF tmp[i] = NoRequest THEN k ELSE tmp[i] IN
          /\ tmp' = [tmp EXCEPT ![i] = f]
          /\ data' = [data EXCEPT ![f] = {}]
          /\ req' = [req EXCEPT ![k].st = "writing", ![k].file = f]
          /\ overlap' = (overlap \/ Writing(i) # {})
  /\ UNCHANGED <<dir, part, client, complete, target, result, breaks>>

ChunkWrites(k) ==
  /\ req[k].st = "writing" /\ req[k].off < 2
  /\ data' = [data EXCEPT ![req[k].file] = @ \cup {req[k].off}]
  /\ req' = [req EXCEPT ![k].off = @ + 1]
  /\ UNCHANGED <<dir, tmp, part, client, complete, target, result, breaks, overlap>>

\* Bug of ChunkCopied: a body that broke off counts as a chunk.
BugChunkCopied(k) ==
  /\ req[k].st = "writing"
  /\ IF req[k].off < 2 THEN Breaks ELSE UNCHANGED breaks
  /\ req' = [req EXCEPT ![k].st = "checked"]
  /\ UNCHANGED <<dir, tmp, part, data, client, complete, target, result, overlap>>

\* The body has ended; one that broke off has the wrong size, and the
\* temporary file is removed by its path.
ChunkCopied(k) ==
  /\ req[k].st = "writing"
  /\ IF req[k].off < 2
     THEN /\ Breaks
          /\ tmp' = [tmp EXCEPT ![req[k].chunk] = NoRequest]
          /\ req' = [req EXCEPT ![k].st = "refused"]
     ELSE /\ req' = [req EXCEPT ![k].st = "checked"] /\ UNCHANGED <<tmp, breaks>>
  /\ UNCHANGED <<dir, part, data, client, complete, target, result, overlap>>

\* The chunk received before is removed.
ChunkRemoved(k) ==
  /\ req[k].st = "checked"
  /\ part' = [part EXCEPT ![req[k].chunk] = NoRequest]
  /\ req' = [req EXCEPT ![k].st = "replacing"]
  /\ UNCHANGED <<dir, tmp, data, client, complete, target, result, breaks, overlap>>

\* Whatever file is at the temporary path becomes the chunk.
ChunkRenamed(k) ==
  /\ req[k].st = "replacing"
  /\ LET i == req[k].chunk IN
     IF tmp[i] = NoRequest
     THEN req' = [req EXCEPT ![k].st = "refused"] /\ UNCHANGED <<tmp, part>>
     ELSE /\ part' = [part EXCEPT ![i] = tmp[i]]
          /\ tmp' = [tmp EXCEPT ![i] = NoRequest]
          /\ req' = [req EXCEPT ![k].st = "stored"]
  /\ UNCHANGED <<dir, data, client, complete, target, result, breaks, overlap>>

-----------------------------------------------------------------------------
(* handleResumableCampaignImageComplete.                                   *)

Assembling == {c \in Clients : complete[c].st \in {"assembling", "stored"}}

CompleteFails(c) ==
  /\ complete' = [complete EXCEPT ![c].st = "none"]
  /\ client' = [client EXCEPT ![c].st = "failed"]

CompleteBegins(c) ==
  /\ complete[c].st = "sent"
  /\ IF dir /\ Received = Chunks
     THEN /\ complete' = [complete EXCEPT ![c].st = "assembling"]
          /\ target' = Nothing
          /\ overlap' = (overlap \/ Assembling # {})
          /\ UNCHANGED client
     ELSE CompleteFails(c) /\ UNCHANGED <<target, overlap>>
  /\ UNCHANGED <<dir, tmp, part, data, req, result, breaks>>

\* assembleResumableUpload: the next chunk is appended, if it is still there.
ChunkAssembled(c) ==
  LET i == complete[c].next IN
  /\ complete[c].st = "assembling" /\ i \in Chunks
  /\ IF part[i] = NoRequest
     THEN CompleteFails(c) /\ UNCHANGED target
     ELSE /\ target' = [target EXCEPT ![i] = data[part[i]]]
          /\ complete' = [complete EXCEPT ![c].next = @ + 1]
          /\ UNCHANGED client
  /\ UNCHANGED <<dir, tmp, part, data, req, result, breaks, overlap>>

\* The assembled file gets its name, or goes to the object storage.
FileStored(c) ==
  /\ complete[c].st = "assembling" /\ complete[c].next \notin Chunks
  /\ result' = {target}
  /\ complete' = [complete EXCEPT ![c].st = "stored"]
  /\ UNCHANGED <<dir, tmp, part, data, req, client, target, breaks, overlap>>

\* The directory is removed and the browser answered.
DirectoryRemoved(c) ==
  /\ complete[c].st = "stored"
  /\ dir' = FALSE
  /\ tmp' = [i \in Chunks |-> NoRequest] /\ part' = [i \in Chunks |-> NoRequest]
  /\ complete' = [complete EXCEPT ![c].st = "none"]
  /\ client' = [client EXCEPT ![c].st = "done"]
  /\ UNCHANGED <<data, req, target, result, breaks, overlap>>

\* The server restarts: every request is lost, the files stay.
ServerRestarts ==
  /\ Breaks
  /\ req' = [k \in Requests |-> IF req[k].st \in {"unused", "stored", "refused"} THEN req[k]
                                ELSE [req[k] EXCEPT !.st = "refused"]]
  /\ complete' = [c \in Clients |-> [complete[c] EXCEPT !.st = "none"]]
  /\ client' = [c \in Clients |-> IF client[c].st = "completing" THEN [client[c] EXCEPT !.st = "failed"] ELSE client[c]]
  /\ UNCHANGED <<dir, tmp, part, data, target, result, overlap>>

ResumableNext ==
  \/ \E c \in Clients : \/ BeginUpload(c) \/ SendComplete(c) \/ UploadChunkFails(c)
                        \/ CompleteBegins(c) \/ ChunkAssembled(c) \/ FileStored(c) \/ DirectoryRemoved(c)
                        \/ \E i \in Chunks, k \in Requests : SendChunk(c, i, k)
  \/ \E k \in Requests : \/ ChunkAnswered(k) \/ AnswerLost(k) \/ ChunkOpens(k) \/ ChunkWrites(k)
                         \/ ChunkCopied(k) \/ ChunkRemoved(k) \/ ChunkRenamed(k)
  \/ ServerRestarts

ResumableSpec == ResumableInit /\ [][ResumableNext]_resumableVars

-----------------------------------------------------------------------------
\* The stored PDF is the file that was chosen, whole, unless two requests wrote
\* one of its chunks at the same time or two were assembling it: a repeated
\* chunk, a request that breaks off, a second tab and a restart leave no hole.
AssembledIsWhole ==
  overlap \/ \A f \in result : \A i \in Chunks : f[i] = Halves
=============================================================================
