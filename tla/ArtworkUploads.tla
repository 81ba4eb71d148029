--------------------------- MODULE ArtworkUploads ---------------------------
(***************************************************************************)
(* The artwork uploads of the browser (ArtworkUploadContext): the queue    *)
(* of local PDFs and its one worker, the imports from OneDrive that the    *)
(* server runs and the browser polls, the batches whose end is announced,  *)
(* and what a change of the session or a reload of the page leaves of      *)
(* them.  The server's imports are those of ImportJob.                     *)
(***************************************************************************)
EXTENDS Naturals, Sequences, FiniteSets, SequencesExt

CONSTANTS
  Local,     \* PDFs chosen from the disk
  Drive,     \* PDFs chosen in OneDrive
  People,    \* users who may sign in
  None,      \* no session; the worker is idle; no list call is under way
  MaxPages,  \* bound: sessions and page loads
  MaxFails   \* bound: calls that fail

Files == Local \cup Drive

\* What the runs check and the proofs take for granted of the constants.
UploadAssumption ==
  /\ IsFiniteSet(Local) /\ IsFiniteSet(Drive) /\ Local \cap Drive = {}
  /\ None \notin Local \cup People
  /\ MaxPages \in Nat /\ MaxFails \in Nat

VARIABLES
  session,   \* session.user.id
  notice,    \* the last notice: the files it is about and how many failed
  jobs,      \* the list of jobs: [st, batch] per file; a restored import has no batch
  queue,     \* queueRef
  upload,    \* the file the worker is at, and how far processArtworkPdf is
  batches,   \* uploadBatchRef
  creating,  \* loops of enqueueOneDriveFiles
  monitored, \* monitoredOneDriveRef
  loops,     \* polling loops of monitorOneDriveJob, per file: whether each reports to a batch
  listing,   \* the call of listOneDriveArtworkImports whose answer is still wanted
  status, imported, owner,  \* the server: imports, files whose images are in a campaign, who imports
  count,     \* sessions and pages, failed calls so far
  unclear,   \* history: files whose append or creation succeeded without an answer
  astray     \* history: files that will not be counted off their batch

uploadVars == <<session, notice, jobs, queue, upload, batches, creating, monitored, loops, listing,
                status, imported, owner, count, unclear, astray>>
serverVars == <<status, imported, owner>>

Server == INSTANCE ImportJob WITH Jobs <- Drive, saved <- imported

NoJob   == [st |-> "none", batch |-> {}]
AtRest  == [file |-> None, step |-> "source"]
NoNotice == [files |-> {}, failed |-> 0]
NoList  == [user |-> None, answered |-> FALSE, found |-> {}]

UploadTypeOK ==
  /\ session \in People \cup {None}
  /\ jobs \in [Files -> [st : {"none", "queued", "uploading", "completed", "error"},
                         batch : SUBSET Files]]
  /\ queue \in Seq(Local)
  /\ upload \in [file : Local \cup {None}, step : {"source", "append", "answer"}]
  /\ batches \subseteq [files : SUBSET Files, remaining : 0 .. Cardinality(Files),
                        failed : 0 .. Cardinality(Files)]
  /\ creating \subseteq [batch : SUBSET Drive, rest : SUBSET Drive, now : Drive,
                         user : People \cup {None}, step : {"sent", "inserted", "lost"}]
  /\ monitored \subseteq Drive
  /\ loops \in [Drive -> Seq(BOOLEAN)]
  /\ listing \in [user : People \cup {None}, answered : BOOLEAN, found : SUBSET Drive]
  /\ status \in [Drive -> {"absent", "queued", "active", "completed", "error"}]
  /\ imported \subseteq Files
  /\ owner \in [Drive -> People \cup {None}]
  /\ count \in [pages : 0 .. MaxPages, fails : 0 .. MaxFails]
  /\ unclear \subseteq Files /\ astray \subseteq Files
  /\ notice \in [files : SUBSET Files, failed : 0 .. Cardinality(Files)]

UploadInit ==
  /\ session \in People
  /\ jobs = [f \in Files |-> NoJob]
  /\ queue = <<>> /\ upload = AtRest
  /\ batches = {} /\ creating = {}
  /\ monitored = {} /\ loops = [f \in Drive |-> <<>>]
  /\ listing = [NoList EXCEPT !.user = session]
  /\ notice = NoNotice
  /\ status = [f \in Drive |-> "absent"] /\ imported = {}
  /\ owner = [f \in Drive |-> None]
  /\ count = [pages |-> 0, fails |-> 0]
  /\ unclear = {} /\ astray = {}

-----------------------------------------------------------------------------
(* Batches and jobs.                                                       *)

\* A call fails on the network or at the server.
CallFails == count.fails < MaxFails /\ count' = [count EXCEPT !.fails = @ + 1]

\* The batch f is counted in, if it is not announced yet.
OpenBatch(f) == {b \in batches : f \in b.files}

\* Bug of RecordBatchCompletion: a file that failed is not counted off.
BugRecordBatchCompletion(f, failed) ==
  LET b == CHOOSE x \in OpenBatch(f) : TRUE
      c == [b EXCEPT !.remaining = @ - 1] IN
  IF failed THEN UNCHANGED <<batches, notice>>
  ELSE IF c.remaining > 0 THEN batches' = (batches \ {b}) \cup {c} /\ UNCHANGED notice
  ELSE batches' = batches \ {b} /\ notice' = [files |-> c.files, failed |-> c.failed]

\* One file of an open batch ended; with the last one the batch is announced
\* and forgotten.
RecordBatchCompletion(f, failed) ==
  LET b == CHOOSE x \in OpenBatch(f) : TRUE
      c == [b EXCEPT !.remaining = @ - 1, !.failed = @ + IF failed THEN 1 ELSE 0] IN
  IF c.remaining > 0
  THEN batches' = (batches \ {b}) \cup {c} /\ UNCHANGED notice
  ELSE batches' = batches \ {b} /\ notice' = [files |-> c.files, failed |-> c.failed]

\* A file that reports to no open batch is announced alone.
ShowNotice(f, failed) ==
  notice' = [files |-> {f}, failed |-> IF failed THEN 1 ELSE 0] /\ UNCHANGED batches

\* setJobs(map): only files that are in the list change.
Mark(f, st) == jobs' = [jobs EXCEPT ![f].st = IF @ = "none" THEN @ ELSE st]

NewBatch(fs) == batches' = batches \cup {[files |-> fs, remaining |-> Cardinality(fs), failed |-> 0]}

-----------------------------------------------------------------------------
(* Local files.                                                            *)

\* Several files are chosen at once: jobs, queue and batch, in their order.  (A
\* PDF chosen again is a new job: it is another file here.)
EnqueueArtworkFiles(fs) ==
  /\ session # None
  /\ fs \subseteq Local /\ fs # {}
  /\ \A f \in fs : jobs[f] = NoJob /\ f \notin imported \cup astray \cup notice.files
  /\ \A f \in fs : upload.file # f /\ \A b \in batches : f \notin b.files
  /\ NewBatch(fs)
  /\ queue' \in {queue \o s : s \in SetToSeqs(fs)}
  /\ jobs' = [f \in Files |-> IF f \in fs THEN [st |-> "queued", batch |-> fs] ELSE jobs[f]]
  /\ UNCHANGED <<session, notice, upload, creating, monitored, loops, listing, serverVars,
                 count, unclear, astray>>

\* The loop of processQueue takes the next file.
NextFile ==
  /\ upload.file = None /\ queue # <<>>
  /\ upload' = [file |-> Head(queue), step |-> "source"]
  /\ queue' = Tail(queue)
  /\ Mark(Head(queue), "uploading")
  /\ UNCHANGED <<session, notice, batches, creating, monitored, loops, listing, serverVars,
                 count, unclear, astray>>

\* The source PDF, its pages and their reduced images are stored.
FilesStored ==
  /\ upload.file # None /\ upload.step = "source"
  /\ upload' = [upload EXCEPT !.step = "append"]
  /\ UNCHANGED <<session, notice, jobs, queue, batches, creating, monitored, loops, listing,
                 serverVars, count, unclear, astray>>

\* appendCampaignPrintImages at the server.
ImagesAppended ==
  /\ upload.file # None /\ upload.step = "append"
  /\ imported' = imported \cup {upload.file}
  /\ upload' = [upload EXCEPT !.step = "answer"]
  /\ UNCHANGED <<session, notice, jobs, queue, batches, creating, monitored, loops, listing,
                 status, owner, count, unclear, astray>>

UploadCompletes ==
  /\ upload.file # None /\ upload.step = "answer"
  /\ Mark(upload.file, "completed")
  /\ RecordBatchCompletion(upload.file, FALSE)
  /\ upload' = AtRest
  /\ UNCHANGED <<session, queue, creating, monitored, loops, listing, serverVars,
                 count, unclear, astray>>

\* Any of its calls fails, or the answer to the append is lost; the worker
\* goes on with the next file.
UploadFails ==
  /\ upload.file # None /\ CallFails
  /\ Mark(upload.file, "error")
  /\ RecordBatchCompletion(upload.file, TRUE)
  /\ unclear' = IF upload.step = "answer" THEN unclear \cup {upload.file} ELSE unclear
  /\ upload' = AtRest
  /\ UNCHANGED <<session, queue, creating, monitored, loops, listing, serverVars, astray>>

\* The button of the upload manager, shown for queued files, filters the id of
\* the job out of the queue, where it is once; the batch is not told.
RemoveQueuedUpload(f) ==
  /\ f \in Local /\ jobs[f].st = "queued"
  /\ \E k \in DOMAIN queue : queue[k] = f /\ queue' = RemoveAt(queue, k)
  /\ jobs' = [jobs EXCEPT ![f] = NoJob]
  /\ astray' = astray \cup {f}
  /\ UNCHANGED <<session, notice, upload, batches, creating, monitored, loops, listing, serverVars,
                 count, unclear>>

-----------------------------------------------------------------------------
(* Imports from OneDrive.                                                  *)

\* enqueueOneDriveFile adds the job under an id of its own and sends the call.
Creation(fs, rest, f) ==
  [batch |-> fs, rest |-> rest, now |-> f, user |-> session, step |-> "sent"]

EnqueueOneDriveFiles(fs, f) ==
  /\ session # None
  /\ f \in fs /\ fs \subseteq Drive
  /\ \A g \in fs : /\ jobs[g] = NoJob /\ status[g] = "absent" /\ g \notin astray \cup unclear \cup notice.files
                  /\ OpenBatch(g) = {} /\ \A c \in creating : g \notin c.batch
  /\ NewBatch(fs)
  /\ creating' = creating \cup {Creation(fs, fs \ {f}, f)}
  /\ jobs' = [jobs EXCEPT ![f] = [st |-> "uploading", batch |-> fs]]
  /\ UNCHANGED <<session, notice, queue, upload, monitored, loops, listing, serverVars,
                 count, unclear, astray>>

\* handleCreateOneDriveArtworkImport; the answer may be lost.
ImportInserted(c) ==
  /\ c.step = "sent" /\ c.user # None
  /\ Server!Create(c.now)
  /\ owner' = [owner EXCEPT ![c.now] = c.user]
  /\ \/ /\ creating' = (creating \ {c}) \cup {[c EXCEPT !.step = "inserted"]}
        /\ UNCHANGED <<count, unclear>>
     \/ /\ CallFails
        /\ creating' = (creating \ {c}) \cup {[c EXCEPT !.step = "lost"]}
        /\ unclear' = unclear \cup {c.now}
  /\ UNCHANGED <<session, notice, jobs, queue, upload, batches, monitored, loops, listing,
                 astray>>

\* The loop of enqueueOneDriveFiles goes on with another file, whoever is
\* signed in by now.
NextSelection(c) ==
  IF c.rest = {}
  THEN creating' = creating \ {c} /\ UNCHANGED jobs
  ELSE \E f \in c.rest :
         /\ creating' = (creating \ {c}) \cup {Creation(c.batch, c.rest \ {f}, f)}
         /\ jobs' = [jobs EXCEPT ![f] = [st |-> "uploading", batch |-> c.batch]]

\* The answer is an import: monitorOneDriveJob does nothing for an import that
\* is already polled, as it is when the list of the session found it first.
ImportCreated(c) ==
  /\ c.step = "inserted"
  /\ IF c.now \in monitored
     THEN /\ astray' = astray \cup {c.now}
          /\ UNCHANGED <<monitored, loops>>
     ELSE /\ monitored' = monitored \cup {c.now}
          /\ loops' = [loops EXCEPT ![c.now] = Append(@, TRUE)]
          /\ UNCHANGED astray
  /\ NextSelection(c)
  /\ UNCHANGED <<session, notice, queue, upload, batches, listing, serverVars, count, unclear>>

\* The call failed, or its answer was lost: the file counts as failed.
CreationFails(c) ==
  /\ \/ c.step = "sent" /\ c.user # None /\ CallFails
     \/ c.step = "sent" /\ c.user = None /\ UNCHANGED count
     \/ c.step = "lost" /\ UNCHANGED count
  /\ RecordBatchCompletion(c.now, TRUE)
  /\ LET marked == [jobs EXCEPT ![c.now] =
                     IF @.batch = c.batch THEN [@ EXCEPT !.st = "error"] ELSE @] IN
     IF c.rest = {}
     THEN creating' = creating \ {c} /\ jobs' = marked
     ELSE \E f \in c.rest :
            /\ creating' = (creating \ {c}) \cup {Creation(c.batch, c.rest \ {f}, f)}
            /\ jobs' = [marked EXCEPT ![f] = [st |-> "uploading", batch |-> c.batch]]
  /\ UNCHANGED <<session, queue, upload, monitored, loops, listing, serverVars,
                 unclear, astray>>

\* Bug of Poll: a loop goes on after its import ended.
BugPoll(f, k) ==
  /\ f \in monitored /\ owner[f] = session /\ Server!Ended(f)
  /\ Mark(f, status[f])
  /\ IF loops[f][k] /\ OpenBatch(f) # {}
     THEN RecordBatchCompletion(f, status[f] = "error")
     ELSE ShowNotice(f, status[f] = "error")
  /\ UNCHANGED <<session, queue, upload, creating, monitored, loops, listing, serverVars, count,
                 unclear, astray>>

\* A loop polls an import that has ended: it reports and stops.  Until then, or
\* if the import is not of the user who asks, a poll changes nothing and is
\* repeated.
Poll(f, k) ==
  /\ f \in monitored /\ owner[f] = session /\ Server!Ended(f)
  /\ Mark(f, status[f])
  /\ IF loops[f][k] /\ OpenBatch(f) # {}
     THEN RecordBatchCompletion(f, status[f] = "error")
     ELSE ShowNotice(f, status[f] = "error")
  /\ monitored' = monitored \ {f}
  /\ loops' = [loops EXCEPT ![f] = RemoveAt(@, k)]
  /\ UNCHANGED <<session, queue, upload, creating, listing, serverVars, count, unclear, astray>>

\* A loop finds its import no longer monitored and stops without a word.
PollStops(f, k) ==
  /\ f \notin monitored
  /\ loops' = [loops EXCEPT ![f] = RemoveAt(@, k)]
  /\ astray' = IF loops[f][k] THEN astray \cup {f} ELSE astray
  /\ UNCHANGED <<session, notice, jobs, queue, upload, batches, creating, monitored, listing,
                 serverVars, count, unclear>>

ServerWorks(f) ==
  /\ Server!Work(f)
  /\ UNCHANGED <<session, notice, jobs, queue, upload, batches, creating, monitored, loops,
                 listing, owner, count, unclear, astray>>

-----------------------------------------------------------------------------
(* Sessions and pages.                                                     *)

\* The list as the server knows it; only imports that have not ended are used.
ListServed ==
  /\ listing.user # None /\ ~listing.answered
  /\ \/ /\ listing' = [listing EXCEPT !.answered = TRUE,
             !.found = {f \in Drive : owner[f] = listing.user /\ Server!Active(f)}]
        /\ UNCHANGED count
     \/ CallFails /\ listing' = NoList
  /\ UNCHANGED <<session, notice, jobs, queue, upload, batches, creating, monitored, loops,
                 serverVars, unclear, astray>>

\* The answer replaces every job from OneDrive in the list.
ListAnswered ==
  LET found == listing.found IN
  /\ listing.answered
  /\ jobs' = [f \in Files |-> IF f \in Local THEN jobs[f]
                             ELSE IF f \in found THEN [st |-> "uploading", batch |-> {}]
                             ELSE NoJob]
  /\ loops' = [f \in Drive |-> IF f \in found \ monitored THEN Append(loops[f], FALSE)
                               ELSE loops[f]]
  /\ monitored' = monitored \cup found
  /\ listing' = NoList
  /\ UNCHANGED <<session, notice, queue, upload, batches, creating, serverVars, count,
                 unclear, astray>>

\* The effect on session.user.id: another user signs in, or the user out.
SessionChanges(u) ==
  /\ u # session /\ count.pages < MaxPages
  /\ count' = [count EXCEPT !.pages = @ + 1]
  /\ session' = u
  /\ monitored' = {}
  /\ jobs' = [f \in Files |-> IF f \in Local /\ jobs[f].st \in {"queued", "uploading"}
                             THEN jobs[f] ELSE NoJob]
  /\ notice' = NoNotice
  /\ listing' = [NoList EXCEPT !.user = u]
  /\ UNCHANGED <<queue, upload, batches, creating, loops, serverVars, unclear, astray>>

\* A reload forgets everything but the session; what the server has goes on.
Reload ==
  /\ count.pages < MaxPages
  /\ count' = [count EXCEPT !.pages = @ + 1]
  /\ jobs' = [f \in Files |-> NoJob]
  /\ queue' = <<>> /\ upload' = AtRest
  /\ batches' = {} /\ creating' = {}
  /\ monitored' = {} /\ loops' = [f \in Drive |-> <<>>]
  /\ notice' = NoNotice
  /\ listing' = [NoList EXCEPT !.user = session]
  /\ astray' = astray \cup UNION {b.files : b \in batches}
  /\ UNCHANGED <<session, serverVars, unclear>>

\* The open editor has merged the images of a batch that is complete in the
\* list, or of a restored import, and dismisses its jobs.
DismissUploadJobs(fs) ==
  /\ fs # {} /\ \A f \in fs : jobs[f].st \in {"completed", "error"}
  /\ \/ \A f \in fs : jobs[f].batch = fs
     \/ Cardinality(fs) = 1 /\ \A f \in fs : jobs[f].batch = {}
  /\ jobs' = [f \in Files |-> IF f \in fs THEN NoJob ELSE jobs[f]]
  /\ UNCHANGED <<session, notice, queue, upload, batches, creating, monitored, loops, listing,
                 serverVars, count, unclear, astray>>

Loops == UNION {{f} \X DOMAIN loops[f] : f \in Drive}

UploadNext ==
  \/ \E fs \in SUBSET Local : EnqueueArtworkFiles(fs)
  \/ NextFile \/ FilesStored \/ ImagesAppended \/ UploadCompletes \/ UploadFails
  \/ \E f \in Local : RemoveQueuedUpload(f)
  \/ \E fs \in SUBSET Drive : \E f \in fs : EnqueueOneDriveFiles(fs, f)
  \/ \E c \in creating : ImportInserted(c) \/ ImportCreated(c) \/ CreationFails(c)
  \/ \E l \in Loops : Poll(l[1], l[2]) \/ PollStops(l[1], l[2])
  \/ \E f \in Drive : ServerWorks(f)
  \/ ListServed \/ ListAnswered
  \/ \E u \in People \cup {None} : SessionChanges(u)
  \/ Reload
  \/ \E fs \in SUBSET Files : DismissUploadJobs(fs)

\* The worker of the queue, the calls under way and the server's workers make
\* progress, and a loop polls every two seconds.
UploadFairness ==
  /\ WF_uploadVars(NextFile \/ FilesStored \/ ImagesAppended \/ UploadCompletes \/ UploadFails)
  /\ \A f \in Drive :
       /\ WF_uploadVars(ServerWorks(f))
       /\ WF_uploadVars(\E c \in creating : c.now = f /\
                          (ImportInserted(c) \/ ImportCreated(c) \/ CreationFails(c)))
       /\ WF_uploadVars(\E l \in Loops : l[1] = f /\ (Poll(f, l[2]) \/ PollStops(f, l[2])))

UploadSpec == UploadInit /\ [][UploadNext]_uploadVars
FairUploadSpec == UploadSpec /\ UploadFairness

-----------------------------------------------------------------------------
(* Properties.                                                             *)

\* A notice is true: all its files have come to their end, and the number it
\* says were uploaded is the number of files whose images are in a campaign, up
\* to files whose end nobody was told and imports that failed after the append.
NoticeIsTrue ==
  LET fs    == notice.files
      done  == Cardinality(fs) - notice.failed
      known == unclear \cup {f \in Drive : status[f] = "error"} IN
  /\ \A f \in fs : IF f \in Local THEN f # upload.file /\ f \notin ToSet(queue)
                   ELSE f \in unclear \/ ~Server!Active(f)
  /\ Cardinality((fs \cap imported) \ known) <= done /\ done <= Cardinality(fs \cap imported)

\* Every batch is announced in the end, unless one of its files was removed
\* from the queue, lost its polling loop to a change of the session or of the
\* page, was found by the list before its creation was answered, or belongs to
\* a user who is no longer signed in.
BatchesAreAnnounced ==
  \A f \in Files :
    OpenBatch(f) # {} ~>
      \A b \in OpenBatch(f) : \/ b.files \cap astray # {}
                              \/ \E g \in b.files \cap Drive : owner[g] \notin {session, None}
=============================================================================
