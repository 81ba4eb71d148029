--------------------------- MODULE OneDriveImport ---------------------------
(***************************************************************************)
(* The workers of the API that import artwork from OneDrive: one per       *)
(* process, each takes the oldest import whose lease is free, downloads    *)
(* the PDF, stores it and its pages under names made from the import's id, *)
(* appends the pages to the campaign and completes the import.  A process  *)
(* may die at any step, and a lease may run out under a living worker that *)
(* cannot renew it; the import is then taken over.  What an import shows   *)
(* of this to the browser is ImportJob.                                    *)
(***************************************************************************)
EXTENDS Naturals

CONSTANTS
  Jobs,        \* imports
  Workers,     \* processes of the API
  Nobody,      \* locked_by IS NULL; no job
  Gone,        \* locked_by names a process that no longer runs
  Pages,       \* pages of each PDF
  MaxCrashes,  \* bound: processes that die
  MaxPauses,   \* bound: leases that run out although their worker lives
  MaxErrors,   \* bound: statements and stores that fail
  MaxLost      \* bound: transactions that commit although an error is reported

ASSUME ImportAssumption ==
  /\ Pages \in Nat \ {0}
  /\ {MaxCrashes, MaxPauses, MaxErrors, MaxLost} \subseteq Nat
  /\ Nobody \notin Workers \cup Jobs /\ Gone \notin Workers /\ Gone # Nobody

Objects == 0 .. Pages  \* the source PDF, then each page with its thumbnail and preview

VARIABLES
  row,        \* onedrive_artwork_imports: status, locked_by, whether locked_until is ahead
  saved,      \* the imports whose images were appended to their campaign
  stored,     \* campaign-image objects that exist, per import
  worker,     \* the import each process works on: its step, how many objects it stored
  budget,     \* crashes, pauses, errors and losses so far
  doubted     \* history: imports that two living processes worked on at once, and
              \* those that stayed completed because fail() failed as well

importVars == <<row, saved, stored, worker, budget, doubted>>

Statuses == {"absent", "queued", "downloading", "processing", "saving", "completed", "error"}
Steps    == {"download", "store", "append", "complete", "fail", "clean"}

ImportTypeOK ==
  /\ row \in [Jobs -> [status : Statuses, by : Workers \cup {Nobody, Gone}, leased : BOOLEAN]]
  /\ saved \subseteq Jobs
  /\ stored \in [Jobs -> SUBSET Objects]
  /\ worker \in [Workers -> [job : Jobs \cup {Nobody}, step : Steps, n : 0 .. Pages + 1]]
  /\ budget \in [crashes : 0 .. MaxCrashes, pauses : 0 .. MaxPauses,
                 errors : 0 .. MaxErrors, lost : 0 .. MaxLost]
  /\ doubted \subseteq Jobs

Idle == [job |-> Nobody, step |-> "download", n |-> 0]

\* storedObjects of a worker that stored n of them.
Mine(n) == {o \in Objects : o < n}

ImportInit ==
  /\ row = [j \in Jobs |-> [status |-> "absent", by |-> Nobody, leased |-> FALSE]]
  /\ saved = {}
  /\ stored = [j \in Jobs |-> {}]
  /\ worker = [w \in Workers |-> Idle]
  /\ budget = [crashes |-> 0, pauses |-> 0, errors |-> 0, lost |-> 0]
  /\ doubted = {}

-----------------------------------------------------------------------------
(* Statements.                                                             *)

Job(w) == worker[w].job
At(w, step) == Job(w) # Nobody /\ worker[w].step = step

Error == budget.errors < MaxErrors /\ budget' = [budget EXCEPT !.errors = @ + 1]
Lost  == budget.lost < MaxLost /\ budget' = [budget EXCEPT !.lost = @ + 1]
Sound == UNCHANGED budget

GoOn(w, step) == worker' = [worker EXCEPT ![w].step = step]

\* updateProgress: looks at neither the lease nor the status, and its error is
\* ignored.
Progress(j, status) ==
  \/ row' = [row EXCEPT ![j].status = status] /\ Sound
  \/ UNCHANGED row /\ Error

\* complete and fail: neither looks at who works on the import.
Settled(j, status) == [status |-> status, by |-> Nobody, leased |-> FALSE]

-----------------------------------------------------------------------------
(* The request that creates an import, and the claim.                      *)

Insert(j) ==
  /\ row[j].status = "absent"
  /\ row' = [row EXCEPT ![j].status = "queued"]
  /\ UNCHANGED <<saved, stored, worker, budget, doubted>>

\* Bug of Claimable: an import is claimed whatever its lease.
BugClaimable(j) == row[j].status \in {"queued", "downloading", "processing", "saving"}

Claimable(j) ==
  /\ row[j].status \in {"queued", "downloading", "processing", "saving"}
  /\ ~row[j].leased

\* FOR UPDATE SKIP LOCKED makes the claim atomic.  The order of creation is
\* not kept: any claimable import may be taken.
Claim(w, j) ==
  /\ Job(w) = Nobody
  /\ Claimable(j)
  /\ row' = [row EXCEPT ![j].by = w, ![j].leased = TRUE]
  /\ worker' = [worker EXCEPT ![w] = [Idle EXCEPT !.job = j]]
  /\ doubted' = doubted \cup {i \in {j} : \E v \in Workers : Job(v) = j}
  /\ UNCHANGED <<saved, stored, budget>>

\* Every thirty seconds, as long as the worker is at it.
RenewLease(w) ==
  /\ Job(w) # Nobody /\ row[Job(w)].by = w /\ ~row[Job(w)].leased
  /\ row' = [row EXCEPT ![Job(w)].leased = TRUE]
  /\ UNCHANGED <<saved, stored, worker, budget, doubted>>

\* The process in locked_by runs and is at the import.
AtWork(j) == row[j].by \in Workers /\ Job(row[j].by) = j

LeaseExpires(j) ==
  /\ row[j].leased
  /\ \/ ~AtWork(j) /\ Sound
     \/ AtWork(j) /\ budget.pauses < MaxPauses /\ budget' = [budget EXCEPT !.pauses = @ + 1]
  /\ row' = [row EXCEPT ![j].leased = FALSE]
  /\ UNCHANGED <<saved, stored, worker, doubted>>

-----------------------------------------------------------------------------
(* processOneDriveImportWork and runOneDriveArtworkImport, step by step.   *)

\* A step that fails goes on to fail(), which is a statement of its own.
Breaks(w, step) ==
  /\ At(w, step) /\ Error
  /\ GoOn(w, "fail")
  /\ UNCHANGED <<row, saved, stored, doubted>>

\* The authorization, the user, the tools, the download with its one retry.
Download(w) ==
  /\ At(w, "download")
  /\ Progress(Job(w), "downloading")
  /\ GoOn(w, "store")
  /\ UNCHANGED <<saved, stored, doubted>>

\* Bug of Store: the loop goes one page too far.
BugStore(w) ==
  LET n == worker[w].n IN
  /\ At(w, "store")
  /\ Progress(Job(w), IF n <= Pages THEN "processing" ELSE "saving")
  /\ stored' = [stored EXCEPT ![Job(w)] = @ \cup {n}]
  /\ worker' = [worker EXCEPT ![w] =
       [@ EXCEPT !.n = n + 1, !.step = IF n <= Pages THEN "store" ELSE "append"]]
  /\ UNCHANGED <<saved, doubted>>

\* The source first, then page by page; after the last one, "saving".
Store(w) ==
  LET n == worker[w].n IN
  /\ At(w, "store")
  /\ Progress(Job(w), IF n < Pages THEN "processing" ELSE "saving")
  /\ stored' = [stored EXCEPT ![Job(w)] = @ \cup {n}]
  /\ worker' = [worker EXCEPT ![w] =
       [@ EXCEPT !.n = n + 1, !.step = IF n < Pages THEN "store" ELSE "append"]]
  /\ UNCHANGED <<saved, doubted>>

\* appendCampaignPrintImages replaces the images that are already there.
AppendImages(w) ==
  /\ At(w, "append")
  /\ saved' = saved \cup {Job(w)}
  /\ \/ Sound /\ GoOn(w, "complete")
     \/ Lost  /\ GoOn(w, "fail")
  /\ UNCHANGED <<row, stored, doubted>>

\* Bug of CompleteImport: an import is completed without completed = true.
BugCompleteImport(w) ==
  /\ At(w, "complete") /\ Sound
  /\ row' = [row EXCEPT ![Job(w)] = Settled(Job(w), "completed")]
  /\ GoOn(w, "clean")
  /\ UNCHANGED <<saved, stored, doubted>>

CompleteImport(w) ==
  /\ At(w, "complete")
  /\ row' = [row EXCEPT ![Job(w)] = Settled(Job(w), "completed")]
  /\ \/ Sound /\ worker' = [worker EXCEPT ![w] = Idle]
     \/ Lost  /\ GoOn(w, "fail")
  /\ UNCHANGED <<saved, stored, doubted>>

\* fail() ignores its own error: the import is then left to its lease.
FailImport(w) ==
  /\ At(w, "fail")
  /\ \/ row' = [row EXCEPT ![Job(w)] = Settled(Job(w), "error")] /\ Sound
     \/ UNCHANGED row /\ Error
  /\ doubted' = doubted \cup {j \in {Job(w)} : row'[j].status = "completed"}
  /\ GoOn(w, "clean")
  /\ UNCHANGED <<saved, stored>>

\* The deferred clean-up of an import that did not complete: what this worker
\* stored, whoever stored the same names again and whoever refers to them.
CleanUp(w) ==
  /\ At(w, "clean")
  /\ stored' = [stored EXCEPT ![Job(w)] = @ \ Mine(worker[w].n)]
  /\ worker' = [worker EXCEPT ![w] = Idle]
  /\ UNCHANGED <<row, saved, budget, doubted>>

\* A process that comes back has a new id.
CrashWorker(w) ==
  /\ Job(w) # Nobody /\ budget.crashes < MaxCrashes
  /\ budget' = [budget EXCEPT !.crashes = @ + 1]
  /\ row' = [j \in Jobs |-> [row[j] EXCEPT !.by = IF @ = w THEN Gone ELSE @]]
  /\ worker' = [worker EXCEPT ![w] = Idle]
  /\ UNCHANGED <<saved, stored, doubted>>

WorkerStep(w) ==
  \/ \E j \in Jobs : Claim(w, j)
  \/ Download(w) \/ Store(w) \/ AppendImages(w) \/ CompleteImport(w)
  \/ \E step \in {"download", "store", "append", "complete"} : Breaks(w, step)
  \/ FailImport(w) \/ CleanUp(w)

ImportNext ==
  \/ \E j \in Jobs : Insert(j) \/ LeaseExpires(j)
  \/ \E w \in Workers : WorkerStep(w) \/ RenewLease(w) \/ CrashWorker(w)

\* A worker's calls all have an end, and it looks for work every two seconds; a
\* lease nobody renews runs out.
ImportFairness ==
  /\ \A w \in Workers : WF_importVars(WorkerStep(w))
  /\ \A j \in Jobs : WF_importVars(LeaseExpires(j) /\ UNCHANGED budget)

ImportSpec == ImportInit /\ [][ImportNext]_importVars
FairImportSpec == ImportSpec /\ ImportFairness

-----------------------------------------------------------------------------
(* Properties.                                                             *)

\* The workers keep the promise of ImportJob while leases are lost only with
\* the process that holds them and a reported error is one (MaxPauses = 0 and
\* MaxLost = 0): through crashes and takeovers an import ends once, is
\* completed only after its images were appended, and does end.
Shown(status) ==
  IF status \in {"downloading", "processing", "saving"} THEN "active" ELSE status

Job0 == INSTANCE ImportJob WITH
  status <- [j \in Jobs |-> Shown(row[j].status)], saved <- saved

KeepsThePromise == Job0!JobSpec

\* The stored pages of a completed import exist, unless two living workers were
\* at it at once or neither its completion nor its failure was reported
\* truly: otherwise no clean-up, whatever died or failed before, leaves an
\* import that says completed without its files.
CompletedHaveFiles ==
  \A j \in Jobs \ doubted : row[j].status = "completed" => stored[j] = Objects
=============================================================================
