------------------------ MODULE OneDriveImportProofs ------------------------
(***************************************************************************)
(* Proofs about the workers of OneDriveImport, for every number of imports,*)
(* workers, pages, crashes and failures:                                   *)
(*   ImportTyped  the types, and with them how far each step has stored;   *)
(*   FilesStay    an import that says completed has its files, leases lost *)
(*                or not, unless it was doubted;                           *)
(*   Implements   while leases are lost only with their process and a      *)
(*                reported error is one, every step is a step of ImportJob.*)
(***************************************************************************)
EXTENDS OneDriveImport, TLAPS

Open == {"queued", "downloading", "processing", "saving"}

-----------------------------------------------------------------------------
(* The invariants.                                                         *)

\* How many objects a worker has stored at each of its steps.
Counted ==
  \A w \in Workers :
    /\ worker[w].step = "download" => worker[w].n = 0
    /\ worker[w].step = "store" => worker[w].n <= Pages
    /\ worker[w].step \in {"append", "complete"} => worker[w].n = Pages + 1

TypedInv == ImportTypeOK /\ Counted

\* Nobody else works on an import that is not doubted.
Alone(j) == \A v, w \in Workers : Job(v) = j /\ Job(w) = j => v = w

\* What its worker stored is there, and one that is completed has all.
Kept(j) == \A w \in Workers : Job(w) = j => Mine(worker[w].n) \subseteq stored[j]
Whole(j) ==
  row[j].status = "completed" =>
    /\ stored[j] = Objects
    /\ \A w \in Workers : Job(w) = j => worker[w].step = "fail"

FilesInv == TypedInv /\ \A j \in Jobs \ doubted : Alone(j) /\ Kept(j) /\ Whole(j)

\* A worker holds the lease of its import until it has settled it, and has
\* appended the images before it completes it.
Holds(w) == row[Job(w)].by = w /\ row[Job(w)].leased /\ row[Job(w)].status \in Open
LeaseInv ==
  /\ TypedInv
  /\ \A w \in Workers : Job(w) # Nobody =>
       \/ Holds(w)
       \/ worker[w].step = "clean" /\ row[Job(w)].status = "error"
  /\ \A w \in Workers : At(w, "complete") => Job(w) \in saved

USE DEF importVars

-----------------------------------------------------------------------------
(* Types.                                                                  *)

RowType == [Jobs -> [status : Statuses, by : Workers \cup {Nobody, Gone}, leased : BOOLEAN]]
WorkerType == [Workers -> [job : Jobs \cup {Nobody}, step : Steps, n : 0 .. Pages + 1]]
BudgetType == [crashes : 0 .. MaxCrashes, pauses : 0 .. MaxPauses,
               errors : 0 .. MaxErrors, lost : 0 .. MaxLost]

\* The bounds are numbers.
LEMMA Bounds ==
  /\ Pages \in Nat /\ MaxCrashes \in Nat /\ MaxPauses \in Nat
  /\ MaxErrors \in Nat /\ MaxLost \in Nat
BY ImportAssumption DEF ImportAssumption

\* Nothing has happened, nobody works.
LEMMA InitTyped == ImportInit => TypedInv
BY ImportAssumption DEF ImportInit, TypedInv, ImportTypeOK, Counted, Statuses, Steps, Idle, Objects

\* A fault is counted while the bound allows it.
LEMMA BudgetTyped ==
  ASSUME ImportTypeOK,
         \/ Sound \/ Error \/ Lost
         \/ budget.pauses < MaxPauses /\ budget' = [budget EXCEPT !.pauses = @ + 1]
         \/ budget.crashes < MaxCrashes /\ budget' = [budget EXCEPT !.crashes = @ + 1]
  PROVE  budget' \in BudgetType
BY Bounds DEF Sound, Error, Lost, ImportTypeOK, BudgetType

\* A statement that reports progress keeps the types, whatever the status.
LEMMA ProgressTyped ==
  ASSUME ImportTypeOK, NEW j \in Jobs, NEW s \in Statuses, Progress(j, s)
  PROVE  /\ row' \in RowType
         /\ budget' \in BudgetType
<1>1. budget' \in BudgetType
  BY BudgetTyped DEF Progress
<1>2. row \in RowType
  BY DEF ImportTypeOK, RowType
<1>3. CASE row' = [row EXCEPT ![j].status = s]
  BY <1>1, <1>2, <1>3 DEF RowType
<1>4. CASE UNCHANGED row
  BY <1>1, <1>2, <1>4
<1> QED BY <1>3, <1>4 DEF Progress

\* Every step keeps the types and the counts.
LEMMA StepTyped == TypedInv /\ [ImportNext]_importVars => TypedInv'
<1> SUFFICES ASSUME TypedInv, [ImportNext]_importVars PROVE TypedInv'
  OBVIOUS
<1> USE ImportAssumption DEF TypedInv, Counted
<1>1. ASSUME NEW j \in Jobs, Insert(j) PROVE TypedInv'
  BY <1>1 DEF Insert, ImportTypeOK, Statuses
<1>2. ASSUME NEW j \in Jobs, LeaseExpires(j) PROVE TypedInv'
  <2>1. budget' \in BudgetType
    BY <1>2, BudgetTyped DEF LeaseExpires
  <2>2. row' \in RowType
    BY ZenonT(30), <1>2 DEF LeaseExpires, ImportTypeOK, RowType
  <2> QED BY <1>2, <2>1, <2>2 DEF LeaseExpires, ImportTypeOK, RowType, BudgetType
<1>3. ASSUME NEW w \in Workers, NEW j \in Jobs, Claim(w, j) PROVE TypedInv'
  <2>1. row' \in RowType
    BY ZenonT(30), <1>3 DEF Claim, ImportTypeOK, RowType
  <2>2. worker' \in WorkerType /\ Counted'
    BY <1>3, Bounds DEF Claim, ImportTypeOK, Idle, Steps, WorkerType
  <2> QED BY <1>3, <2>1, <2>2 DEF Claim, ImportTypeOK, RowType, WorkerType
<1>4. ASSUME NEW w \in Workers, RenewLease(w) PROVE TypedInv'
  BY <1>4 DEF RenewLease, ImportTypeOK, Job
<1>5. ASSUME NEW w \in Workers, CrashWorker(w) PROVE TypedInv'
  <2>1. budget' \in BudgetType
    BY <1>5, BudgetTyped DEF CrashWorker
  <2>2. row' \in RowType
    BY <1>5 DEF CrashWorker, ImportTypeOK, RowType
  <2>3. worker' \in WorkerType /\ Counted'
    BY <1>5, Bounds DEF CrashWorker, ImportTypeOK, Idle, Steps, WorkerType
  <2> QED BY <1>5, <2>1, <2>2, <2>3 DEF CrashWorker, ImportTypeOK, RowType, WorkerType, BudgetType
<1>6. ASSUME NEW w \in Workers, Download(w) PROVE TypedInv'
  <2>1. Job(w) \in Jobs
    BY <1>6 DEF Download, At, Job, ImportTypeOK
  <2>2. row' \in RowType /\ budget' \in BudgetType
    BY <1>6, <2>1, ProgressTyped DEF Download, Statuses
  <2> QED BY <1>6, <2>2, Bounds DEF Download, At, GoOn, ImportTypeOK, Steps, RowType, BudgetType
<1>7. ASSUME NEW w \in Workers, Store(w) PROVE TypedInv'
  <2>1. Job(w) \in Jobs /\ worker[w].n \in Objects
    BY <1>7 DEF Store, At, Job, ImportTypeOK, Objects
  <2>2. IF worker[w].n < Pages THEN Progress(Job(w), "processing") ELSE Progress(Job(w), "saving")
    BY <1>7 DEF Store
  <2>3. row' \in RowType /\ budget' \in BudgetType
    BY <2>1, <2>2, ProgressTyped DEF Statuses
  <2>4. stored' \in [Jobs -> SUBSET Objects]
    BY <1>7, <2>1 DEF Store, ImportTypeOK
  <2>5. worker' = [worker EXCEPT ![w] =
          [@ EXCEPT !.n = worker[w].n + 1, !.step = IF worker[w].n < Pages THEN "store" ELSE "append"]]
    BY <1>7 DEF Store
  <2>6. worker[w].n \in Nat /\ worker[w].n <= Pages
    BY <1>7, Bounds DEF Store, At, ImportTypeOK
  <2>7. worker' \in WorkerType
    <3> DEFINE now == [worker[w] EXCEPT !.n = worker[w].n + 1,
                         !.step = IF worker[w].n < Pages THEN "store" ELSE "append"]
    <3>1. worker \in WorkerType /\ worker' = [worker EXCEPT ![w] = now]
      BY <2>5 DEF ImportTypeOK, WorkerType
    <3>2. worker[w].n + 1 \in 0 .. Pages + 1
      BY <2>6, Bounds
    <3>3. now \in [job : Jobs \cup {Nobody}, step : Steps, n : 0 .. Pages + 1]
      BY <3>1, <3>2 DEF WorkerType, Steps
    <3> HIDE DEF now
    <3> QED BY <3>1, <3>3 DEF WorkerType
  <2>8. Counted'
    BY <2>5, <2>6, Bounds DEF ImportTypeOK, Steps
  <2> QED BY <1>7, <2>3, <2>4, <2>7, <2>8 DEF Store, ImportTypeOK, RowType, WorkerType, BudgetType
<1>8. ASSUME NEW w \in Workers, AppendImages(w) PROVE TypedInv'
  <2>1. Job(w) \in Jobs
    BY <1>8 DEF AppendImages, At, Job, ImportTypeOK
  <2>2. budget' \in BudgetType
    BY <1>8, BudgetTyped DEF AppendImages
  <2>3. worker' \in WorkerType /\ Counted'
    BY <1>8 DEF AppendImages, At, GoOn, ImportTypeOK, Steps, WorkerType
  <2>4. saved' \subseteq Jobs
    BY <1>8, <2>1 DEF AppendImages, ImportTypeOK
  <2> QED BY <1>8, <2>2, <2>3, <2>4 DEF AppendImages, ImportTypeOK, WorkerType, BudgetType
<1>9. ASSUME NEW w \in Workers, CompleteImport(w) PROVE TypedInv'
  <2>1. Job(w) \in Jobs
    BY <1>9 DEF CompleteImport, At, Job, ImportTypeOK
  <2>2. budget' \in BudgetType
    BY <1>9, BudgetTyped DEF CompleteImport
  <2>3. row' \in RowType
    BY <1>9, <2>1 DEF CompleteImport, Settled, ImportTypeOK, Statuses, RowType
  <2>4. worker' \in WorkerType /\ Counted'
    BY <1>9, Bounds DEF CompleteImport, At, GoOn, Idle, ImportTypeOK, Steps, WorkerType
  <2> QED BY <1>9, <2>2, <2>3, <2>4 DEF CompleteImport, ImportTypeOK, RowType, WorkerType, BudgetType
<1>10. ASSUME NEW w \in Workers, NEW step \in {"download", "store", "append", "complete"}, Breaks(w, step)
       PROVE TypedInv'
  <2>1. budget' \in BudgetType
    BY <1>10, BudgetTyped DEF Breaks
  <2> QED BY <1>10, <2>1 DEF Breaks, At, GoOn, ImportTypeOK, Steps, BudgetType
<1>11. ASSUME NEW w \in Workers, FailImport(w) PROVE TypedInv'
  <2>1. Job(w) \in Jobs
    BY <1>11 DEF FailImport, At, Job, ImportTypeOK
  <2>2. budget' \in BudgetType
    BY <1>11, BudgetTyped DEF FailImport
  <2>3. row' \in RowType
    <3>1. row \in RowType /\ Settled(Job(w), "error") \in
            [status : Statuses, by : Workers \cup {Nobody, Gone}, leased : BOOLEAN]
      BY DEF ImportTypeOK, RowType, Settled, Statuses
    <3>2. UNCHANGED row \/ row' = [row EXCEPT ![Job(w)] = Settled(Job(w), "error")]
      BY <1>11 DEF FailImport
    <3> QED BY <2>1, <3>1, <3>2 DEF RowType
  <2>4. worker' \in WorkerType /\ Counted'
    BY <1>11 DEF FailImport, At, GoOn, ImportTypeOK, Steps, WorkerType
  <2>5. doubted' \subseteq Jobs
    BY <1>11, <2>1 DEF FailImport, ImportTypeOK
  <2> QED BY <1>11, <2>2, <2>3, <2>4, <2>5 DEF FailImport, ImportTypeOK, RowType, WorkerType, BudgetType
<1>12. ASSUME NEW w \in Workers, CleanUp(w) PROVE TypedInv'
  BY <1>12 DEF CleanUp, At, Idle, ImportTypeOK, Steps, Mine, Job
<1>13. CASE UNCHANGED importVars
  BY <1>13 DEF ImportTypeOK
<1> QED BY <1>1, <1>2, <1>3, <1>4, <1>5, <1>6, <1>7, <1>8, <1>9, <1>10, <1>11, <1>12, <1>13
        DEF ImportNext, WorkerStep

\* Every variable keeps its type; a worker never stores more objects than its
\* import has.
THEOREM ImportTyped == ImportSpec => []TypedInv
<1>1. TypedInv /\ [ImportNext]_importVars => TypedInv'
  BY StepTyped
<1> QED BY InitTyped, <1>1, PTL DEF ImportSpec

-----------------------------------------------------------------------------
(* Files.                                                                  *)

\* Storing the next object adds it to those a worker stored.
LEMMA MineGrows ==
  ASSUME NEW n \in Nat, n <= Pages
  PROVE  Mine(n + 1) = Mine(n) \cup {n}
BY Bounds DEF Mine, Objects

\* None are stored before the first, and all after the last.
LEMMA MineBounds == Mine(0) = {} /\ Mine(Pages + 1) = Objects
BY Bounds DEF Mine, Objects

\* Every step keeps the files of the imports that are not doubted: only the
\* worker of an import touches them, and none is at one that is completed but
\* to fail it.
LEMMA StepFiles == FilesInv /\ [ImportNext]_importVars => FilesInv'
<1> SUFFICES ASSUME FilesInv, [ImportNext]_importVars,
                    NEW j \in Jobs, j \notin doubted'
             PROVE  Alone(j)' /\ Kept(j)' /\ Whole(j)'
  BY StepTyped DEF FilesInv
<1>1. TypedInv
  BY DEF FilesInv
<1>2. doubted \subseteq doubted'
  BY DEF ImportNext, WorkerStep, Insert, LeaseExpires, Claim, RenewLease, CrashWorker,
     Download, Store, AppendImages, CompleteImport, Breaks, FailImport, CleanUp
<1>3. Alone(j) /\ Kept(j) /\ Whole(j)
  BY <1>2 DEF FilesInv
<1> USE <1>1, <1>3 DEF Alone, Kept, Whole, TypedInv, ImportTypeOK
<1>4. ASSUME NEW i \in Jobs, Insert(i) PROVE Alone(j)' /\ Kept(j)' /\ Whole(j)'
  BY <1>4 DEF Insert, Job
<1>5. ASSUME NEW i \in Jobs, LeaseExpires(i) PROVE Alone(j)' /\ Kept(j)' /\ Whole(j)'
  BY <1>5 DEF LeaseExpires, Job
<1>6. ASSUME NEW w \in Workers, NEW i \in Jobs, Claim(w, i)
      PROVE  Alone(j)' /\ Kept(j)' /\ Whole(j)'
  <2>1. CASE i = j
    <3>1. \A v \in Workers : Job(v) # j
      BY <1>6, <2>1 DEF Claim
    <3>2. row[j].status # "completed" /\ row'[j].status = row[j].status
      BY <1>6, <2>1 DEF Claim, Claimable
    <3>3. \A v \in Workers : Job(v)' = j => v = w /\ worker'[v].n = 0
      BY <1>6, <2>1, <3>1 DEF Claim, Job, Idle
    <3> QED BY <3>2, <3>3, MineBounds DEF Mine
  <2>2. CASE i # j
    BY <1>6, <2>2 DEF Claim, Job, Idle
  <2> QED BY <2>1, <2>2
<1>7. ASSUME NEW w \in Workers, RenewLease(w) PROVE Alone(j)' /\ Kept(j)' /\ Whole(j)'
  BY <1>7 DEF RenewLease, Job
<1>8. ASSUME NEW w \in Workers, CrashWorker(w) PROVE Alone(j)' /\ Kept(j)' /\ Whole(j)'
  <2>1. /\ \A v \in Workers : Job(v)' = j => Job(v) = j /\ worker'[v] = worker[v]
        /\ row'[j].status = row[j].status /\ stored' = stored
    BY <1>8, ImportAssumption DEF CrashWorker, Job, Idle
  <2> QED BY <2>1 DEF Mine
<1>9. ASSUME NEW w \in Workers, Download(w) PROVE Alone(j)' /\ Kept(j)' /\ Whole(j)'
  <2>1. /\ \A v \in Workers : Job(v)' = Job(v) /\ worker'[v].n = worker[v].n
        /\ stored' = stored
    BY <1>9 DEF Download, GoOn, Job
  <2>2. row'[j].status = row[j].status \/ (Job(w) = j /\ row'[j].status = "downloading")
    BY <1>9 DEF Download, Progress, At
  <2>3. Job(w) = j => row[j].status # "completed"
    BY <1>9 DEF Download, At
  <2>4. Job(w) # j => \A v \in Workers : Job(v) = j => worker'[v] = worker[v]
    BY <1>9 DEF Download, GoOn, Job
  <2>5. Job(w) = j => row'[j].status # "completed"
    BY <2>2, <2>3
  <2> QED BY <2>1, <2>2, <2>4, <2>5 DEF Mine
<1>10. ASSUME NEW w \in Workers, Store(w) PROVE Alone(j)' /\ Kept(j)' /\ Whole(j)'
  <2>1. worker[w].n \in Nat /\ worker[w].n <= Pages
    BY <1>10, Bounds DEF Store, At, Counted
  <2>2. CASE Job(w) = j
    <3>1. row[j].status # "completed"
      BY <1>10, <2>2 DEF Store, At
    <3>2. row'[j].status # "completed"
      BY <1>10, <2>2, <3>1 DEF Store, Progress
    <3>3. stored'[j] = stored[j] \cup {worker[w].n}
      BY <1>10, <2>2 DEF Store
    <3>4. /\ \A v \in Workers : Job(v)' = Job(v)
          /\ \A v \in Workers : Job(v) = j => v = w
          /\ worker'[w].n = worker[w].n + 1
      BY <1>10, <2>2 DEF Store, Job
    <3>5. Mine(worker[w].n + 1) \subseteq stored'[j]
      BY <2>1, <2>2, <3>3, MineGrows
    <3>6. Kept(j)'
      BY <3>4, <3>5 DEF Mine
    <3> QED BY <3>2, <3>4, <3>6
  <2>3. CASE Job(w) # j
    <3>1. /\ \A v \in Workers : Job(v)' = Job(v)
          /\ \A v \in Workers : Job(v) = j => worker'[v] = worker[v]
      BY <1>10, <2>3 DEF Store, Job
    <3>2. stored'[j] = stored[j] /\ row'[j].status = row[j].status
      BY <1>10, <2>3 DEF Store, Progress
    <3> QED BY <3>1, <3>2 DEF Mine
  <2> QED BY <2>2, <2>3
<1>11. ASSUME NEW w \in Workers, AppendImages(w) PROVE Alone(j)' /\ Kept(j)' /\ Whole(j)'
  <2>1. /\ \A v \in Workers : Job(v)' = Job(v) /\ worker'[v].n = worker[v].n
        /\ row' = row /\ stored' = stored
        /\ \A v \in Workers : v # w => worker'[v] = worker[v]
    <3>1. GoOn(w, "complete") \/ GoOn(w, "fail")
      BY <1>11 DEF AppendImages
    <3>2. UNCHANGED <<row, stored>>
      BY <1>11 DEF AppendImages
    <3>3. ASSUME NEW step, GoOn(w, step)
          PROVE  /\ \A v \in Workers : Job(v)' = Job(v) /\ worker'[v].n = worker[v].n
                 /\ \A v \in Workers : v # w => worker'[v] = worker[v]
      BY <3>3 DEF GoOn, Job
    <3> QED BY <3>1, <3>2, <3>3
  <2>2. Job(w) = j => row[j].status # "completed"
    BY <1>11 DEF AppendImages, At
  <2> QED BY <2>1, <2>2 DEF Mine
<1>12. ASSUME NEW w \in Workers, CompleteImport(w) PROVE Alone(j)' /\ Kept(j)' /\ Whole(j)'
  <2>1. CASE Job(w) = j
    <3>1. stored[j] = Objects
      <4>1. worker[w].n = Pages + 1
        BY <1>12 DEF CompleteImport, At, Counted
      <4>2. Objects \subseteq stored[j]
        BY <2>1, <4>1, MineBounds
      <4>3. stored[j] \subseteq Objects
        OBVIOUS
      <4> QED BY <4>2, <4>3
    <3>2. \A v \in Workers : Job(v)' = j => v = w /\ worker'[w].step = "fail" /\ worker'[w].n = worker[w].n
      BY <1>12, <2>1, ImportAssumption DEF CompleteImport, GoOn, Job, Idle
    <3>3. stored' = stored
      BY <1>12 DEF CompleteImport
    <3> QED BY <2>1, <3>1, <3>2, <3>3 DEF Mine
  <2>2. CASE Job(w) # j
    <3>1. /\ \A v \in Workers : Job(v)' = j => Job(v) = j /\ worker'[v] = worker[v]
          /\ row'[j] = row[j] /\ stored' = stored
      BY <1>12, <2>2, ImportAssumption DEF CompleteImport, GoOn, Job, Idle
    <3> QED BY <3>1 DEF Mine
  <2> QED BY <2>1, <2>2
<1>13. ASSUME NEW w \in Workers, NEW step \in {"download", "store", "append", "complete"}, Breaks(w, step)
       PROVE  Alone(j)' /\ Kept(j)' /\ Whole(j)'
  <2>1. /\ \A v \in Workers : Job(v)' = Job(v) /\ worker'[v].n = worker[v].n
        /\ \A v \in Workers : worker'[v].step \in {worker[v].step, "fail"}
        /\ row' = row /\ stored' = stored
    BY <1>13 DEF Breaks, GoOn, Job
  <2> QED BY <2>1 DEF Mine
<1>14. ASSUME NEW w \in Workers, FailImport(w) PROVE Alone(j)' /\ Kept(j)' /\ Whole(j)'
  <2>1. /\ \A v \in Workers : Job(v)' = Job(v) /\ worker'[v].n = worker[v].n
        /\ \A v \in Workers : v # w => worker'[v] = worker[v]
        /\ stored' = stored
    BY <1>14 DEF FailImport, GoOn, Job
  <2>2. CASE Job(w) = j
    <3>1. row'[j].status # "completed"
      BY <1>14, <2>2 DEF FailImport
    <3> QED BY <2>1, <3>1 DEF Mine
  <2>3. CASE Job(w) # j
    <3>1. row'[j] = row[j]
      BY <1>14, <2>3 DEF FailImport
    <3> QED BY <2>1, <2>3, <3>1 DEF Mine
  <2> QED BY <2>2, <2>3
<1>15. ASSUME NEW w \in Workers, CleanUp(w) PROVE Alone(j)' /\ Kept(j)' /\ Whole(j)'
  <2>1. \A v \in Workers : Job(v)' = j => v # w /\ Job(v) = j /\ worker'[v] = worker[v]
    BY <1>15, ImportAssumption DEF CleanUp, Job, Idle
  <2>2. row' = row
    BY <1>15 DEF CleanUp
  <2>3. CASE Job(w) = j
    <3>1. \A v \in Workers : Job(v)' # j
      BY <2>1, <2>3
    <3>2. row[j].status # "completed"
      BY <1>15, <2>3 DEF CleanUp, At
    <3> QED BY <2>2, <3>1, <3>2
  <2>4. CASE Job(w) # j
    <3>1. stored'[j] = stored[j]
      BY <1>15, <2>4 DEF CleanUp
    <3> QED BY <2>1, <2>2, <3>1 DEF Mine
  <2> QED BY <2>3, <2>4
<1>16. CASE UNCHANGED importVars
  BY <1>16 DEF Job, Mine
<1> QED BY <1>4, <1>5, <1>6, <1>7, <1>8, <1>9, <1>10, <1>11, <1>12, <1>13, <1>14, <1>15, <1>16
        DEF ImportNext, WorkerStep

\* No import has files, or a worker, before the first one was created.
LEMMA InitFiles == ImportInit => FilesInv
<1> SUFFICES ASSUME ImportInit PROVE FilesInv
  OBVIOUS
<1>1. TypedInv
  BY InitTyped
<1>2. ASSUME NEW j \in Jobs PROVE Alone(j) /\ Kept(j) /\ Whole(j)
  BY ImportAssumption DEF ImportInit, Alone, Kept, Whole, Job, Idle
<1> QED BY <1>1, <1>2 DEF FilesInv

\* The stored pages of an import that says completed exist, however many
\* processes died, leases ran out, statements failed or confirmations were lost
\* before, unless two living workers were at it at once or its failure could not
\* be recorded: the clean-up of runOneDriveArtworkImport.
THEOREM FilesStay == ImportSpec => []CompletedHaveFiles
<1>1. FilesInv /\ [ImportNext]_importVars => FilesInv'
  BY StepFiles
<1>2. FilesInv => CompletedHaveFiles
  BY DEF FilesInv, Whole, CompletedHaveFiles
<1> QED BY InitFiles, <1>1, <1>2, PTL DEF ImportSpec

-----------------------------------------------------------------------------
(* The refinement, while nothing is paused and no confirmation is lost.    *)

\* The part of LeaseInv that is about one worker.
Minds(w) ==
  /\ Job(w) # Nobody => Holds(w) \/ (worker[w].step = "clean" /\ row[Job(w)].status = "error")
  /\ At(w, "complete") => Job(w) \in saved

\* A worker whose job and row are left as they are minds its import as before.
LEMMA MindsOn ==
  ASSUME NEW w \in Workers, Minds(w), worker'[w] = worker[w],
         Job(w) # Nobody => row'[Job(w)] = row[Job(w)], saved \subseteq saved'
  PROVE  Minds(w)'
BY DEF Minds, Holds, Job, At

\* A worker at a step other than the clean-up holds the lease of an open import.
LEMMA MindsHolds ==
  ASSUME NEW w \in Workers, Minds(w), NEW step, At(w, step), step # "clean"
  PROVE  Holds(w)
BY DEF Minds, At

\* Only one worker minds an import that is open, and only it changes its row.
LEMMA OthersMind ==
  ASSUME TypedInv, NEW w \in Workers, NEW v \in Workers, v # w, Minds(v), Holds(w),
         Job(w) \in Jobs, worker'[v] = worker[v], saved \subseteq saved',
         \A j \in Jobs : j # Job(w) => row'[j] = row[j]
  PROVE  Minds(v)'
<1>1. Job(v) # Nobody => Job(v) # Job(w)
  BY DEF Minds, Holds, Open
<1>2. Job(v) # Nobody => Job(v) \in Jobs
  BY DEF TypedInv, ImportTypeOK, Job
<1> QED BY <1>1, <1>2, MindsOn

\* Nobody works on an import before the first claim.
LEMMA InitLease == ImportInit => LeaseInv
<1> SUFFICES ASSUME ImportInit PROVE LeaseInv
  OBVIOUS
<1>1. TypedInv
  BY InitTyped
<1>2. \A w \in Workers : Job(w) = Nobody
  BY DEF ImportInit, Job, Idle
<1> QED BY <1>1, <1>2 DEF LeaseInv, At

\* Every step keeps the workers in possession of their imports.
LEMMA StepLease ==
  ASSUME MaxPauses = 0, MaxLost = 0, LeaseInv, [ImportNext]_importVars
  PROVE  LeaseInv'
<1>1. TypedInv /\ \A w \in Workers : Minds(w)
  BY DEF LeaseInv, Minds
<1>2. TypedInv'
  BY <1>1, StepTyped
<1>3. SUFFICES ASSUME NEW v \in Workers PROVE Minds(v)'
  <2> \A v \in Workers : Minds(v)'
    BY <1>3
  <2> QED BY <1>2 DEF LeaseInv, Minds
<1>4. ~Lost /\ ~(budget.pauses < MaxPauses)
  BY <1>1 DEF Lost, TypedInv, ImportTypeOK
<1>5. Minds(v)
  BY <1>1
<1>6. \A w \in Workers : Job(w) # Nobody => Job(w) \in Jobs
  BY <1>1 DEF TypedInv, ImportTypeOK, Job
<1>7. row \in RowType /\ worker \in WorkerType
  BY <1>1 DEF TypedInv, ImportTypeOK, RowType, WorkerType
<1>8. ASSUME NEW j \in Jobs, Insert(j) PROVE Minds(v)'
  <2>1. Job(v) # j \/ Job(v) = Nobody
    BY <1>5, <1>8, ImportAssumption DEF Minds, Holds, Open, Insert
  <2> QED BY <1>5, <1>6, <1>8, <2>1, MindsOn DEF Insert, Minds
<1>9. ASSUME NEW j \in Jobs, LeaseExpires(j) PROVE Minds(v)'
  <2>1. ~AtWork(j)
    BY <1>4, <1>9 DEF LeaseExpires
  <2>2. Job(v) = j => ~Holds(v)
    BY <2>1 DEF AtWork, Holds
  <2>3. worker' = worker /\ saved' = saved /\ \A i \in Jobs : row'[i].status = row[i].status
    BY <1>7, <1>9 DEF LeaseExpires, RowType
  <2>4. CASE Job(v) = j
    BY <1>5, <2>2, <2>3, <2>4 DEF Minds, Job, At
  <2>5. CASE Job(v) # j
    BY <1>5, <1>6, <1>9, <2>3, <2>5, MindsOn DEF LeaseExpires
  <2> QED BY <2>4, <2>5
<1>10. ASSUME NEW w \in Workers, NEW j \in Jobs, Claim(w, j) PROVE Minds(v)'
  <2>1. Job(v) # j
    BY <1>5, <1>10, ImportAssumption DEF Claim, Claimable, Minds, Holds
  <2>2. CASE v = w
    BY <1>7, <1>10, <2>2 DEF Claim, Claimable, Minds, Holds, Open, Job, At, Idle, RowType, WorkerType
  <2>3. CASE v # w
    <3>1. worker'[v] = worker[v] /\ saved' = saved /\ \A i \in Jobs : i # j => row'[i] = row[i]
      BY <1>7, <1>10, <2>3 DEF Claim, RowType, WorkerType
    <3> QED BY <1>5, <1>6, <2>1, <3>1, MindsOn
  <2> QED BY <2>2, <2>3
<1>11. ASSUME NEW w \in Workers, RenewLease(w) PROVE Minds(v)'
  BY <1>1, <1>5, <1>6, <1>7, <1>11 DEF RenewLease, Minds, Holds, Job, At, RowType
<1>12. ASSUME NEW w \in Workers, CrashWorker(w) PROVE Minds(v)'
  <2>1. CASE v = w
    BY <1>12, <2>1, <1>7 DEF CrashWorker, Minds, Job, At, Idle, WorkerType
  <2>2. CASE v # w
    <3>1. /\ Job(v)' = Job(v) /\ worker'[v] = worker[v] /\ saved' = saved
          /\ \A i \in Jobs : /\ row'[i].status = row[i].status /\ row'[i].leased = row[i].leased
                             /\ row[i].by # w => row'[i].by = row[i].by
      BY <1>7, <1>12, <2>2 DEF CrashWorker, Job, RowType, WorkerType
    <3> QED BY <1>5, <1>6, <2>2, <3>1 DEF Minds, Holds, At, Job
  <2> QED BY <2>1, <2>2
<1>13. ASSUME NEW w \in Workers, NEW step \in Steps \ {"clean"}, At(w, step),
              \A u \in Workers : u # w => worker'[u] = worker[u],
              \A j \in Jobs : j # Job(w) => row'[j] = row[j], saved \subseteq saved', v # w
       PROVE  Minds(v)'
  <2>1. Holds(w) /\ Job(w) \in Jobs
    BY <1>1, <1>6, <1>13, MindsHolds DEF At
  <2> QED BY <1>1, <1>5, <1>13, <2>1, OthersMind
<1>14. ASSUME NEW w \in Workers, Download(w) PROVE Minds(v)'
  <2>1. CASE v = w
    BY <1>1, <1>6, <1>7, <1>14, <2>1, MindsHolds
       DEF Download, Progress, GoOn, Minds, Holds, Open, Job, At, RowType, WorkerType
  <2>2. CASE v # w
    <3>1. At(w, "download")
      BY <1>14 DEF Download
    <3>2. \A u \in Workers : u # w => worker'[u] = worker[u]
      BY <1>14 DEF Download, GoOn
    <3>3. (\A j \in Jobs : j # Job(w) => row'[j] = row[j]) /\ saved \subseteq saved'
      BY <1>7, <1>14 DEF Download, Progress, RowType
    <3> QED BY <1>13, <2>2, <3>1, <3>2, <3>3 DEF Steps
  <2> QED BY <2>1, <2>2
<1>15. ASSUME NEW w \in Workers, Store(w) PROVE Minds(v)'
  <2>1. CASE v = w
    BY <1>1, <1>6, <1>7, <1>15, <2>1, MindsHolds
       DEF Store, Progress, Minds, Holds, Open, Job, At, RowType, WorkerType
  <2>2. CASE v # w
    <3>1. At(w, "store")
      BY <1>15 DEF Store
    <3>2. \A u \in Workers : u # w => worker'[u] = worker[u]
      BY <1>15 DEF Store, Job
    <3>3. (\A j \in Jobs : j # Job(w) => row'[j] = row[j]) /\ saved \subseteq saved'
      BY <1>7, <1>15 DEF Store, Progress, RowType
    <3> QED BY <1>13, <2>2, <3>1, <3>2, <3>3 DEF Steps
  <2> QED BY <2>1, <2>2
<1>16. ASSUME NEW w \in Workers, AppendImages(w) PROVE Minds(v)'
  <2>1. CASE v = w
    BY <1>1, <1>4, <1>6, <1>7, <1>16, <2>1, MindsHolds
       DEF AppendImages, GoOn, Minds, Holds, Open, Job, At, RowType, WorkerType
  <2>2. CASE v # w
    <3>1. At(w, "append")
      BY <1>4, <1>16 DEF AppendImages
    <3>2. \A u \in Workers : u # w => worker'[u] = worker[u]
      BY <1>7, <1>4, <1>16 DEF AppendImages, GoOn, WorkerType
    <3>3. (\A j \in Jobs : j # Job(w) => row'[j] = row[j]) /\ saved \subseteq saved'
      BY <1>4, <1>16 DEF AppendImages, Progress
    <3> QED BY <1>13, <2>2, <3>1, <3>2, <3>3 DEF Steps
  <2> QED BY <2>1, <2>2
<1>17. ASSUME NEW w \in Workers, CompleteImport(w) PROVE Minds(v)'
  <2>1. CASE v = w
    BY <1>4, <1>7, <1>17, <2>1 DEF CompleteImport, Minds, Job, At, Idle, WorkerType
  <2>2. CASE v # w
    <3>1. At(w, "complete")
      BY <1>4, <1>17 DEF CompleteImport
    <3>2. \A u \in Workers : u # w => worker'[u] = worker[u]
      BY <1>7, <1>4, <1>17 DEF CompleteImport, GoOn, WorkerType
    <3>3. (\A j \in Jobs : j # Job(w) => row'[j] = row[j]) /\ saved \subseteq saved'
      BY <1>4, <1>17 DEF CompleteImport, Progress
    <3> QED BY <1>13, <2>2, <3>1, <3>2, <3>3 DEF Steps
  <2> QED BY <2>1, <2>2
<1>18. ASSUME NEW w \in Workers, NEW step \in {"download", "store", "append", "complete"}, Breaks(w, step)
       PROVE  Minds(v)'
  <2>1. CASE v = w
    BY <1>1, <1>6, <1>7, <1>18, <2>1, MindsHolds
       DEF Breaks, GoOn, Minds, Holds, Job, At, RowType, WorkerType
  <2>2. CASE v # w
    BY <1>13, <1>18, <2>2 DEF Breaks, GoOn, Steps
  <2> QED BY <2>1, <2>2
<1>19. ASSUME NEW w \in Workers, FailImport(w) PROVE Minds(v)'
  <2>1. CASE v = w
    BY <1>1, <1>6, <1>7, <1>19, <2>1, MindsHolds
       DEF FailImport, Settled, GoOn, Minds, Holds, Job, At, RowType, WorkerType
  <2>2. CASE v # w
    <3>1. At(w, "fail")
      BY <1>19 DEF FailImport
    <3>2. \A u \in Workers : u # w => worker'[u] = worker[u]
      BY <1>19 DEF FailImport, GoOn
    <3>3. (\A j \in Jobs : j # Job(w) => row'[j] = row[j]) /\ saved \subseteq saved'
      BY <1>7, <1>19 DEF FailImport, Progress, RowType
    <3> QED BY <1>13, <2>2, <3>1, <3>2, <3>3 DEF Steps
  <2> QED BY <2>1, <2>2
<1>20. ASSUME NEW w \in Workers, CleanUp(w) PROVE Minds(v)'
  BY <1>5, <1>7, <1>20 DEF CleanUp, Minds, Holds, Job, At, Idle, WorkerType
<1>21. CASE UNCHANGED importVars
  BY <1>5, <1>21 DEF Minds, Holds, Job, At
<1> QED BY <1>8, <1>9, <1>10, <1>11, <1>12, <1>14, <1>15, <1>16, <1>17, <1>18, <1>19, <1>20, <1>21
        DEF ImportNext, WorkerStep

\* Each step of a worker, seen through Shown, is a step of ImportJob or changes
\* nothing that ImportJob shows.
LEMMA StepImplements ==
  ASSUME MaxPauses = 0, MaxLost = 0, LeaseInv, [ImportNext]_importVars
  PROVE  [Job0!JobNext]_(Job0!jobVars)
<1> DEFINE shown == [j \in Jobs |-> Shown(row[j].status)]
<1>1. TypedInv /\ \A w \in Workers : Minds(w)
  BY DEF LeaseInv, Minds
<1>2. ~Lost
  BY <1>1 DEF Lost, TypedInv, ImportTypeOK
<1>3. \A w \in Workers : Job(w) # Nobody => Job(w) \in Jobs
  BY <1>1 DEF TypedInv, ImportTypeOK, Job
<1>4. row \in RowType /\ row' \in RowType
  BY <1>1, StepTyped DEF TypedInv, ImportTypeOK, RowType
<1>5. ASSUME \A j \in Jobs : Shown(row'[j].status) = Shown(row[j].status), UNCHANGED saved
      PROVE  UNCHANGED Job0!jobVars
  BY <1>5 DEF Job0!jobVars
<1>6. ASSUME NEW w \in Workers, NEW s, Progress(Job(w), s), s \in {"downloading", "processing", "saving"},
             Holds(w), Job(w) \in Jobs, UNCHANGED saved
      PROVE  Job0!JobNext \/ UNCHANGED Job0!jobVars
  <2>1. CASE UNCHANGED row
    BY <1>5, <1>6, <2>1
  <2>2. CASE row' = [row EXCEPT ![Job(w)].status = s]
    <3>1. row'[Job(w)].status = s /\ \A j \in Jobs : j # Job(w) => row'[j] = row[j]
      BY <1>4, <1>6, <2>2 DEF RowType
    <3>2. Shown(s) = "active"
      BY <1>6 DEF Shown
    <3>3. CASE row[Job(w)].status = "queued"
      <4>1. shown[Job(w)] = "queued"
        BY <1>6, <3>3 DEF Shown
      <4>2. shown' = [shown EXCEPT ![Job(w)] = "active"]
        BY <1>6, <3>1, <3>2
      <4>3. Job0!Start(Job(w))
        BY <1>6, <4>1, <4>2 DEF Job0!Start
      <4> QED BY <1>6, <4>3 DEF Job0!JobNext, Job0!Work
    <3>4. CASE row[Job(w)].status # "queued"
      <4>1. Shown(row[Job(w)].status) = "active"
        BY <1>6, <3>4 DEF Holds, Open, Shown
      <4> QED BY <1>5, <1>6, <3>1, <3>2, <4>1
    <3> QED BY <3>3, <3>4
  <2> QED BY <1>6, <2>1, <2>2 DEF Progress
<1>7. ASSUME NEW w \in Workers, Holds(w), Job(w) \in Jobs PROVE Job0!Active(Job(w))
  BY <1>7 DEF Job0!Active, Holds, Open, Shown
<1>8. ASSUME NEW w \in Workers, NEW step, At(w, step), step # "clean"
      PROVE  Holds(w) /\ Job(w) \in Jobs
  BY <1>1, <1>3, <1>8, MindsHolds DEF At
<1>9. ASSUME NEW j \in Jobs, Insert(j) PROVE Job0!JobNext
  <2>1. Job0!Create(j)
    BY <1>4, <1>9 DEF Insert, Job0!Create, Shown, RowType
  <2> QED BY <2>1 DEF Job0!JobNext
<1>10. ASSUME NEW j \in Jobs, LeaseExpires(j) PROVE UNCHANGED Job0!jobVars
  BY <1>4, <1>5, <1>10 DEF LeaseExpires, RowType
<1>11. ASSUME NEW w \in Workers, NEW j \in Jobs, Claim(w, j) PROVE UNCHANGED Job0!jobVars
  BY <1>4, <1>5, <1>11 DEF Claim, RowType
<1>12. ASSUME NEW w \in Workers, RenewLease(w) PROVE UNCHANGED Job0!jobVars
  BY <1>4, <1>5, <1>12 DEF RenewLease, RowType
<1>13. ASSUME NEW w \in Workers, CrashWorker(w) PROVE UNCHANGED Job0!jobVars
  BY <1>4, <1>5, <1>13 DEF CrashWorker, RowType
<1>14. ASSUME NEW w \in Workers, Download(w) PROVE Job0!JobNext \/ UNCHANGED Job0!jobVars
  BY <1>6, <1>8, <1>14 DEF Download
<1>15. ASSUME NEW w \in Workers, Store(w) PROVE Job0!JobNext \/ UNCHANGED Job0!jobVars
  BY <1>6, <1>8, <1>15 DEF Store
<1>16. ASSUME NEW w \in Workers, AppendImages(w) PROVE Job0!JobNext \/ UNCHANGED Job0!jobVars
  <2>1. Job0!Active(Job(w)) /\ Job(w) \in Jobs
    BY <1>7, <1>8, <1>16 DEF AppendImages
  <2>2. saved' = saved \cup {Job(w)} /\ UNCHANGED row
    BY <1>16 DEF AppendImages
  <2>3. CASE Job(w) \in saved
    BY <1>5, <2>2, <2>3
  <2>4. CASE Job(w) \notin saved
    BY <2>1, <2>2, <2>4 DEF Job0!Append, Job0!JobNext, Job0!Work
  <2> QED BY <2>3, <2>4
<1>17. ASSUME NEW w \in Workers, CompleteImport(w) PROVE Job0!JobNext
  <2>1. Job0!Active(Job(w)) /\ Job(w) \in Jobs /\ Job(w) \in saved
    BY <1>1, <1>7, <1>8, <1>17 DEF CompleteImport, Minds
  <2>2. row' = [row EXCEPT ![Job(w)] = Settled(Job(w), "completed")] /\ UNCHANGED saved
    BY <1>17 DEF CompleteImport
  <2>3. shown' = [shown EXCEPT ![Job(w)] = "completed"]
    BY <1>4, <2>1, <2>2 DEF Settled, Shown, RowType
  <2> QED BY <2>1, <2>2, <2>3 DEF Job0!Complete, Job0!JobNext, Job0!Work
<1>18. ASSUME NEW w \in Workers, NEW step, Breaks(w, step) PROVE UNCHANGED Job0!jobVars
  BY <1>5, <1>18 DEF Breaks
<1>19. ASSUME NEW w \in Workers, FailImport(w) PROVE Job0!JobNext \/ UNCHANGED Job0!jobVars
  <2>1. Job0!Active(Job(w)) /\ Job(w) \in Jobs /\ UNCHANGED saved
    BY <1>7, <1>8, <1>19 DEF FailImport
  <2>2. CASE UNCHANGED row
    BY <1>5, <2>1, <2>2
  <2>3. CASE row' = [row EXCEPT ![Job(w)] = Settled(Job(w), "error")]
    <3>1. shown' = [shown EXCEPT ![Job(w)] = "error"]
      BY <1>4, <2>1, <2>3 DEF Settled, Shown, RowType
    <3> QED BY <2>1, <3>1 DEF Job0!Fail, Job0!JobNext, Job0!Work
  <2> QED BY <1>19, <2>2, <2>3 DEF FailImport
<1>20. ASSUME NEW w \in Workers, CleanUp(w) PROVE UNCHANGED Job0!jobVars
  BY <1>5, <1>20 DEF CleanUp
<1>21. CASE UNCHANGED importVars
  BY <1>5, <1>21
<1> QED BY <1>9, <1>10, <1>11, <1>12, <1>13, <1>14, <1>15, <1>16, <1>17, <1>18, <1>19, <1>20, <1>21
        DEF ImportNext, WorkerStep

\* While a lease runs out only after the process that held it, and a reported
\* error is one, the workers implement ImportJob for any number of imports,
\* workers and pages, through crashes, takeovers and failed statements: an import
\* ends once and for good, and says completed only after its images were
\* appended to the campaign.
THEOREM Implements ==
  ASSUME MaxPauses = 0, MaxLost = 0
  PROVE  ImportSpec => Job0!JobInit /\ [][Job0!JobNext]_(Job0!jobVars)
<1>1. ImportInit => Job0!JobInit
  BY DEF ImportInit, Job0!JobInit, Shown
<1>2. LeaseInv /\ [ImportNext]_importVars => LeaseInv'
  BY StepLease
<1>3. LeaseInv /\ [ImportNext]_importVars => [Job0!JobNext]_(Job0!jobVars)
  BY StepImplements
<1> QED BY <1>1, InitLease, <1>2, <1>3, PTL DEF ImportSpec
=============================================================================
