------------------------------ MODULE ImportJob ------------------------------
(***************************************************************************)
(* What the API promises of a OneDrive artwork import, to the user who     *)
(* waits for it: it is created once, worked on, and ends as completed or   *)
(* as an error, for good; completed means that its images are in the       *)
(* campaign.  OneDriveImport shows how the workers keep it, ArtworkUploads *)
(* what the browser makes of it.                                           *)
(***************************************************************************)
CONSTANT Jobs

VARIABLES
  status,  \* onedrive_artwork_imports.status; downloading, processing and saving are "active"
  saved    \* the imports whose images were appended to their campaign

jobVars == <<status, saved>>

Active(j) == status[j] \in {"queued", "active"}
Ended(j)  == status[j] \in {"completed", "error"}

JobInit == status = [j \in Jobs |-> "absent"] /\ saved = {}

Create(j) ==
  /\ status[j] = "absent"
  /\ status' = [status EXCEPT ![j] = "queued"]
  /\ UNCHANGED saved

Start(j) ==
  /\ status[j] = "queued"
  /\ status' = [status EXCEPT ![j] = "active"]
  /\ UNCHANGED saved

Append(j) ==
  /\ Active(j) /\ j \notin saved
  /\ saved' = saved \cup {j}
  /\ UNCHANGED status

Complete(j) ==
  /\ Active(j) /\ j \in saved
  /\ status' = [status EXCEPT ![j] = "completed"]
  /\ UNCHANGED saved

\* An import may fail before anything was saved, and also after it: the append
\* is one transaction and the completion another.
Fail(j) ==
  /\ Active(j)
  /\ status' = [status EXCEPT ![j] = "error"]
  /\ UNCHANGED saved

Work(j) == Start(j) \/ Append(j) \/ Complete(j) \/ Fail(j)

JobNext == \E j \in Jobs : Create(j) \/ Work(j)

JobSpec == JobInit /\ [][JobNext]_jobVars /\ \A j \in Jobs : WF_jobVars(Work(j))
=============================================================================
