----------------------------- MODULE MCImports ------------------------------
(***************************************************************************)
(* Artwork on its way to the server, checked in one run: every behaviour   *)
(* belongs to one part, and the variables of the others rest.              *)
(*   import  OneDriveImport: two imports, two workers, one of which may    *)
(*           die, two statements that fail;                                *)
(*   disk    ArtworkUploads with PDFs of the disk;                         *)
(*   drive   ArtworkUploads with two PDFs of OneDrive;                     *)
(*   users   ArtworkUploads with one of them and two users.                *)
(***************************************************************************)
EXTENDS OneDriveImport, ArtworkUploads

CONSTANTS w1, w2, i1, i2, f1, f2, d1, d2, u1, u2

VARIABLE part

\* What the proofs take for granted of the constants.
ASSUME ImportsAssumption == UploadAssumption

ImportsInit ==
  /\ part \in {"import", "disk", "drive", "users"}
  /\ ImportInit /\ UploadInit /\ session = u1

\* What is chosen in each part, and by whom.
Disk  == session' # u2 /\ creating' = {}
Cloud == session' # u2 /\ queue' = queue
Users == queue' = queue /\ \A c \in creating' : c.batch = {d1}

ImportsNext ==
  /\ part' = part
  /\ \/ part = "import" /\ ImportNext /\ UNCHANGED uploadVars
     \/ /\ part # "import" /\ UploadNext /\ UNCHANGED importVars
        /\ (part = "disk" => Disk) /\ (part = "drive" => Cloud) /\ (part = "users" => Users)

ImportsSpec ==
  /\ ImportsInit /\ [][ImportsNext]_<<part, importVars, uploadVars>>
  /\ ImportFairness /\ UploadFairness

\* The types of both modules.
ImportsTypeOK == ImportTypeOK /\ UploadTypeOK
=============================================================================
