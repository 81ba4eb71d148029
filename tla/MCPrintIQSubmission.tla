----------------------- MODULE MCPrintIQSubmission -----------------------
(***************************************************************************)
(* Values and symmetry for the runs of PrintIQSubmission.                  *)
(***************************************************************************)
EXTENDS PrintIQSubmission, TLC

CONSTANTS h1, h2, ann, root, j1, j2, v1, v2, b1, b2

\* Handlers are interchangeable, and so are the rows of the journal.
HandlerSymmetry == Permutations(Handlers)
RowSymmetry     == Permutations(JournalIDs)
AnySymmetry     == HandlerSymmetry \cup RowSymmetry

\* Bound of SubmissionLockLost: only requests touch the campaign; a change of
\* test mode, not an edit, is what makes one of them start afresh.
OnlyRequestsTouchCampaign ==
  campaign' # campaign \/ editLock' # editLock => pc' # pc

=============================================================================
