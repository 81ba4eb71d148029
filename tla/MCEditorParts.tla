--------------------------- MODULE MCEditorParts ----------------------------
(***************************************************************************)
(* Three instances of CampaignEditor checked in one run: every behaviour   *)
(* belongs to one of them.                                                 *)
(*   two      two users, one a super admin, and a campaign;                *)
(*   working  one tab that uses every explicit handler;                    *)
(*   leaving  one tab whose editor is left, refreshed and opened again     *)
(*            while calls are under way and one may fail.                  *)
(* The bounds of the configuration are those of the largest.               *)
(***************************************************************************)
EXTENDS MCCampaignEditor

VARIABLE part

Two == INSTANCE CampaignEditor WITH
  Handlers <- {}, PastDates <- {FALSE}, MaxTyped <- 1, MaxMounts <- 1, MaxFaults <- 0
Working == INSTANCE CampaignEditor WITH
  Existing <- {}, PastDates <- {FALSE}, MaxTyped <- 1, MaxMounts <- 1, MaxFaults <- 0
Leaving == INSTANCE CampaignEditor WITH
  Handlers <- {"submit"}

\* Only the tab t1 is used.
OneTab == \A t \in Tabs \ {t1} : tab'[t] = tab[t]

PartsInit ==
  \/ part = "two" /\ Two!Init
  \/ part = "working" /\ Working!Init
  \/ part = "leaving" /\ Leaving!Init

PartsNext ==
  /\ part' = part
  /\ \/ part = "two" /\ Two!Next
     \/ part = "working" /\ Working!Next /\ OneTab
     \/ part = "leaving" /\ Leaving!Next /\ OneTab

PartsSpec == PartsInit /\ [][PartsNext]_<<part, vars>>
=============================================================================
