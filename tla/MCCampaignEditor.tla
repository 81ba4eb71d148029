-------------------------- MODULE MCCampaignEditor --------------------------
(* Instances of CampaignEditor for TLC: who sits at which tab.             *)
EXTENDS CampaignEditor

CONSTANTS t1, u1, u2

OneUser  == [t \in Tabs |-> u1]
TwoUsers == [t \in Tabs |-> IF t = t1 THEN u1 ELSE u2]
=============================================================================
