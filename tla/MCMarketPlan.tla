---------------------------- MODULE MCMarketPlan ----------------------------
(* Two parts that share nothing, checked in one run: every behaviour belongs *)
(* to one component, and the variables of the other rest.                    *)
(*   plan    MarketPlan: two markets, and a stored campaign whose market has *)
(*           two assets and an old poster count of its own                   *)
(*   upload  ResumableUpload: two tabs, two chunks, three requests           *)
EXTENDS MarketPlan, ResumableUpload

CONSTANTS sydney, perth, a1, a2, a3, home, oldHome, c1, c2

VARIABLE component

TwoMarkets == [n \in Names |-> IF n = sydney THEN {a1, a2} ELSE {a3}]
Needs      == [a \in {a1, a2, a3} |-> IF a = a1 THEN 1 ELSE 2]
Preference == [n \in Names |-> IF n = sydney THEN home ELSE None]
Renewed    == [n \in Names |-> [a \in IF n = sydney THEN {oldHome} ELSE {} |-> home]]

StoredAsset(id, a) ==
  [id |-> id, asset |-> a, weeks |-> {1}, addr |-> IF a = a1 THEN oldHome ELSE None, over |-> None, rows |-> None]
OldMarket == <<[id |-> 1, name |-> sydney, over |-> 5,
                assets |-> <<StoredAsset(2, a1), StoredAsset(3, a2)>>]>>

MCInit ==
  /\ component \in {"plan", "upload"}
  /\ PlanInit /\ ResumableInit
  \* A component that rests starts in one state.
  /\ component = "upload" => Stored = markets

MCNext ==
  /\ component' = component
  /\ \/ component = "plan" /\ PlanNext /\ UNCHANGED resumableVars
     \/ component = "upload" /\ ResumableNext /\ UNCHANGED vars

MCSpec == MCInit /\ [][MCNext]_<<component, vars, resumableVars>>
=============================================================================
