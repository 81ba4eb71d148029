-------------------------------- MODULE MCWeb --------------------------------
(***************************************************************************)
(* Four parts that share nothing, checked in one run: every behaviour      *)
(* belongs to one component, and the variables of the others rest.         *)
(*   artwork  ArtworkAssignments: an asset with a format of one artwork    *)
(*            and one of several, started as new, as an older campaign's   *)
(*            and with more frames in rows than it has                     *)
(*   import   OneDriveImport: one import whose lease may run out, and      *)
(*            whose confirmation may be lost, under a living worker        *)
(*   drafts   DraftScreens: two tenants, two markets; two moves, or one on *)
(*            the two screens with the most states                         *)
(*   records  RecordScreens: two tenants; three changes of tenant on the   *)
(*            screen of the users, so that a user can be moved to a tenant *)
(*            whose list was loaded before, one on the screen of the       *)
(*            mappings, two on the others                                  *)
(***************************************************************************)
EXTENDS ArtworkAssignments, OneDriveImport, DraftScreens, RecordScreens

CONSTANTS ta, tb, m1, m2, w1, w2, i1

VARIABLE component

NoIds == [f \in Fs |-> None]
NoRows == [f \in Fs |-> None]
Asset(ids, legacy, rows) == [x \in Assets |-> [ids |-> ids, legacy |-> legacy, rows |-> rows]]

MCFormats == <<"sheet8", "QA0">>
MCPlans == {[x \in Assets |-> [f \in Fs |-> IF f = "QA0" THEN n ELSE m]] :
              <<n, m>> \in {<<2, 0>>, <<2, 1>>, <<0, 2>>}}
MCStored ==
  {Asset(NoIds, None, NoRows),
   Asset(NoIds, "a", NoRows),
   Asset([NoIds EXCEPT !["sheet8"] = "a"], None,
         [NoRows EXCEPT !["QA0"] = <<Row("a", None, 2), Row("a", "paper", 1)>>])}

MCMarketOrder == <<m1, m2>>

\* What the proofs take for granted of the constants.
ASSUME SettingsAssumption == DraftAssumption /\ RecordAssumption

Rest(s) == CHOOSE x \in s : TRUE

webVars == <<component, vars, importVars, draftVars, recordVars>>

WebInit ==
  /\ component \in {"artwork", "import", "drafts", "records"}
  /\ ArtworkInit /\ ImportInit /\ Init /\ RecordInit
  \* A component that rests starts in one state.
  /\ component # "artwork" => plan = Rest(MCPlans) /\ assets = Rest(MCStored)
  /\ component # "drafts" => screen = "settings"
  /\ component # "records" => page = "users"

WebNext ==
  /\ component' = component
  /\ \/ /\ component = "artwork" /\ ArtworkNext
        /\ UNCHANGED <<importVars, draftVars, recordVars>>
     \/ /\ component = "import" /\ ImportNext
        /\ UNCHANGED <<vars, draftVars, recordVars>>
     \/ /\ component = "drafts" /\ DraftNext
        /\ screen \in {"settings", "printingCost"} => moves' <= 1
        /\ UNCHANGED <<vars, importVars, recordVars>>
     \/ /\ component = "records" /\ RecordNext
        /\ page = "mappings" => switches' <= 1
        /\ page # "users" => switches' <= 2
        /\ UNCHANGED <<vars, importVars, draftVars>>

WebSpec == WebInit /\ [][WebNext]_webVars
=============================================================================
