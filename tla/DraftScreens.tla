---------------------------- MODULE DraftScreens ----------------------------
(***************************************************************************)
(* The settings screens that edit drafts of a tenant's settings and save   *)
(* them with a button: sheet sizes, material mapping, sheet names and      *)
(* materials, which compare their drafts with what was saved, and the two  *)
(* cost screens, which mark what was touched and share                     *)
(* CostSettingsSaveControls.  One screen is opened in a behaviour; it is   *)
(* chosen at the start.  Every screen starts a call for the tenants and a  *)
(* load of the tenant's data at the mount and at every change of tenant,   *)
(* and both calls turn ONE loading flag off.                               *)
(*                                                                         *)
(* A field is a row, or the rows saved together, of a market.  A value     *)
(* says whose data it is (of) and which edit made it (n; 0 for what the    *)
(* database held at first), so that two edits never look alike.            *)
(***************************************************************************)
EXTENDS Naturals, Sequences

CONSTANTS
  Tenants,
  Home,       \* the tenant of the session
  MarketOrder, \* the markets, in the order the screens list them
  NoTenant,   \* the owner of the rows of a screen that has loaded nothing
  NoMarket,   \* the market of a field that belongs to all of them
  Leave,      \* the action of leaving the screen
  Nothing,    \* no action waits
  MaxEdits,   \* bound: edits
  MaxRefusals, \* bound: calls that fail
  MaxMoves    \* bound: changes of tenant and market, and reloads

VARIABLES
  screen,     \* the screen that is open
  mounted,    \* is it still open
  tenant,     \* selectedTenantId
  market,     \* the market filter
  draft,      \* drafts: what every field shows
  base,       \* savedDrafts, savedSnapshot; a cost screen's untouched values
  ticked,     \* customPrintCostFormats of the printing screen
  loading,    \* the loading flag
  listed,     \* have the tenants been answered once
  tenantsOut, \* the call for the tenants is out
  load,       \* the current load of the data
  stale,      \* tenants whose superseded load is still out
  save,       \* the save under way
  dialog,     \* pendingNavigationAction
  database,     \* the database: of every tenant
  edits, errors, moves,
  late,       \* history: fields typed in while a load or a save was out
  dropped,    \* history: fields whose edit the user, or the screen, gave up
  written,    \* history: the edits a save has stored, answered or not
  overtaken,  \* history: a save's answer came under another tenant
  blind       \* history: tenants saved to while not their data was shown

calls == <<loading, listed, tenantsOut, load, stale>>
shown == <<tenant, market, draft, base, ticked, mounted>>
history == <<late, dropped, written, overtaken, blind>>
counts == <<edits, errors, moves>>
draftVars == <<screen, calls, shown, save, dialog, database, counts, history>>

Markets == {MarketOrder[i] : i \in DOMAIN MarketOrder}

\* The tenant of the session is one of the tenants, and there is a market.
DraftAssumption ==
  /\ Home \in Tenants
  /\ MarketOrder \in Seq(Markets) /\ MarketOrder # <<>>

Blank == [of |-> NoTenant, n |-> 0]
NoSave == [on |-> FALSE]
PerMarket == {"sheetSize", "materialMapping"}
Costs == {"shippingCost", "printingCost"}
Screens == PerMarket \cup {"settings", "materials"} \cup Costs

\* The fields of every screen.
SheetSizeFields == Markets \X {"size"}
MaterialMappingFields == Markets \X {"codes"}
SettingsFields == {NoMarket} \X {"names"}
MaterialsFields == {NoMarket} \X {"materials"}
ShippingFields == Markets \X {"rate", "rows"}
PrintingFields == (Markets \X {"poster", "rows"}) \cup ({NoMarket} \X {"flags", "custom"})

Fields ==
  CASE screen = "sheetSize" -> SheetSizeFields
    [] screen = "materialMapping" -> MaterialMappingFields
    [] screen = "settings" -> SettingsFields
    [] screen = "materials" -> MaterialsFields
    [] screen = "shippingCost" -> ShippingFields
    [] screen = "printingCost" -> PrintingFields

\* hasUnsavedChanges, or the dirty flags of a cost screen.  The sheet names
\* compare with a snapshot that is empty until the first load.
Dirty == \E f \in Fields : /\ draft[f] # base[f]
                           /\ screen = "settings" => base[f].of # NoTenant

Touched(fs) == {f \in fs : draft[f] # base[f]}
Out(l) == l.at \in {"sent", "read", "synced"}
Sent == [at |-> "sent", data |-> [f \in Fields |-> Blank]]

Init ==
  /\ screen \in Screens
  /\ mounted = TRUE
  /\ tenant = Home
  /\ market = MarketOrder[1]
  /\ draft = [f \in Fields |-> Blank]
  /\ base = draft
  /\ ticked = FALSE
  /\ loading = TRUE
  /\ listed = FALSE
  /\ tenantsOut = TRUE
  /\ load = Sent
  /\ stale = {}
  /\ save = NoSave
  /\ dialog = Nothing
  /\ database = [t \in Tenants |-> [f \in Fields |-> [of |-> t, n |-> 0]]]
  /\ edits = 0
  /\ errors = 0
  /\ moves = 0
  /\ late = {}
  /\ dropped = {}
  /\ written = {}
  /\ overtaken = FALSE
  /\ blind = {}

-----------------------------------------------------------------------------
(* Loading. *)

\* The tenants arrive, or their call fails; either turns the loading flag
\* off, but for the materials, though the data may still be out.
TenantsAnswer ==
  /\ mounted /\ tenantsOut
  /\ tenantsOut' = FALSE
  /\ loading' = (loading /\ screen = "materials")
  /\ \/ listed' = TRUE /\ UNCHANGED errors
     \/ errors < MaxRefusals /\ errors' = errors + 1 /\ UNCHANGED listed
  /\ UNCHANGED <<screen, shown, load, stale, save, dialog, database, edits, moves, history>>

LoadReads ==
  /\ load.at = "sent"
  /\ load' = [at |-> "read", data |-> database[tenant]]
  /\ UNCHANGED <<screen, shown, loading, listed, tenantsOut, stale, save, dialog,
                 database, counts, history>>

\* The sheet names are written back, with the columns the mappings have and
\* the names lack, before they are shown.
SettingsSync ==
  /\ screen = "settings" /\ mounted
  /\ load.at = "read"
  /\ load' = [load EXCEPT !.at = "synced"]
  /\ database' = [database EXCEPT ![tenant] = load.data]
  /\ UNCHANGED <<screen, shown, loading, listed, tenantsOut, stale, save, dialog,
                 counts, history>>

\* Every draft becomes what was read.
LoadAnswers ==
  /\ mounted
  /\ load.at \in {"read", "synced"}
  /\ draft' = load.data
  /\ base' = load.data
  /\ load' = [Sent EXCEPT !.at = "done"]
  /\ loading' = FALSE
  /\ late' = {}
  /\ dropped' = {}
  /\ overtaken' = FALSE
  /\ UNCHANGED <<screen, mounted, tenant, market, listed, tenantsOut, stale, save,
                 dialog, database, counts, written, blind>>

LoadSheetSizes == screen = "sheetSize" /\ LoadAnswers /\ UNCHANGED ticked
LoadMaterialMappings == screen = "materialMapping" /\ LoadAnswers /\ UNCHANGED ticked
LoadSettings == screen = "settings" /\ LoadAnswers /\ UNCHANGED ticked
LoadMaterials == screen = "materials" /\ LoadAnswers /\ UNCHANGED ticked
LoadShippingCosts == screen = "shippingCost" /\ LoadAnswers /\ UNCHANGED ticked
LoadPrintingCosts == screen = "printingCost" /\ LoadAnswers /\ ticked' \in BOOLEAN

\* The drafts stay what they were, another tenant's perhaps.
LoadFails ==
  /\ mounted
  /\ Out(load)
  /\ errors < MaxRefusals
  /\ errors' = errors + 1
  /\ load' = [Sent EXCEPT !.at = "failed"]
  /\ loading' = FALSE
  /\ UNCHANGED <<screen, shown, listed, tenantsOut, stale, save, dialog, database,
                 edits, moves, history>>

\* Seeded defect: the answer is shown without a look at the flag.
BugStaleLoadAnswers(t) ==
  /\ t \in stale
  /\ stale' = stale \ {t}
  /\ draft' = database[t]
  /\ base' = database[t]
  /\ UNCHANGED <<screen, tenant, market, ticked, mounted, loading, listed, tenantsOut,
                 load, save, dialog, database, counts, history>>

\* The answer of a load that was superseded finds its active flag off.
StaleLoadAnswers(t) ==
  /\ t \in stale
  /\ stale' = stale \ {t}
  /\ UNCHANGED <<screen, shown, loading, listed, tenantsOut, load, save, dialog,
                 database, counts, history>>

-----------------------------------------------------------------------------
(* Editing. *)

\* Inputs are hidden while loading, and the fieldset of a cost screen is off
\* while saving too; a modal dialog is in front of all of them.
Editable(f) ==
  /\ mounted /\ dialog = Nothing /\ ~loading
  /\ screen \in Costs => ~save.on
  /\ draft[f].of = NoTenant => screen \in {"settings", "materials"}
  /\ edits < MaxEdits

Type(fs) ==
  /\ edits' = edits + 1
  /\ draft' = [f \in Fields |-> IF f \in fs THEN [draft[f] EXCEPT !.n = edits + 1] ELSE draft[f]]
  /\ late' = IF Out(load) \/ save.on THEN late \cup fs ELSE late \ fs
  /\ UNCHANGED <<screen, mounted, tenant, market, calls, save, dialog, database, errors, moves,
                 written, overtaken, blind>>

Edit(f) == /\ Editable(f)
           /\ Type({f})
           /\ dropped' = dropped \ {f}
           /\ UNCHANGED <<base, ticked>>

EditSheetSize == screen = "sheetSize" /\ Edit(<<market, "size">>)
EditMaterialMapping == screen = "materialMapping" /\ Edit(<<market, "codes">>)
EditSettings == screen = "settings" /\ \E f \in SettingsFields : Edit(f)
EditMaterials == screen = "materials" /\ \E f \in MaterialsFields : Edit(f)
EditShippingRate == screen = "shippingCost" /\ Edit(<<market, "rate">>)
EditShippingRow == screen = "shippingCost" /\ Edit(<<market, "rows">>)
EditPosterCost == screen = "printingCost" /\ Edit(<<market, "poster">>)
EditPrintingRow == screen = "printingCost" /\ ~ticked /\ Edit(<<market, "rows">>)
EditCustomCost == screen = "printingCost" /\ ticked /\ Edit(<<NoMarket, "custom">>)

\* Ticking a row's own print cost empties its price; unticking forgets that
\* the four custom prices were touched, and keeps showing what was typed when
\* it is ticked again.
UpdateCustomPrintCostFlag ==
  LET flags == <<NoMarket, "flags">>
      custom == <<NoMarket, "custom">>
      row == <<market, "rows">>
  IN /\ screen = "printingCost"
     /\ Editable(flags)
     /\ ticked' = ~ticked
     /\ Type(IF ticked THEN {flags} ELSE {flags, row})
     /\ base' = IF ticked THEN [base EXCEPT ![custom] = draft[custom]] ELSE base
     /\ dropped' = IF ticked THEN (dropped \ {flags}) \cup {custom} ELSE dropped \ {flags, row}

-----------------------------------------------------------------------------
(* Saving: the calls a save makes one after the other, with the fields each *)
(* one stores and the fields its answer makes clean.                        *)

SaveOf(fs) == <<[fields |-> fs, clears |-> fs]>>
SaveIf(fs) == IF fs = {} THEN <<>> ELSE SaveOf(fs)

SheetSizeCalls == SaveOf({<<market, "size">>})
MaterialMappingCalls == SaveOf({<<market, "codes">>})
SettingsCalls == SaveOf(SettingsFields)
MaterialsCalls == SaveOf(MaterialsFields)

\* The selected market's rate if it was touched, then every touched row.
ShippingCalls == SaveIf(Touched({<<market, "rate">>})) \o SaveIf(Touched(Markets \X {"rows"}))

\* A market's poster cost and rows, in two calls that are clean together.
MarketCalls(m) ==
  LET poster == Touched({<<m, "poster">>})
      rows == Touched({<<m, "rows">>})
  IN IF rows = {} THEN SaveIf(poster)
     ELSE (IF poster = {} THEN <<>> ELSE <<[fields |-> poster, clears |-> {}]>>)
          \o <<[fields |-> rows, clears |-> poster \cup rows]>>

PrintingCalls ==
  LET flags == SaveIf(Touched({<<NoMarket, "flags">>}))
      custom == IF ticked THEN SaveIf(Touched({<<NoMarket, "custom">>})) ELSE <<>>
      markets[i \in 0..Len(MarketOrder)] ==
        IF i = 0 THEN <<>> ELSE markets[i - 1] \o MarketCalls(MarketOrder[i])
  IN flags \o custom \o markets[Len(MarketOrder)]

Calls ==
  CASE screen = "sheetSize" -> SheetSizeCalls
    [] screen = "materialMapping" -> MaterialMappingCalls
    [] screen = "settings" -> SettingsCalls
    [] screen = "materials" -> MaterialsCalls
    [] screen = "shippingCost" -> ShippingCalls
    [] screen = "printingCost" -> PrintingCalls

\* A market is needed by the screens that save one.
MaySave ==
  /\ mounted /\ ~save.on /\ ~loading
  /\ screen \in PerMarket => draft[<<market, IF screen = "sheetSize" THEN "size" ELSE "codes">>].of # NoTenant

HandleSave(after) ==
  /\ MaySave
  /\ Len(Calls) > 0
  /\ save' = [on |-> TRUE, tenant |-> tenant, market |-> market, calls |-> Calls,
              vals |-> draft, after |-> after]
  /\ blind' = IF load.at = "done" /\ ~overtaken THEN blind ELSE blind \cup {tenant}
  /\ UNCHANGED <<screen, shown, calls, dialog, database, counts, late, dropped, written, overtaken>>

SaveButton ==
  /\ dialog = Nothing
  /\ screen \in Costs => Dirty
  /\ HandleSave(Nothing)

\* What the field shows is an edit that no save has stored.
Unsaved(f) == draft[f].n > 0 /\ draft[f].n \notin written

\* An action is done: the screen is left, or the tenant or the market
\* changes; a new tenant, and a reload, start the calls again.
Goes(a, reload) ==
  LET again == a \in Tenants \/ reload
  IN /\ mounted' = (a # Leave)
     /\ tenant' = IF a \in Tenants THEN a ELSE tenant
     /\ market' = IF a \in Markets THEN a ELSE market
     /\ load' = IF again THEN Sent ELSE load
     /\ stale' = IF again /\ Out(load) THEN stale \cup {tenant} ELSE stale
     /\ loading' = (loading \/ again)
     /\ tenantsOut' = (tenantsOut \/ (a \in Tenants /\ screen # "materials"))
     /\ moves' = IF a = Leave THEN moves ELSE moves + 1
     /\ a # Leave => moves < MaxMoves
     /\ UNCHANGED <<listed, edits, errors>>

Stores(c) ==
  /\ database' = [database EXCEPT ![save.tenant] =
                 [f \in Fields |-> IF f \in c.fields THEN save.vals[f] ELSE @[f]]]
  /\ written' = written \cup {save.vals[f].n : f \in c.fields}
Fresh(f, c) == IF f \in c.fields THEN save.vals[f] ELSE draft[f]

\* Seeded defect: the answer puts every other row back to what was saved.
BugSaveAnswered ==
  LET c == Head(save.calls)
  IN /\ save.on /\ mounted
     /\ Stores(c)
     /\ draft' = [f \in Fields |-> IF f \in c.fields THEN save.vals[f] ELSE base[f]]
     /\ base' = draft'
     /\ save' = IF Len(save.calls) = 1 THEN NoSave ELSE [save EXCEPT !.calls = Tail(@)]
     /\ UNCHANGED <<screen, mounted, tenant, market, ticked, calls, dialog, counts,
                    late, dropped, overtaken, blind>>

\* A call of the save is answered.  The screens with a snapshot take the
\* answer for the rows they sent, whatever was typed since and whatever
\* tenant is selected now; a cost screen's rows are no longer touched.  After
\* the last call the action that waited in the dialog is done, though the
\* dialog may have been closed since; in the screens that save one market the
\* edits of the others go with it.
SaveAnswered ==
  LET c == Head(save.calls)
      ends == Len(save.calls) = 1
      goes == ends /\ save.after \notin {Nothing, tenant}
  IN /\ save.on /\ mounted
     /\ Stores(c)
     /\ IF screen \in Costs
        THEN /\ base' = [f \in Fields |-> IF f \in c.clears THEN draft[f] ELSE base[f]]
             /\ UNCHANGED draft
        ELSE /\ draft' = [f \in Fields |-> Fresh(f, c)]
             /\ base' = [f \in Fields |-> IF f \in c.fields THEN save.vals[f] ELSE base[f]]
     /\ overtaken' = (overtaken \/ (save.tenant # tenant /\ load.at = "done"))
     /\ save' = IF ends THEN NoSave ELSE [save EXCEPT !.calls = Tail(@)]
     /\ dialog' = IF ends /\ save.after # Nothing THEN Nothing ELSE dialog
     /\ dropped' = IF goes /\ screen \in PerMarket
                   THEN dropped \cup {f \in Fields : Unsaved(f) /\ f[1] # save.market}
                   ELSE dropped
     /\ IF goes THEN Goes(save.after, FALSE)
        ELSE UNCHANGED <<mounted, tenant, market, calls, counts>>
     /\ UNCHANGED <<screen, ticked, late, blind>>

\* The rest of the calls is not made; the request may have been carried out.
SaveFails ==
  /\ save.on /\ mounted
  /\ errors < MaxRefusals
  /\ errors' = errors + 1
  /\ \/ UNCHANGED <<database, written>>
     \/ Stores(Head(save.calls))
  /\ save' = NoSave
  /\ UNCHANGED <<screen, shown, calls, dialog, edits, moves, late, dropped, overtaken, blind>>

\* The answer of a save whose screen was left changes the database alone.
SaveOutlivesScreen ==
  /\ save.on /\ ~mounted
  /\ Stores(Head(save.calls))
  /\ save' = NoSave
  /\ UNCHANGED <<screen, shown, calls, dialog, counts, late, dropped, overtaken, blind>>

-----------------------------------------------------------------------------
(* Leaving, and the dialog about unsaved changes. *)

\* What asks first: leaving, another tenant and, on the cost screens,
\* another market.
SheetSizeChoices == {Leave} \cup Tenants
MaterialMappingChoices == {Leave} \cup Tenants
SettingsChoices == {Leave} \cup Tenants
MaterialsChoices == {Leave} \cup Tenants
ShippingChoices == {Leave} \cup Tenants \cup Markets
PrintingChoices == {Leave} \cup Tenants \cup Markets

NavigationChoices ==
  CASE screen = "sheetSize" -> SheetSizeChoices
    [] screen = "materialMapping" -> MaterialMappingChoices
    [] screen = "settings" -> SettingsChoices
    [] screen = "materials" -> MaterialsChoices
    [] screen = "shippingCost" -> ShippingChoices
    [] screen = "printingCost" -> PrintingChoices

\* A cost screen ignores every action while it saves, and its two selects
\* are off while it loads.
ConfirmNavigation(a) ==
  /\ mounted /\ dialog = Nothing
  /\ a \in NavigationChoices \ {tenant, market}
  /\ a \in Tenants => listed
  /\ screen \in Costs => ~save.on /\ (loading => a = Leave)
  /\ IF Dirty
     THEN /\ dialog' = a
          /\ UNCHANGED <<mounted, tenant, market, calls, counts>>
     ELSE /\ Goes(a, FALSE)
          /\ UNCHANGED dialog
  /\ UNCHANGED <<screen, draft, base, ticked, save, database, history>>

\* The market of the sheet sizes and of the material mapping changes freely.
PickMarket(m) ==
  /\ screen \in PerMarket
  /\ mounted /\ dialog = Nothing
  /\ m # market
  /\ moves < MaxMoves
  /\ moves' = moves + 1
  /\ draft[<<m, IF screen = "sheetSize" THEN "size" ELSE "codes">>].of # NoTenant
  /\ market' = m
  /\ UNCHANGED <<screen, mounted, tenant, draft, base, ticked, calls, save, dialog,
                 database, edits, errors, history>>

DialogOpen == mounted /\ dialog # Nothing /\ (screen \in Costs => ~save.on)

Stay ==
  /\ DialogOpen
  /\ dialog' = Nothing
  /\ UNCHANGED <<screen, shown, calls, save, database, counts, history>>

\* A cost screen loads its data again; the shipping screen's rates, which
\* follow the rates it has loaded, are back at once.
Discard ==
  /\ DialogOpen
  /\ dialog' = Nothing
  /\ dropped' = dropped \cup {f \in Fields : Unsaved(f)}
  /\ Goes(dialog, screen \in Costs)
  /\ draft' = [f \in Fields |-> IF screen = "shippingCost" /\ f[2] = "rate" THEN base[f] ELSE draft[f]]
  /\ UNCHANGED <<screen, base, ticked, save, database, late, written, overtaken, blind>>

DialogSave ==
  /\ DialogOpen
  /\ HandleSave(dialog)

DraftNext ==
  \/ TenantsAnswer \/ LoadReads \/ SettingsSync \/ LoadFails
  \/ LoadSheetSizes \/ LoadMaterialMappings \/ LoadSettings
  \/ LoadMaterials \/ LoadShippingCosts \/ LoadPrintingCosts
  \/ \E t \in Tenants : StaleLoadAnswers(t)
  \/ EditSheetSize \/ EditMaterialMapping \/ EditSettings \/ EditMaterials
  \/ EditShippingRate \/ EditShippingRow
  \/ EditPosterCost \/ EditPrintingRow \/ EditCustomCost \/ UpdateCustomPrintCostFlag
  \/ SaveButton \/ DialogSave \/ SaveAnswered \/ SaveFails \/ SaveOutlivesScreen
  \/ \E a \in {Leave} \cup Tenants \cup Markets : ConfirmNavigation(a)
  \/ \E m \in Markets : PickMarket(m)
  \/ Stay \/ Discard

DraftSpec == Init /\ [][DraftNext]_draftVars

-----------------------------------------------------------------------------

\* An edit that no save has stored stays on the screen until it is typed over,
\* unless the user discarded it, it was typed while an answer was out that
\* replaces the rows, the screen saved its one market and went away, or the
\* sheet names had nothing loaded to compare it with.
EditsAreKept ==
  [][\A f \in Fields :
       /\ Unsaved(f) /\ mounted
       /\ draft'[f] # draft[f] \/ ~mounted'
       /\ draft[f].n \notin written'
       =>
         \/ draft'[f].n = edits' /\ edits' > edits
         \/ f \in late \cup dropped \cup dropped'
         \/ screen = "settings" /\ base[f].of = NoTenant]_draftVars

\* A tenant's settings hold that tenant's rows: those of another tenant, or
\* the blank rows of a screen that loaded nothing, are only stored by a save
\* made before the tenant's own data was on the screen.
StoredIsOwn == \A t \in Tenants : t \notin blind => \A f \in Fields : database[t][f].of = t
=============================================================================
