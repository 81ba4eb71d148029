----------------------------- MODULE MarketPlan -----------------------------
(***************************************************************************)
(* The market plan of the campaign editor (QuoteBuilderScreen): the        *)
(* markets and their assets, the dialog in which a market is drafted, the  *)
(* effects that fill in what the user left open (weeks in range, delivery  *)
(* addresses, default material rows), and the two debounced calculations,  *)
(* one of the whole campaign and one of the market being drafted.          *)
(*                                                                         *)
(* One sheet format stands for the nine.  An event and the effects React   *)
(* flushes before the next event are one step; what waits for a timer or   *)
(* for the server is a step of its own.                                    *)
(***************************************************************************)
EXTENDS Naturals, Sequences, FiniteSets, FiniteSetsExt, SequencesExt

CONSTANTS
  Names,       \* the market names of the calculator metadata
  Catalogue,   \* the assets a market may plan, as [Names -> SUBSET of asset ids]
  PerWeek,     \* posters an asset needs per active week, by asset id
  Divisor,     \* posters per frame of the format
  Addresses,   \* delivery addresses
  Preferred,   \* the preferred one of each market, or None
  Latest,      \* by market: the one saved address that has the contact of another address
  Typed,       \* addresses typed in the address dialog
  Starts,      \* how the editor may start: TRUE a new campaign, FALSE the stored campaign
  Stored,      \* the markets of that stored campaign
  StoredWeeks, \* its number of weeks
  LastId,      \* and the last of the ids it uses
  None,        \* nothing chosen: no asset, no address, no summary, no override
  MaxWeeks,    \* MAX_CAMPAIGN_WEEKS
  MaxAssets,   \* bound: assets of a market
  MaxEdits,    \* bound: edits by the user
  MaxStale,    \* bound: superseded calculations still under way
  MaxFaults    \* bound: calculations that fail

AllAssets == UNION {Catalogue[n] : n \in Names}

ASSUME PlanAssumption ==
  /\ Divisor \in Nat \ {0} /\ MaxWeeks \in Nat \ {0} /\ StoredWeeks \in 1 .. MaxWeeks
  /\ PerWeek \in [AllAssets -> Nat] /\ Starts \subseteq BOOLEAN
  /\ {LastId, MaxAssets, MaxEdits, MaxStale, MaxFaults} \subseteq Nat
  /\ None \notin Nat /\ None \notin Addresses /\ None \notin {<<>>} \cup Names

\* An address whose contact has exactly one saved address becomes that one.
Refreshed(n, addr) == IF addr \in DOMAIN Latest[n] THEN Latest[n][addr] ELSE addr

\* Latest and Preferred are read off one list: the one saved address of a contact
\* is not outdated itself, and neither is the preferred one, which is saved.
ASSUME AddressAssumption ==
  /\ Typed \subseteq Addresses /\ Preferred \in [Names -> Addresses \cup {None}]
  /\ \A n \in Names :
       /\ DOMAIN Latest[n] \subseteq Addresses /\ Latest[n] \in [DOMAIN Latest[n] -> Addresses]
       /\ \A addr \in {Preferred[n]} \cup {Latest[n][old] : old \in DOMAIN Latest[n]} :
            Refreshed(n, addr) = addr

\* An asset and a market of a plan that uses the ids up to n.
AssetType(n) ==
  [id: 0 .. n, asset: AllAssets \cup {None}, weeks: SUBSET (1 .. MaxWeeks),
   addr: Addresses \cup {None}, over: Nat \cup {None}, rows: Nat \cup {None}]
MarketType(n) == [id: 0 .. n, name: Names, over: Nat \cup {None}, assets: Seq(AssetType(n))]

\* Ids and market names occur once.
Apart(s) == \A i, j \in DOMAIN s : i # j => s[i].id # s[j].id
Distinct(ms) ==
  /\ Apart(ms) /\ \A i \in DOMAIN ms : Apart(ms[i].assets)
  /\ \A i, j \in DOMAIN ms : i # j => ms[i].name # ms[j].name

\* The stored campaign was written by this editor.
ASSUME StoredAssumption == Stored \in Seq(MarketType(LastId)) /\ Distinct(Stored)

VARIABLES
  weeks,    \* values.numberOfWeeks, clamped
  markets,  \* values.campaignMarkets
  draft,    \* draftMarket, the market it edits, and what was calculated for it
  summary,  \* the summary on screen: the posters of each line, or None
  calc,     \* the calculation effect of the campaign: idle, timer or sent, and of what
  dcalc,    \* the calculation effect of the draft
  stale,    \* the lines of calculations sent by an effect that was cleaned up since
  loads,    \* what the editor loads by itself: metadata, addresses, materials
  flow,     \* managed: marketPopupManagedFlow; saved: hasSavedMarketViaPopup
  failed,   \* the last calculation of the campaign failed
  kept,     \* history: <<asset, address>> that was in the dialog before the address
            \* list had arrived, or that the user chose since
  edits, faults, ids  \* counters: edits, failures, ids handed out

vars == <<weeks, markets, draft, summary, calc, dcalc, stale, loads, flow,
          failed, kept, edits, faults, ids>>

AssetsOf(ms) == UNION {ToSet(m.assets) : m \in ToSet(ms)}

-----------------------------------------------------------------------------
(* The calculator.                                                         *)

Sized(a)   == a.asset \in AllAssets /\ a.weeks # {}
Posters(a) == IF a.over # None THEN a.over ELSE PerWeek[a.asset] * Cardinality(a.weeks)

Total(q) ==
  LET sum[i \in 0 .. Len(q)] == IF i = 0 THEN 0 ELSE sum[i - 1] + q[i] IN sum[Len(q)]

\* A market-level poster count, shared out by the quantities the lines have; when
\* they have none, the first line gets it.
Distribute(q, lines, target) ==
  LET total == Total(q)
      base  == [i \in DOMAIN q |-> (q[i] * target) \div total]
      rest  == [i \in DOMAIN q |-> (q[i] * target) % total]
      rank  == [i \in DOMAIN q |-> Cardinality({j \in DOMAIN q :
                  rest[j] > rest[i] \/ (rest[j] = rest[i] /\ j < i)})]
  IN IF total = 0 THEN [i \in DOMAIN q |-> IF \A j \in lines : i <= j THEN target ELSE 0]
     ELSE [i \in DOMAIN q |-> base[i] + IF rank[i] < target - Total(base) THEN 1 ELSE 0]

\* The lines of one market: the posters of each asset that has a line.
MarketLines(m) ==
  LET lines == {k \in DOMAIN m.assets : Sized(m.assets[k])}
      own   == [k \in DOMAIN m.assets |-> IF k \in lines THEN Posters(m.assets[k]) ELSE 0]
      q     == IF m.over = None THEN own ELSE Distribute(own, lines, m.over)
  IN {[id |-> m.assets[k].id, q |-> q[k]] : k \in lines}

Lines(ms) == UNION {MarketLines(m) : m \in ToSet(ms)}
LineIds(ls) == {l.id : l \in ls}
Quantity(ls, id) == (CHOOSE l \in ls : l.id = id).q

\* Frames of a poster count: at least one.
Frames(q) == LET f == (q + Divisor - 1) \div Divisor IN IF f < 1 THEN 1 ELSE f

-----------------------------------------------------------------------------
(* What the editor fills in by itself.                                     *)

\* Assets with posters and no material row of their own get one row of all frames.
WithRows(ms, ls) ==
  [i \in DOMAIN ms |-> [ms[i] EXCEPT !.assets = [k \in DOMAIN ms[i].assets |->
     LET a == ms[i].assets[k] IN
     IF a.rows = None /\ a.id \in LineIds(ls) /\ Quantity(ls, a.id) > 0
     THEN [a EXCEPT !.rows = Frames(Quantity(ls, a.id))] ELSE a]]]

RowsReady == loads.materials = "ok"

\* Empty addresses become the preferred one of the market.
WithAddresses(ms) ==
  [i \in DOMAIN ms |-> [ms[i] EXCEPT !.assets = [k \in DOMAIN ms[i].assets |->
     LET a == ms[i].assets[k] IN
     IF a.addr = None THEN [a EXCEPT !.addr = Preferred[ms[i].name]] ELSE a]]]

WithLatest(ms) ==
  [i \in DOMAIN ms |-> [ms[i] EXCEPT !.assets = [k \in DOMAIN ms[i].assets |->
     [ms[i].assets[k] EXCEPT !.addr = Refreshed(ms[i].name, @)]]]]

\* Weeks out of range go.
InRange(ms, n) ==
  [i \in DOMAIN ms |-> [ms[i] EXCEPT !.assets = [k \in DOMAIN ms[i].assets |->
     [ms[i].assets[k] EXCEPT !.weeks = @ \cap 1 .. n]]]]

PreferredOf(n) == IF loads.addresses = "ok" THEN Preferred[n] ELSE None

-----------------------------------------------------------------------------
(* The two calculation effects.                                            *)

Idle == [st |-> "idle", of |-> {}]
NoDraft == [open |-> FALSE, market |-> None, editing |-> None, lines |-> {}, shown |-> FALSE]

\* The cleanup of the campaign's effect: a call that was sent goes on, unheeded.
\* (So does one of the draft's effect; nothing depends on its answer.)
Superseded == IF calc.st = "sent" /\ Cardinality(stale) < MaxStale THEN {calc.of} ELSE {}

\* What the draft's effect calculates: the campaign with the draft in its place.
DraftOf(d) == MarketLines(d.market)

CanCalculate == loads.metadata = "ok"

\* values.campaignMarkets has become ms, and the draft d: both effects run again.
Restart(ms, d) ==
  /\ calc' = IF ms = <<>> \/ ~CanCalculate THEN Idle ELSE [st |-> "timer", of |-> Lines(ms)]
  /\ dcalc' = IF d.open /\ CanCalculate THEN [st |-> "timer", of |-> DraftOf(d)] ELSE Idle
  /\ stale' = stale \cup Superseded
  /\ summary' = IF ms = <<>> /\ CanCalculate THEN None ELSE summary
  /\ failed' = IF ms = <<>> /\ CanCalculate THEN FALSE ELSE failed

\* The plan is replaced, the draft becomes d.
Commit(ms, d) == /\ markets' = ms /\ draft' = d /\ Restart(ms, d)

\* What the dialog holds is out of the reach of the address list to come.
Addressed(as) == {<<a.id, a.addr>> : a \in as}
Early(d) == IF loads.addresses = "loading" /\ d.open THEN Addressed(ToSet(d.market.assets)) ELSE {}

\* Only the draft changes: the campaign's own calculation goes on.
Redraft(d) ==
  /\ draft' = d /\ kept' = kept \cup Early(d)
  /\ dcalc' = IF d.open /\ CanCalculate THEN [st |-> "timer", of |-> DraftOf(d)] ELSE Idle
  /\ UNCHANGED <<markets, calc, stale, summary, failed>>

UpdateDraftMarket(m) == Redraft([draft EXCEPT !.market = m])

\* The debounce of 250 ms is over: the lines go to the server.
CalcFires ==
  /\ calc.st = "timer"
  /\ calc' = [calc EXCEPT !.st = "sent"]
  /\ UNCHANGED <<weeks, markets, draft, summary, dcalc, stale, loads, flow, failed,
                 kept, edits, faults, ids>>

DraftFires ==
  /\ dcalc.st = "timer"
  /\ dcalc' = [dcalc EXCEPT !.st = "sent"]
  /\ UNCHANGED <<weeks, markets, draft, summary, calc, stale, loads, flow, failed,
                 kept, edits, faults, ids>>

\* A summary arrives, and with it the default material rows: they change the
\* plan, which starts the calculation once more.
Shown(ls) ==
  LET ms == IF RowsReady THEN WithRows(markets, ls) ELSE markets IN
  /\ summary' = ls /\ failed' = FALSE
  /\ markets' = ms
  /\ calc' = IF ms = markets THEN Idle ELSE [st |-> "timer", of |-> Lines(ms)]
  /\ dcalc' = IF ms = markets \/ ~draft.open THEN dcalc
              ELSE [st |-> "timer", of |-> DraftOf(draft)]

CalcAnswered ==
  /\ calc.st = "sent"
  /\ Shown(calc.of)
  /\ UNCHANGED <<weeks, draft, stale, loads, flow, kept, edits, faults, ids>>

\* The message of the server is shown; the summary on screen stays.
CalcFails ==
  /\ calc.st = "sent" /\ faults < MaxFaults
  /\ calc' = Idle /\ failed' = TRUE /\ faults' = faults + 1
  /\ UNCHANGED <<weeks, markets, draft, summary, dcalc, stale, loads, flow,
                 kept, edits, ids>>

DraftAnswered ==
  /\ dcalc.st = "sent"
  /\ draft' = [draft EXCEPT !.lines = dcalc.of,
                            !.shown = draft.market.name \in Names]
  /\ dcalc' = Idle
  /\ UNCHANGED <<weeks, markets, summary, calc, stale, loads, flow, failed,
                 kept, edits, faults, ids>>

DraftFails ==
  /\ dcalc.st = "sent" /\ faults < MaxFaults
  /\ dcalc' = Idle /\ faults' = faults + 1
  /\ draft' = [draft EXCEPT !.lines = {}, !.shown = FALSE]
  /\ UNCHANGED <<weeks, markets, summary, calc, stale, loads, flow, failed,
                 kept, edits, ids>>

\* Bug of StaleAnswered: the answer of a superseded effect is shown.
BugStaleAnswered(c) ==
  /\ stale' = stale \ {c}
  /\ Shown(c)
  /\ UNCHANGED <<weeks, draft, loads, flow, kept, edits, faults, ids>>

\* The answer of a superseded effect: "if (!active) return".
StaleAnswered(c) ==
  /\ stale' = stale \ {c}
  /\ UNCHANGED <<weeks, markets, draft, summary, calc, dcalc, loads, flow, failed,
                 kept, edits, faults, ids>>

-----------------------------------------------------------------------------
(* Loading.                                                                *)

PlanInit == \E fresh \in Starts :
  /\ weeks = IF fresh THEN MaxWeeks ELSE StoredWeeks
  /\ markets = IF fresh THEN <<>> ELSE Stored
  /\ draft = NoDraft /\ summary = None /\ calc = Idle /\ dcalc = Idle /\ stale = {}
  /\ loads = [metadata |-> "loading", addresses |-> "loading", materials |-> "loading"]
  /\ flow = [managed |-> fresh, saved |-> ~fresh]
  /\ failed = FALSE /\ kept = {} /\ edits = 0 /\ faults = 0 /\ ids = LastId

\* The calculator metadata arrives: markets can be added, the plan and the draft are calculated.
LoadMetadata ==
  /\ loads.metadata = "loading"
  /\ loads' = [loads EXCEPT !.metadata = "ok"]
  /\ calc' = IF markets = <<>> THEN Idle ELSE [st |-> "timer", of |-> Lines(markets)]
  /\ dcalc' = IF draft.open THEN [st |-> "timer", of |-> DraftOf(draft)] ELSE Idle
  /\ UNCHANGED <<weeks, markets, draft, summary, stale, flow, failed, kept, edits, faults, ids>>

\* The address list arrives: the assets of the plan get theirs, the draft does not.
LoadAddresses ==
  LET ms == WithLatest(WithAddresses(markets)) IN
  /\ loads.addresses = "loading"
  /\ loads' = [loads EXCEPT !.addresses = "ok"]
  /\ IF ms = markets THEN UNCHANGED <<markets, draft, calc, dcalc, stale, summary, failed>>
     ELSE Commit(ms, draft)
  /\ UNCHANGED <<weeks, flow, kept, edits, faults, ids>>

\* Bug of LoadMaterials: the rows wait for the next summary.
BugLoadMaterials ==
  /\ loads.materials = "loading"
  /\ loads' = [loads EXCEPT !.materials = "ok"]
  /\ UNCHANGED <<weeks, markets, draft, calc, dcalc, stale, summary, flow, failed,
                 kept, edits, faults, ids>>

\* The materials arrive: default rows for the lines the summary already has.
LoadMaterials ==
  LET ms == IF summary = None THEN markets ELSE WithRows(markets, summary) IN
  /\ loads.materials = "loading"
  /\ loads' = [loads EXCEPT !.materials = "ok"]
  /\ IF ms = markets THEN UNCHANGED <<markets, draft, calc, dcalc, stale, summary, failed>>
     ELSE Commit(ms, draft)
  /\ UNCHANGED <<weeks, flow, kept, edits, faults, ids>>

-----------------------------------------------------------------------------
(* The draft dialog.                                                       *)

NewAsset(id, asset, name) ==
  [id |-> id, asset |-> asset, weeks |-> {}, addr |-> PreferredOf(name),
   over |-> None, rows |-> None]

\* Markets the dialog offers: a new campaign's first market may be any.
Taken == IF flow.managed /\ ~flow.saved THEN {} ELSE {m.name : m \in ToSet(markets)}
Remaining == IF loads.metadata = "ok" THEN Names \ Taken ELSE {}

Edit == edits < MaxEdits /\ edits' = edits + 1

OpenAddMarketDialog ==
  /\ ~draft.open /\ Remaining # {} /\ Edit
  /\ \E n \in Remaining :
       Redraft([open |-> TRUE, editing |-> None, lines |-> {}, shown |-> FALSE,
                market |-> [id |-> ids + 1, name |-> n, over |-> None,
                            assets |-> <<NewAsset(ids + 2, None, n)>>]])
  /\ ids' = ids + 2
  /\ UNCHANGED <<weeks, loads, flow, faults>>

OpenEditMarketDialog(i) ==
  /\ ~draft.open /\ Edit
  /\ Redraft([open |-> TRUE, editing |-> markets[i].id, lines |-> {}, shown |-> FALSE,
              market |-> markets[i]])
  /\ UNCHANGED <<weeks, loads, flow, faults, ids>>

\* Bug of DraftMarket: the assets keep the address of the market they had.
BugDraftMarket(n) ==
  /\ draft.open /\ n \in Remaining \cup {draft.market.name} /\ Edit
  /\ UpdateDraftMarket([draft.market EXCEPT !.name = n, !.over = None,
       !.assets = [k \in DOMAIN @ |-> [@[k] EXCEPT !.asset = None, !.weeks = {},
                     !.over = None, !.addr = None]]])
  /\ UNCHANGED <<weeks, loads, flow, faults, ids>>

\* Another market is chosen: its assets start anew, artwork rows stay.
DraftMarket(n) ==
  /\ draft.open /\ n \in Remaining \cup {draft.market.name} /\ Edit
  /\ UpdateDraftMarket([draft.market EXCEPT !.name = n, !.over = None,
       !.assets = [k \in DOMAIN @ |-> [@[k] EXCEPT !.asset = None, !.weeks = {},
                     !.over = None, !.addr = PreferredOf(n)]]])
  /\ UNCHANGED <<weeks, loads, flow, faults, ids>>

\* One asset of the draft changes.
UpdateDraftAsset(k, a) ==
  /\ draft.open /\ Edit
  /\ UpdateDraftMarket([draft.market EXCEPT !.assets[k] = a])
  /\ UNCHANGED <<weeks, loads, flow, faults, ids>>

DraftAsset(k) == \E a \in Catalogue[draft.market.name] :
  UpdateDraftAsset(k, [draft.market.assets[k] EXCEPT !.asset = a, !.over = None])

ToggleDraftAssetWeek(k) == \E w \in 1 .. weeks :
  UpdateDraftAsset(k, [draft.market.assets[k] EXCEPT
                         !.weeks = IF w \in @ THEN @ \ {w} ELSE @ \cup {w}])

\* Bug of UpdateDraftAssetFrameOverride: a market's count is dropped without
\* giving the other assets the posters they had of it.
BugUpdateDraftAssetFrameOverride(k) ==
  /\ draft.open /\ draft.shown /\ Edit
  /\ \E f \in 0 .. 1 :
       UpdateDraftMarket([draft.market EXCEPT !.over = None, !.assets = [j \in DOMAIN @ |->
         IF j = k THEN [@[j] EXCEPT !.over = f * Divisor] ELSE @[j]]])
  /\ UNCHANGED <<weeks, loads, flow, faults, ids>>

\* Frames are typed for one asset: its posters are set, and a market-level
\* count becomes the posters each asset has in the lines last calculated.
UpdateDraftAssetFrameOverride(k) ==
  /\ draft.open /\ draft.shown /\ Edit
  /\ \E f \in 0 .. 1 :
       UpdateDraftMarket([draft.market EXCEPT !.over = None, !.assets = [j \in DOMAIN @ |->
         IF j = k THEN [@[j] EXCEPT !.over = f * Divisor]
         ELSE IF draft.market.over # None /\ @[j].id \in LineIds(draft.lines)
              THEN [@[j] EXCEPT !.over = Quantity(draft.lines, draft.market.assets[j].id)]
              ELSE @[j]]])
  /\ UNCHANGED <<weeks, loads, flow, faults, ids>>

AddDraftAsset ==
  /\ draft.open /\ Catalogue[draft.market.name] # {}
  /\ Len(draft.market.assets) < MaxAssets /\ Edit
  /\ \E a \in Catalogue[draft.market.name] :
       UpdateDraftMarket([draft.market EXCEPT
                            !.assets = Append(@, NewAsset(ids + 1, a, draft.market.name))])
  /\ ids' = ids + 1
  /\ UNCHANGED <<weeks, loads, flow, faults>>

RemoveDraftAsset(k) ==
  /\ draft.open /\ Len(draft.market.assets) > 1 /\ Edit
  /\ UpdateDraftMarket([draft.market EXCEPT !.assets = RemoveAt(@, k)])
  /\ UNCHANGED <<weeks, loads, flow, faults, ids>>

\* The asset at k is dragged to where j is.
ReorderDraftAssets(k, j) ==
  /\ draft.open /\ k # j /\ Edit
  /\ UpdateDraftMarket([draft.market EXCEPT !.assets = InsertAt(RemoveAt(@, k), j, @[k])])
  /\ UNCHANGED <<weeks, loads, flow, faults, ids>>

CancelDraft ==
  /\ draft.open
  /\ Redraft(NoDraft)
  /\ UNCHANGED <<weeks, loads, flow, edits, faults, ids>>

\* The plan with the draft saved: in the place of the market it edits, at the
\* end when that one is gone, or as the first market of a new campaign.
SavedMarkets ==
  LET others == {m \in ToSet(markets) : m.id # draft.editing}
      at == {i \in DOMAIN markets : markets[i].id = draft.editing}
  IN IF draft.editing # None
     THEN IF draft.market.name \in {m.name : m \in others} THEN markets
          ELSE IF at # {}
          THEN [i \in DOMAIN markets |-> IF i \in at THEN draft.market ELSE markets[i]]
          ELSE Append(markets, draft.market)
     ELSE IF draft.market.name \in Taken THEN markets
     ELSE IF flow.managed /\ ~flow.saved THEN <<draft.market>> ELSE Append(markets, draft.market)

\* Bug of HandleSaveAddMarket: the new campaign is not marked as having a market.
BugHandleSaveAddMarket ==
  /\ draft.open /\ (draft.editing # None \/ Remaining # {})
  /\ Commit(SavedMarkets, NoDraft)
  /\ UNCHANGED <<weeks, loads, flow, kept, edits, faults, ids>>

HandleSaveAddMarket ==
  /\ draft.open /\ (draft.editing # None \/ Remaining # {})
  /\ Commit(SavedMarkets, NoDraft)
  /\ flow' = [flow EXCEPT !.saved = TRUE]
  /\ UNCHANGED <<weeks, loads, kept, edits, faults, ids>>

-----------------------------------------------------------------------------
(* The plan outside the dialog.                                            *)

HandleDeleteMarket(i) ==
  /\ ~draft.open /\ Edit
  /\ Commit(RemoveAt(markets, i), draft)
  /\ flow' = [flow EXCEPT !.saved = @ /\ Len(markets) > 1]
  /\ UNCHANGED <<weeks, loads, kept, faults, ids>>

\* The number of weeks changes; what is out of range goes, for good.
UpdateWeekCount(n) ==
  LET ms == InRange(markets, n) IN
  /\ ~draft.open /\ n # weeks /\ Edit
  /\ weeks' = n
  /\ IF ms = markets THEN UNCHANGED <<markets, draft, calc, dcalc, stale, summary, failed>>
     ELSE Commit(ms, draft)
  /\ UNCHANGED <<loads, flow, kept, faults, ids>>

\* A due date is typed: the plan is written again with the same assets.
UpdateCampaignMarket ==
  /\ ~draft.open /\ markets # <<>> /\ Edit
  /\ Commit(markets, draft)
  /\ UNCHANGED <<weeks, loads, flow, kept, faults, ids>>

\* A delivery address is chosen among the saved ones and those the market has, or
\* typed in the dialog; the list is not asked again.
SaveAddress(i, k) ==
  /\ ~draft.open /\ Edit
  /\ \E addr \in (Typed \cup {PreferredOf(markets[i].name)}
                        \cup {a.addr : a \in ToSet(markets[i].assets)}) \ {None} :
       /\ Commit([markets EXCEPT ![i].assets[k].addr = addr], draft)
       /\ kept' = IF loads.addresses = "ok" THEN kept \cup {<<markets[i].assets[k].id, addr>>}
                  ELSE kept
  /\ UNCHANGED <<weeks, loads, flow, faults, ids>>

-----------------------------------------------------------------------------
PlanNext ==
  \/ LoadMetadata \/ LoadAddresses \/ LoadMaterials
  \/ CalcFires \/ CalcAnswered \/ CalcFails
  \/ DraftFires \/ DraftAnswered \/ DraftFails
  \/ \E c \in stale : StaleAnswered(c)
  \/ OpenAddMarketDialog \/ CancelDraft \/ HandleSaveAddMarket \/ AddDraftAsset
  \/ \E i \in DOMAIN markets : OpenEditMarketDialog(i) \/ HandleDeleteMarket(i)
  \/ \E n \in Names : DraftMarket(n)
  \/ draft.open /\ \E k \in DOMAIN draft.market.assets :
       \/ DraftAsset(k) \/ ToggleDraftAssetWeek(k) \/ RemoveDraftAsset(k)
       \/ UpdateDraftAssetFrameOverride(k)
       \/ \E j \in DOMAIN draft.market.assets : ReorderDraftAssets(k, j)
  \/ \E i \in DOMAIN markets : \E k \in DOMAIN markets[i].assets : SaveAddress(i, k)
  \/ \E n \in 1 .. MaxWeeks : UpdateWeekCount(n)
  \/ UpdateCampaignMarket

PlanSpec == PlanInit /\ [][PlanNext]_vars

-----------------------------------------------------------------------------
(* Properties.                                                             *)

\* When no calculation is due or under way and the last one did not fail, the
\* summary on screen is that of the plan on screen: answers that arrive out of
\* order, after the effect that asked for them was cleaned up, change nothing.
SummaryOfThePlan ==
  (calc = Idle /\ CanCalculate /\ ~failed) =>
    IF markets = <<>> THEN summary = None ELSE summary = Lines(markets)

\* And every line of that summary has its material rows, whichever of the
\* summary and the materials came last and whatever draft was saved in between.
RowsOfEveryLine ==
  (calc = Idle /\ RowsReady /\ summary # None /\ ~failed) =>
    \A a \in AssetsOf(markets) :
      (a.id \in LineIds(summary) /\ Quantity(summary, a.id) > 0) => a.rows # None

\* Once the address list has arrived, every asset of a market with a preferred
\* address has one, and none has the outdated address of a known contact, but for
\* what was in the dialog before the list came or what the user chose since.
AddressesCurrent ==
  loads.addresses = "ok" =>
    \A m \in ToSet(markets) : \A a \in ToSet(m.assets) :
      \/ a.addr = None /\ Preferred[m.name] = None
      \/ a.addr # None /\ Refreshed(m.name, a.addr) = a.addr
      \/ <<a.id, a.addr>> \in kept

\* Saving a draft keeps every other market of the plan as it is, and no two
\* markets of the plan come to have one name.
SavingKeepsTheOthers ==
  [][(draft.open /\ ~draft'.open) =>
       /\ \A m \in ToSet(markets) : m.id # draft.editing => m \in ToSet(markets')
       /\ \A i, j \in DOMAIN markets' : i # j => markets'[i].name # markets'[j].name]_vars

\* With the draft's lines up to date, typing the frames of one asset leaves the
\* posters of every other asset what they were, even if they came out of a
\* count set for the whole market.
FramesOfOneAsset ==
  [][\A k \in 1 .. MaxAssets :
       (/\ draft.shown /\ dcalc = Idle /\ dcalc' # Idle
        /\ k \in DOMAIN draft.market.assets /\ UpdateDraftAssetFrameOverride(k)) =>
         \A l \in MarketLines(draft.market) :
           l.id # draft.market.assets[k].id => l \in MarketLines(draft'.market)]_vars

=============================================================================
