----------------------- MODULE SettingsScreensProofs ------------------------
(***************************************************************************)
(* The inductive invariants of DraftScreens and of RecordScreens, and what *)
(* follows from them for any tenants, markets and bounds.                  *)
(*                                                                         *)
(* A draft: DraftInv follows every edit that no save has stored.  It is    *)
(* touched or was given up; while a load is out, whose answer will replace *)
(* it, it is one that the property excepts; and while a save is out it is  *)
(* in one of the calls to come, under the value that is on the screen.     *)
(* The rows that are stored, read, shown and sent are of one tenant each,  *)
(* which is why none reaches the settings of another.                      *)
(*                                                                         *)
(* A list of records is not the table while an answer is out.  RecordInv   *)
(* says what it will be after the answers to come: Effect is what the      *)
(* answer of the save makes of a set of records, Less what that of the     *)
(* deletion makes of it, and the two commute.                              *)
(***************************************************************************)
EXTENDS DraftScreens, RecordScreens, SequenceTheorems, FiniteSetTheorems, WellFoundedInduction, TLAPS

\* Induction, with a set in the place of the property: what holds of 0 and goes
\* from each number to the next holds of every number.
LEMMA FromZero ==
  ASSUME NEW S, 0 \in S, \A n \in Nat : n \in S => n + 1 \in S
  PROVE  Nat \subseteq S
<1> DEFINE T == Nat \ S
<1>1. SUFFICES ASSUME T # {} PROVE FALSE
  BY <1>1
<1>2. PICK x \in T : \A y \in T : ~(<<y, x>> \in OpToRel(<, Nat))
  BY <1>1, NatLessThanWellFounded, WFMin, T \subseteq Nat
<1>3. x # 0 /\ x \in Nat
  OBVIOUS
<1>4. x - 1 \in Nat /\ x - 1 < x /\ (x - 1) + 1 = x
  BY <1>3
<1>5. x - 1 \in T
  BY <1>4
<1>6. <<x - 1, x>> \in OpToRel(<, Nat)
  BY <1>3, <1>4 DEF OpToRel
<1>. QED
  BY <1>2, <1>5, <1>6

\* s is b, and then what a step makes, for each of 1 .. len, of the one before.
Iterated(s, b, len, step) == s[0] = b /\ \A i \in 1 .. len : s[i] = step[<<s[i - 1], i>>]

\* There is such an s.
LEMMA Iterates ==
  ASSUME NEW S, NEW b \in S, NEW len \in Nat, NEW step \in [S \X (1 .. len) -> S]
  PROVE  \E s \in [0 .. len -> S] : Iterated(s, b, len, step)
<1> USE DEF Iterated
<1> DEFINE Upto(s, n) == s[0] = b /\ \A i \in 1 .. n : s[i] = step[<<s[i - 1], i>>]
<1> DEFINE N == {n \in Nat : n <= len => \E s \in [0 .. n -> S] : Upto(s, n)}
<1>1. 0 \in N
  <2>1. [i \in 0 .. 0 |-> b] \in [0 .. 0 -> S] /\ Upto([i \in 0 .. 0 |-> b], 0)
    OBVIOUS
  <2>. QED
    BY <2>1
<1>2. ASSUME NEW n \in Nat, n \in N PROVE n + 1 \in N
  <2>1. SUFFICES ASSUME n + 1 <= len PROVE \E s \in [0 .. n + 1 -> S] : Upto(s, n + 1)
    <3> HIDE DEF Upto
    <3>. QED
      OBVIOUS
  <2>2. PICK s \in [0 .. n -> S] : Upto(s, n)
    <3> HIDE DEF Upto
    <3>. QED
      BY <1>2, <2>1
  <2> DEFINE t == [i \in 0 .. n + 1 |-> IF i = n + 1 THEN step[<<s[n], n + 1>>] ELSE s[i]]
  <2>3. n + 1 \in 1 .. len /\ s[n] \in S /\ <<s[n], n + 1>> \in S \X (1 .. len)
    BY <2>1
  <2>4. step[<<s[n], n + 1>>] \in S
    BY <2>3
  <2>5. t \in [0 .. n + 1 -> S]
    BY <2>4
  <2>6. t[0] = b
    BY <2>2
  <2>7. ASSUME NEW i \in 1 .. n + 1 PROVE t[i] = step[<<t[i - 1], i>>]
    <3>1. CASE i = n + 1
      <4>1. t[n + 1] = step[<<s[n], n + 1>>] /\ t[n] = s[n] /\ i - 1 = n
        BY <3>1
      <4>. QED
        BY <3>1, <4>1
    <3>2. CASE i \in 1 .. n
      <4>1. t[i] = s[i] /\ t[i - 1] = s[i - 1]
        BY <3>2
      <4>. QED
        BY <2>2, <3>2, <4>1
    <3>. QED
      BY <3>1, <3>2
  <2>. QED
    <3> HIDE DEF t
    <3>. QED
      BY <2>5, <2>6, <2>7
<1>3. len \in N
  <2> HIDE DEF N
  <2>. QED
    BY <1>1, <1>2, FromZero
<1>. QED
  BY <1>3

-----------------------------------------------------------------------------
(* The screens with drafts: the invariant.                                 *)

\* The values a field may show, of the edits made so far.
Values == [of : Tenants \cup {NoTenant}, n : 0 .. edits]
Rows == [Fields -> Values]
SaveCall == [fields : SUBSET Fields, clears : SUBSET Fields]
Saves == [on : {TRUE}, tenant : Tenants, market : Markets, calls : Seq(SaveCall), vals : Rows,
          after : {Leave, Nothing} \cup Tenants \cup Markets]

DraftTypeInv ==
  /\ screen \in Screens /\ edits \in Nat /\ ticked \in BOOLEAN /\ mounted \in BOOLEAN
  /\ overtaken \in BOOLEAN /\ tenant \in Tenants /\ market \in Markets
  /\ dialog \in {Leave, Nothing} \cup Tenants \cup Markets
  /\ draft \in Rows /\ base \in Rows
  /\ database \in [Tenants -> Rows]
  /\ load.at \in {"sent", "read", "synced", "done", "failed"}
  /\ load = [at |-> load.at, data |-> load.data]
  /\ load.data \in Rows
  /\ save \in Saves \cup {NoSave}
  /\ save.on => save.calls # <<>>

\* Whose rows are stored, read, shown and sent.
OwnInv ==
  /\ StoredIsOwn
  /\ (load.at \in {"read", "synced"} /\ tenant \notin blind) =>
       \A f \in Fields : load.data[f].of = tenant
  /\ (load.at = "done" /\ ~overtaken /\ tenant \notin blind) =>
       \A f \in Fields : draft[f].of = tenant /\ base[f].of = tenant
  /\ (save.on /\ save.tenant \notin blind) => \A f \in Fields : save.vals[f].of = save.tenant

\* The edits that EditsAreKept excepts.
Excused(f) == f \in late \cup dropped
Bare(f) == screen = "settings" /\ base[f].of = NoTenant

\* No edit, or one that a save has stored.
Known(v) == v.n = 0 \/ v.n \in written

\* What comes from the database is known; the rates of the shipping screen, which
\* Discard puts back, too.
WrittenInv ==
  /\ \A t \in Tenants, f \in Fields : Known(database[t][f])
  /\ load.at \in {"read", "synced"} => \A f \in Fields : Known(load.data[f])
  /\ screen = "shippingCost" => \A f \in Fields : Known(base[f])

\* An unsaved edit is touched, or was given up; while a load is out, which will replace
\* it, it is excused; and a cost screen's save finds all that is touched.
ShownInv ==
  /\ \A f \in Fields : (Unsaved(f) /\ draft[f] = base[f]) => f \in dropped
  /\ Out(load) => \A f \in Fields : Unsaved(f) => Excused(f) \/ Bare(f)
  /\ (screen = "printingCost" /\ ~ticked) =>
       draft[<<NoMarket, "custom">>] = base[<<NoMarket, "custom">>]
  /\ screen = "shippingCost" =>
       \A f \in Fields : (Unsaved(f) /\ f[2] = "rate" /\ f[1] # market) => Excused(f)

\* A field is among those of the calls still to be answered, and of the first k.
InCalls(f) == \E k \in 1 .. Len(save.calls) : f \in save.calls[k].fields
InFirst(f, k) == \E j \in 1 .. k : f \in save.calls[j].fields

\* While a cost screen saves, an unsaved edit is in a call to come, as it is on the
\* screen, and no call clears what none has sent.
CostSave ==
  /\ \A f \in Fields : Unsaved(f) => Excused(f) \/ (InCalls(f) /\ save.vals[f] = draft[f])
  /\ \A k \in 1 .. Len(save.calls) : \A f \in save.calls[k].clears :
       Unsaved(f) => save.vals[f] = draft[f] /\ InFirst(f, k)

\* The other screens make one call, and what is typed over it is excused.
SnapshotSave ==
  /\ Len(save.calls) = 1
  /\ \A f \in Fields : (screen \notin PerMarket \/ f[1] = save.market) => f \in save.calls[1].fields
  /\ \A f \in save.calls[1].fields : (Unsaved(f) /\ draft[f] # save.vals[f]) => Excused(f)

SaveInv == save.on => IF screen \in Costs THEN CostSave ELSE SnapshotSave

DraftInv == DraftTypeInv /\ OwnInv /\ WrittenInv /\ ShownInv /\ SaveInv

-----------------------------------------------------------------------------
(* The fields of a screen, and rows of them.                               *)

\* A screen keeps its fields.
LEMMA FieldsStay ==
  ASSUME screen' = screen
  PROVE  Fields' = Fields /\ SaveCall' = SaveCall
BY DEF Fields, SaveCall, SheetSizeFields, MaterialMappingFields, SettingsFields, MaterialsFields,
       ShippingFields, PrintingFields, Markets

\* Rows stay rows when edits are added.
LEMMA RowsGrow ==
  ASSUME screen' = screen, edits \in Nat, edits' \in Nat, edits <= edits'
  PROVE  Rows \subseteq Rows' /\ Values \subseteq Values'
<1>1. Values \subseteq Values'
  BY DEF Values
<1>. QED
  BY <1>1, FieldsStay DEF Rows

\* A field of one row.
LEMMA RowOf ==
  ASSUME NEW r \in Rows, NEW f \in Fields
  PROVE  /\ r[f] \in Values /\ r[f].n \in 0 .. edits /\ r[f].of \in Tenants \cup {NoTenant}
         /\ r[f] = [of |-> r[f].of, n |-> r[f].n]
BY DEF Rows, Values

\* Rows are the same when their fields are.
LEMMA SameRows ==
  ASSUME NEW r \in Rows, NEW s \in Rows, \A f \in Fields : r[f] = s[f]
  PROVE  r = s
BY DEF Rows

-----------------------------------------------------------------------------
(* Steps that change what is open, selected or out.                        *)

LEMMA DraftInitInv ==
  ASSUME DraftAssumption, Init
  PROVE  DraftInv
<1>1. /\ screen \in Screens /\ mounted = TRUE /\ tenant = Home /\ market = MarketOrder[1]
      /\ draft = [f \in Fields |-> Blank] /\ base = draft /\ ticked = FALSE /\ load = Sent
      /\ save = NoSave /\ dialog = Nothing /\ edits = 0 /\ overtaken = FALSE /\ blind = {}
      /\ database = [t \in Tenants |-> [f \in Fields |-> [of |-> t, n |-> 0]]]
      /\ late = {} /\ dropped = {} /\ written = {}
  BY DEF Init
<1>2. draft \in Rows /\ base \in Rows /\ database \in [Tenants -> Rows] /\ load.data \in Rows
  BY <1>1 DEF Rows, Values, Blank, Sent
<1>3. market \in Markets /\ tenant \in Tenants
  BY <1>1 DEF DraftAssumption, Markets
<1>4. load = [at |-> load.at, data |-> load.data] /\ load.at = "sent" /\ save.on = FALSE
  BY <1>1 DEF Sent, NoSave
<1>5. DraftTypeInv
  BY <1>1, <1>2, <1>3, <1>4 DEF DraftTypeInv
<1>6. \A f \in Fields : draft[f] = Blank /\ base[f] = Blank /\ ~Unsaved(f)
  BY <1>1 DEF Unsaved, Blank
<1>7. OwnInv
  BY <1>1, <1>4 DEF OwnInv, StoredIsOwn
<1>8. WrittenInv
  BY <1>1, <1>4, <1>6 DEF WrittenInv, Known, Blank
<1>9. ShownInv
  <2>1. screen = "printingCost" => <<NoMarket, "custom">> \in Fields
    BY DEF Fields, PrintingFields
  <2>. QED
    BY <1>6, <2>1, <1>1 DEF ShownInv
<1>10. SaveInv
  BY <1>4 DEF SaveInv
<1>. QED
  BY <1>5, <1>7, <1>8, <1>9, <1>10 DEF DraftInv

\* The screen, the tenant or the market may change, a load end or begin, a save end, and
\* edits be given up: a load begins, and the shipping screen's market changes, when
\* every edit is excused.
LEMMA Moved ==
  ASSUME DraftInv, screen' = screen, base' = base, ticked' = ticked, edits' = edits,
         written' = written, database' = database, blind' = blind, overtaken' = overtaken,
         late' = late, dropped \subseteq dropped', save' \in {save, NoSave},
         mounted' \in BOOLEAN, market' \in Markets, tenant' \in Tenants,
         dialog' \in {Leave, Nothing} \cup Tenants \cup Markets,
         draft' \in Rows, save'.on => draft' = draft,
         \A f \in Fields : draft'[f] = draft[f] \/ (draft'[f] = base[f] /\ Known(base[f])),
         \/ load' = load /\ tenant' = tenant
         \/ load' = [Sent EXCEPT !.at = "failed"]
         \/ /\ load' = Sent
            /\ \A f \in Fields : Unsaved(f) => f \in late \cup dropped' \/ Bare(f),
         \/ market' = market
         \/ screen # "shippingCost"
         \/ \A f \in Fields : Unsaved(f) => f \in late \cup dropped'
  PROVE  DraftInv'
<1>0. DraftTypeInv /\ OwnInv /\ WrittenInv /\ ShownInv /\ SaveInv
  BY DEF DraftInv
<1>1. Fields' = Fields /\ SaveCall' = SaveCall /\ Rows' = Rows /\ Saves' = Saves
  <2>1. Fields' = Fields /\ SaveCall' = SaveCall
    BY FieldsStay
  <2>. QED
    BY <2>1 DEF Rows, Values, Saves
<1>2. \/ load' = load /\ tenant' = tenant
      \/ /\ load'.at \in {"failed", "sent"} /\ load'.data \in Rows
         /\ load' = [at |-> load'.at, data |-> load'.data]
         /\ load'.at = "sent" =>
              \A f \in Fields : Unsaved(f) => f \in late \cup dropped' \/ Bare(f)
  <2>1. [f \in Fields |-> Blank] \in Rows
    BY <1>0 DEF Rows, Values, Blank, DraftTypeInv
  <2>2. /\ Sent = [at |-> "sent", data |-> [f \in Fields |-> Blank]]
        /\ [Sent EXCEPT !.at = "failed"] = [at |-> "failed", data |-> [f \in Fields |-> Blank]]
    BY DEF Sent
  <2> HIDE DEF DraftInv
  <2>3. CASE load' = Sent /\ \A f \in Fields : Unsaved(f) => f \in late \cup dropped' \/ Bare(f)
    BY <2>1, <2>2, <2>3
  <2>4. CASE load' = [Sent EXCEPT !.at = "failed"]
    BY <2>1, <2>2, <2>4
  <2>. QED
    BY <2>3, <2>4
<1>3. DraftTypeInv'
  <2>1. save' \in Saves \cup {NoSave} /\ (save'.on => save'.calls # <<>>)
    BY <1>0 DEF DraftTypeInv, NoSave
  <2>2. /\ load'.at \in {"sent", "read", "synced", "done", "failed"}
        /\ load' = [at |-> load'.at, data |-> load'.data] /\ load'.data \in Rows
    BY <1>0, <1>2 DEF DraftTypeInv
  <2>. QED
    BY <1>0, <1>1, <2>1, <2>2 DEF DraftTypeInv
<1>4. \A f \in Fields : /\ Unsaved(f)' => Unsaved(f) /\ draft'[f] = draft[f]
                        /\ Bare(f)' <=> Bare(f)
                        /\ Excused(f) => Excused(f)'
  <2>1. SUFFICES ASSUME NEW f \in Fields
                 PROVE  /\ Unsaved(f)' => Unsaved(f) /\ draft'[f] = draft[f]
                        /\ Bare(f)' <=> Bare(f)
                        /\ Excused(f) => Excused(f)'
    OBVIOUS
  <2>2. base[f].n \in 0 .. edits /\ edits \in Nat
    BY <1>0, RowOf DEF DraftTypeInv
  <2>3. Known(base[f]) => ~(base[f].n > 0 /\ base[f].n \notin written)
    BY <2>2 DEF Known
  <2>4. draft'[f] = draft[f] \/ (draft'[f] = base[f] /\ Known(base[f]))
    OBVIOUS
  <2>5. Unsaved(f)' => Unsaved(f) /\ draft'[f] = draft[f]
    BY <2>3, <2>4 DEF Unsaved
  <2>. QED
    BY <2>5 DEF Bare, Excused
<1>5. OwnInv'
  <2>1. StoredIsOwn'
    BY <1>0, <1>1 DEF OwnInv, StoredIsOwn
  <2>2. (save.on' /\ save.tenant' \notin blind') => \A f \in Fields' : save'.vals[f].of = save'.tenant
    BY <1>0, <1>1 DEF OwnInv, NoSave
  <2>3. ASSUME load' = load, tenant' = tenant,
               load'.at = "done", ~overtaken', tenant' \notin blind', NEW f \in Fields'
        PROVE  draft'[f].of = tenant' /\ base'[f].of = tenant'
    <3>1. draft[f].of = tenant /\ base[f].of = tenant
      BY <1>0, <1>1, <2>3 DEF OwnInv
    <3>2. draft'[f] = draft[f] \/ draft'[f] = base[f]
      BY <1>1, <2>3
    <3>. QED
      BY <2>3, <3>1, <3>2
  <2>4. (load.at' \in {"read", "synced"} /\ tenant' \notin blind') =>
          \A f \in Fields' : load'.data[f].of = tenant'
    BY <1>0, <1>1, <1>2 DEF OwnInv
  <2>5. (load.at' = "done" /\ ~overtaken' /\ tenant' \notin blind') => (load' = load /\ tenant' = tenant)
    BY <1>2
  <2>. QED
    BY <2>1, <2>2, <2>3, <2>4, <2>5 DEF OwnInv
<1>6. WrittenInv'
  BY <1>0, <1>1, <1>2 DEF WrittenInv, Known
<1>7. ShownInv'
  <2>1. \A f \in Fields' : (Unsaved(f)' /\ draft'[f] = base'[f]) => f \in dropped'
    BY <1>0, <1>1, <1>4 DEF ShownInv
  <2>2. Out(load)' => \A f \in Fields' : Unsaved(f)' => Excused(f)' \/ Bare(f)'
    <3>1. CASE load' = load /\ tenant' = tenant
      BY <3>1, <1>0, <1>1, <1>4 DEF ShownInv, Out
    <3>2. CASE load'.at = "sent"
      BY <3>2, <1>1, <1>2, <1>4, <3>1 DEF Excused
    <3>. QED
      BY <1>2, <3>1, <3>2 DEF Out
  <2>3. (screen' = "printingCost" /\ ~ticked') =>
          draft'[<<NoMarket, "custom">>] = base'[<<NoMarket, "custom">>]
    <3>1. screen = "printingCost" => <<NoMarket, "custom">> \in Fields
      BY DEF Fields, PrintingFields
    <3>. QED
      BY <1>0, <3>1 DEF ShownInv
  <2>4. screen' = "shippingCost" =>
          \A f \in Fields' : (Unsaved(f)' /\ f[2] = "rate" /\ f[1] # market') => Excused(f)'
    BY <1>0, <1>1, <1>4 DEF ShownInv, Excused
  <2>. QED
    BY <2>1, <2>2, <2>3, <2>4 DEF ShownInv
<1>8. SaveInv'
  <2>1. SUFFICES ASSUME save'.on PROVE (IF screen \in Costs THEN CostSave ELSE SnapshotSave)'
    BY DEF SaveInv
  <2>2. save' = save /\ draft' = draft /\ save.on
    BY <2>1 DEF NoSave
  <2>3. IF screen \in Costs THEN CostSave ELSE SnapshotSave
    BY <1>0, <2>2 DEF SaveInv
  <2>4. CASE screen \in Costs
    <3>1. CostSave
      BY <2>3, <2>4
    <3>2. CostSave'
      BY <1>1, <1>4, <2>2, <3>1 DEF CostSave, InCalls, InFirst, Unsaved
    <3>. QED
      BY <2>4, <3>2
  <2>5. CASE screen \notin Costs
    <3>1. SnapshotSave
      BY <2>3, <2>5
    <3>2. save.calls[1].fields \subseteq Fields
      <4>1. save \in Saves
        BY <1>0, <2>2 DEF DraftTypeInv, NoSave
      <4>2. save.calls \in Seq(SaveCall) /\ Len(save.calls) = 1
        BY <4>1, <3>1 DEF Saves, SnapshotSave
      <4>3. save.calls[1] \in SaveCall
        BY <4>2
      <4>. QED
        BY <4>3 DEF SaveCall
    <3>3. SnapshotSave'
      BY <1>1, <1>4, <2>2, <3>1, <3>2 DEF SnapshotSave, Unsaved
    <3>. QED
      BY <2>5, <3>3
  <2>. QED
    BY <2>4, <2>5
<1>. QED
  BY <1>3, <1>5, <1>6, <1>7, <1>8 DEF DraftInv

-----------------------------------------------------------------------------
(* Steps that load or store.                                               *)

\* The save under way, and the call of it that is out.
LEMMA SaveOut ==
  ASSUME DraftTypeInv, save.on
  PROVE  /\ save \in Saves /\ save.vals \in Rows /\ save.tenant \in Tenants
         /\ save.market \in Markets /\ save.after \in {Leave, Nothing} \cup Tenants \cup Markets
         /\ save.calls \in Seq(SaveCall) /\ Len(save.calls) \in Nat \ {0}
         /\ Head(save.calls) = save.calls[1] /\ save.calls[1] \in SaveCall
         /\ save.calls[1].fields \subseteq Fields /\ save.calls[1].clears \subseteq Fields
         /\ Tail(save.calls) \in Seq(SaveCall) /\ Len(Tail(save.calls)) = Len(save.calls) - 1
         /\ \A k \in 1 .. Len(save.calls) - 1 : Tail(save.calls)[k] = save.calls[k + 1]
<1>1. save \in Saves /\ save.calls # <<>>
  BY DEF DraftTypeInv, NoSave
<1>2. /\ save.vals \in Rows /\ save.tenant \in Tenants /\ save.market \in Markets
      /\ save.after \in {Leave, Nothing} \cup Tenants \cup Markets /\ save.calls \in Seq(SaveCall)
  BY <1>1 DEF Saves
<1>3. /\ Len(save.calls) \in Nat \ {0}
      /\ Head(save.calls) = save.calls[1] /\ save.calls[1] \in SaveCall
      /\ Tail(save.calls) \in Seq(SaveCall) /\ Len(Tail(save.calls)) = Len(save.calls) - 1
      /\ \A k \in 1 .. Len(save.calls) - 1 : Tail(save.calls)[k] = save.calls[k + 1]
  BY <1>1, <1>2
<1>4. save.calls[1].fields \subseteq Fields /\ save.calls[1].clears \subseteq Fields
  BY <1>3 DEF SaveCall
<1>. QED
  BY <1>1, <1>2, <1>3, <1>4

\* What a call stores is of its tenant, and then known.
LEMMA Stored ==
  ASSUME DraftTypeInv, OwnInv, WrittenInv, save.on, Stores(Head(save.calls)), screen' = screen,
         blind' = blind
  PROVE  /\ database' \in [Tenants -> Rows] /\ StoredIsOwn' /\ written \subseteq written'
         /\ \A t \in Tenants, f \in Fields : Known(database[t][f])'
         /\ \A f \in save.calls[1].fields : save.vals[f].n \in written'
<1> DEFINE c == save.calls[1]
<1>1. /\ save.vals \in Rows /\ save.tenant \in Tenants /\ c.fields \subseteq Fields
      /\ Head(save.calls) = c /\ database \in [Tenants -> Rows]
  BY SaveOut DEF DraftTypeInv
<1> DEFINE rows == [f \in Fields |-> IF f \in c.fields THEN save.vals[f] ELSE database[save.tenant][f]]
<1>2. /\ database' = [database EXCEPT ![save.tenant] = rows]
      /\ written' = written \cup {save.vals[f].n : f \in c.fields}
  BY <1>1 DEF Stores
<1>3. rows \in Rows
  BY <1>1 DEF Rows
<1>4. /\ database' \in [Tenants -> Rows] /\ database'[save.tenant] = rows
      /\ \A t \in Tenants : t # save.tenant => database'[t] = database[t]
  <2> HIDE DEF rows
  <2>. QED
    BY <1>1, <1>2, <1>3
<1>5. \A f \in c.fields : save.vals[f].n \in written'
  BY <1>2
<1>6. \A t \in Tenants, f \in Fields : database'[t][f] = database[t][f]
                                       \/ (t = save.tenant /\ f \in c.fields /\ database'[t][f] = save.vals[f])
  BY <1>4
<1>7. StoredIsOwn'
  BY <1>6, FieldsStay DEF StoredIsOwn, OwnInv
<1>8. \A t \in Tenants, f \in Fields : Known(database[t][f])'
  BY <1>2, <1>5, <1>6 DEF Known, WrittenInv
<1>. QED
  BY <1>2, <1>4, <1>5, <1>7, <1>8

\* A call stores and its save ends without an answer on the screen.
LEMMA StoresAlone ==
  ASSUME DraftInv, save.on, Stores(Head(save.calls)), save' = NoSave,
         UNCHANGED <<screen, shown, load, dialog, edits, late, dropped, overtaken, blind>>
  PROVE  DraftInv'
<1>0. DraftTypeInv /\ OwnInv /\ WrittenInv /\ ShownInv /\ SaveInv
  BY DEF DraftInv
<1> USE DEF shown
<1>1. Fields' = Fields /\ Rows' = Rows /\ ~save'.on
  BY FieldsStay DEF Rows, Values, NoSave
<1>2. /\ database' \in [Tenants -> Rows] /\ StoredIsOwn' /\ written \subseteq written'
      /\ \A t \in Tenants, f \in Fields : Known(database[t][f])'
  BY <1>0, Stored
<1>3. DraftTypeInv'
  BY <1>0, <1>1, <1>2 DEF DraftTypeInv
<1>4. OwnInv'
  BY <1>0, <1>1, <1>2 DEF OwnInv
<1>5. WrittenInv'
  BY <1>0, <1>1, <1>2 DEF WrittenInv, Known
<1>6. ShownInv'
  <2>1. \A f \in Fields : Unsaved(f)' => Unsaved(f)
    BY <1>2 DEF Unsaved
  <2>. QED
    BY <1>0, <1>1, <2>1 DEF ShownInv, Excused, Bare, Out
<1>7. SaveInv'
  BY <1>1 DEF SaveInv
<1>. QED
  BY <1>3, <1>4, <1>5, <1>6, <1>7 DEF DraftInv

LEMMA LoadReadsInv ==
  ASSUME DraftInv, LoadReads
  PROVE  DraftInv'
<1>0. DraftTypeInv /\ OwnInv /\ WrittenInv /\ ShownInv /\ SaveInv
  BY DEF DraftInv
<1>1. /\ load.at = "sent" /\ load' = [at |-> "read", data |-> database[tenant]]
      /\ UNCHANGED <<screen, tenant, market, draft, base, ticked, mounted, save, dialog, database,
                     edits, late, dropped, written, overtaken, blind>>
  BY DEF LoadReads, shown, counts, history
<1>2. Fields' = Fields /\ Rows' = Rows /\ Saves' = Saves
  <2>1. Fields' = Fields /\ SaveCall' = SaveCall
    BY <1>1, FieldsStay
  <2>. QED
    BY <1>1, <2>1 DEF Rows, Values, Saves
<1>3. tenant \in Tenants /\ database[tenant] \in Rows
  BY <1>0 DEF DraftTypeInv
<1>4. DraftTypeInv'
  BY <1>0, <1>1, <1>2, <1>3 DEF DraftTypeInv
<1>5. OwnInv'
  <2>1. tenant \notin blind => \A f \in Fields : database[tenant][f].of = tenant
    BY <1>0, <1>3 DEF OwnInv, StoredIsOwn
  <2>. QED
    BY <1>0, <1>1, <1>2, <2>1 DEF OwnInv, StoredIsOwn
<1>6. WrittenInv'
  <2>1. \A f \in Fields : Known(database[tenant][f])
    BY <1>0, <1>3 DEF WrittenInv
  <2>. QED
    BY <1>0, <1>1, <1>2, <2>1 DEF WrittenInv, Known
<1>7. ShownInv'
  BY <1>0, <1>1, <1>2 DEF ShownInv, Out, Unsaved, Excused, Bare
<1>8. SaveInv'
  BY <1>0, <1>1, <1>2 DEF SaveInv, CostSave, SnapshotSave, Unsaved, Excused, InCalls, InFirst
<1>. QED
  BY <1>4, <1>5, <1>6, <1>7, <1>8 DEF DraftInv

LEMMA SettingsSyncInv ==
  ASSUME DraftInv, SettingsSync
  PROVE  DraftInv'
<1>0. DraftTypeInv /\ OwnInv /\ WrittenInv /\ ShownInv /\ SaveInv
  BY DEF DraftInv
<1>1. /\ load.at = "read" /\ load' = [load EXCEPT !.at = "synced"]
      /\ database' = [database EXCEPT ![tenant] = load.data]
      /\ UNCHANGED <<screen, tenant, market, draft, base, ticked, mounted, save, dialog,
                     edits, late, dropped, written, overtaken, blind>>
  BY DEF SettingsSync, shown, counts, history
<1>2. Fields' = Fields /\ Rows' = Rows /\ Saves' = Saves
  <2>1. Fields' = Fields /\ SaveCall' = SaveCall
    BY <1>1, FieldsStay
  <2>. QED
    BY <1>1, <2>1 DEF Rows, Values, Saves
<1>3. /\ tenant \in Tenants /\ load.data \in Rows /\ database \in [Tenants -> Rows]
      /\ load' = [at |-> "synced", data |-> load.data]
  <2>1. load = [at |-> load.at, data |-> load.data]
    BY <1>0 DEF DraftTypeInv
  <2>2. load' = [at |-> "synced", data |-> load.data]
    BY <1>1, <2>1
  <2>. QED
    BY <1>0, <2>2 DEF DraftTypeInv
<1>4. database' \in [Tenants -> Rows]
      /\ \A t \in Tenants : database'[t] = IF t = tenant THEN load.data ELSE database[t]
  BY <1>1, <1>3
<1>5. DraftTypeInv'
  BY <1>0, <1>1, <1>2, <1>3, <1>4 DEF DraftTypeInv
<1>6. OwnInv'
  <2>1. StoredIsOwn'
    BY <1>0, <1>1, <1>2, <1>4 DEF OwnInv, StoredIsOwn
  <2>. QED
    BY <1>0, <1>1, <1>2, <1>3, <2>1 DEF OwnInv
<1>7. WrittenInv'
  BY <1>0, <1>1, <1>2, <1>3, <1>4 DEF WrittenInv, Known
<1>8. ShownInv'
  BY <1>0, <1>1, <1>2, <1>3 DEF ShownInv, Out, Unsaved, Excused, Bare
<1>9. SaveInv'
  BY <1>0, <1>1, <1>2 DEF SaveInv, CostSave, SnapshotSave, Unsaved, Excused, InCalls, InFirst
<1>. QED
  BY <1>5, <1>6, <1>7, <1>8, <1>9 DEF DraftInv

\* The answer of a load is known, so no edit is left unsaved.
LEMMA LoadAnswersInv ==
  ASSUME DraftInv, LoadAnswers, ticked' \in BOOLEAN
  PROVE  DraftInv'
<1>0. DraftTypeInv /\ OwnInv /\ WrittenInv /\ ShownInv /\ SaveInv
  BY DEF DraftInv
<1>1. /\ load.at \in {"read", "synced"} /\ draft' = load.data /\ base' = load.data
      /\ load' = [Sent EXCEPT !.at = "done"] /\ ~overtaken'
      /\ overtaken' = FALSE
      /\ UNCHANGED <<screen, mounted, tenant, market, save, dialog, database, edits, written, blind>>
  BY DEF LoadAnswers, counts
<1>2. Fields' = Fields /\ Rows' = Rows /\ Saves' = Saves
  <2>1. Fields' = Fields /\ SaveCall' = SaveCall
    BY <1>1, FieldsStay
  <2>. QED
    BY <1>1, <2>1 DEF Rows, Values, Saves
<1>3. load' = [at |-> "done", data |-> [f \in Fields |-> Blank]] /\ [f \in Fields |-> Blank] \in Rows
  <2>1. [f \in Fields |-> Blank] \in Rows
    BY <1>0 DEF Rows, Values, Blank, DraftTypeInv
  <2>2. [Sent EXCEPT !.at = "done"] = [at |-> "done", data |-> [f \in Fields |-> Blank]]
    BY DEF Sent
  <2>. QED
    BY <1>1, <2>1, <2>2
<1>4. \A f \in Fields : ~Unsaved(f)'
  <2>1. ASSUME NEW f \in Fields PROVE ~Unsaved(f)'
    <3>1. load.data[f].n \in 0 .. edits /\ edits \in Nat
      BY <1>0, RowOf DEF DraftTypeInv
    <3>2. Known(load.data[f])
      BY <1>0, <1>1 DEF WrittenInv
    <3>. QED
      BY <1>1, <3>1, <3>2 DEF Unsaved, Known
  <2>. QED
    BY <2>1
<1>5. DraftTypeInv'
  <2>1. load.data \in Rows
    BY <1>0 DEF DraftTypeInv
  <2>2. /\ load'.at = "done" /\ load' = [at |-> load'.at, data |-> load'.data]
        /\ load'.data \in Rows
    BY <1>3
  <2>3. overtaken' \in BOOLEAN
    BY <1>1, Zenon
  <2>. QED
    BY <1>0, <1>1, <1>2, <2>1, <2>2, <2>3 DEF DraftTypeInv
<1>6. OwnInv'
  BY <1>0, <1>1, <1>2, <1>3 DEF OwnInv, StoredIsOwn
<1>7. WrittenInv'
  BY <1>0, <1>1, <1>2, <1>3 DEF WrittenInv, Known
<1>8. ShownInv'
  BY <1>1, <1>2, <1>3, <1>4 DEF ShownInv, Out
<1>9. SaveInv'
  <2>1. SUFFICES ASSUME save.on PROVE (IF screen \in Costs THEN CostSave ELSE SnapshotSave)'
    BY <1>1 DEF SaveInv
  <2>2. IF screen \in Costs THEN CostSave ELSE SnapshotSave
    BY <1>0, <2>1 DEF SaveInv
  <2>3. /\ save.calls \in Seq(SaveCall)
        /\ \A k \in 1 .. Len(save.calls) : /\ save.calls[k].fields \subseteq Fields
                                           /\ save.calls[k].clears \subseteq Fields
    <3>1. save.calls \in Seq(SaveCall)
      BY <1>0, <2>1, SaveOut
    <3>2. \A k \in 1 .. Len(save.calls) : save.calls[k] \in SaveCall
      BY <3>1
    <3>. QED
      BY <3>1, <3>2 DEF SaveCall
  <2>4. CASE screen \in Costs
    <3>1. CostSave'
      BY <1>1, <1>2, <1>4, <2>3 DEF CostSave
    <3>. QED
      BY <1>1, <2>4, <3>1
  <2>5. CASE screen \notin Costs
    <3>1. SnapshotSave
      BY <2>2, <2>5
    <3>2. SnapshotSave'
      BY <1>1, <1>2, <1>4, <2>3, <3>1 DEF SnapshotSave
    <3>. QED
      BY <1>1, <2>5, <3>2
  <2>. QED
    BY <2>4, <2>5
<1>. QED
  BY <1>5, <1>6, <1>7, <1>8, <1>9 DEF DraftInv

-----------------------------------------------------------------------------
(* Typing.                                                                 *)

\* What is typed is a new edit, excused when an answer is out; a cost screen types
\* nothing while it saves, and on the shipping screen only in the market selected.
LEMMA Typed ==
  ASSUME DraftInv, NEW fs \in SUBSET Fields, Type(fs), ticked' \in BOOLEAN, base' \in Rows,
         \A f \in Fields : \/ base'[f] = base[f]
                           \/ /\ base'[f] = draft[f] /\ f \notin fs /\ f \in dropped'
                              /\ screen = "printingCost",
         dropped \ fs \subseteq dropped',
         screen \in Costs => ~save.on,
         (screen = "printingCost" /\ ~ticked') =>
            /\ <<NoMarket, "custom">> \notin fs
            /\ base'[<<NoMarket, "custom">>] = draft[<<NoMarket, "custom">>],
         screen = "shippingCost" => \A f \in fs : f[1] = market
  PROVE  DraftInv'
<1>0. DraftTypeInv /\ OwnInv /\ WrittenInv /\ ShownInv /\ SaveInv
  BY DEF DraftInv
<1>1. /\ edits' = edits + 1
      /\ draft' = [f \in Fields |-> IF f \in fs THEN [draft[f] EXCEPT !.n = edits + 1] ELSE draft[f]]
      /\ late' = IF Out(load) \/ save.on THEN late \cup fs ELSE late \ fs
      /\ UNCHANGED <<screen, mounted, tenant, market, load, save, dialog, database, written,
                     overtaken, blind>>
  BY DEF Type, calls
<1>2. edits \in Nat /\ edits' \in Nat
  BY <1>0, <1>1 DEF DraftTypeInv
<1>3. Fields' = Fields /\ SaveCall' = SaveCall /\ Rows \subseteq Rows' /\ Values \subseteq Values'
  BY <1>1, <1>2, FieldsStay, RowsGrow
<1>4. Saves \subseteq Saves'
  BY <1>1, <1>3 DEF Saves
<1>5. \A f \in Fields :
        IF f \in fs THEN draft'[f] = [of |-> draft[f].of, n |-> edits + 1]
        ELSE draft'[f] = draft[f]
  <2>1. ASSUME NEW f \in fs PROVE draft'[f] = [of |-> draft[f].of, n |-> edits + 1]
    <3>1. draft[f] = [of |-> draft[f].of, n |-> draft[f].n]
      BY <1>0, RowOf DEF DraftTypeInv
    <3>2. [draft[f] EXCEPT !.n = edits + 1] = [of |-> draft[f].of, n |-> edits + 1]
      BY <3>1
    <3>. QED
      BY <1>1, <3>2
  <2>. QED
    BY <1>1, <2>1
<1>6. \A f \in Fields : draft'[f].of = draft[f].of /\ (f \in fs => draft'[f].n = edits + 1)
  <2>1. ASSUME NEW f \in Fields
        PROVE  draft'[f].of = draft[f].of /\ (f \in fs => draft'[f].n = edits + 1)
    <3>1. CASE f \in fs
      <4>1. draft'[f] = [of |-> draft[f].of, n |-> edits + 1]
        BY <1>5, <3>1
      <4>. QED
        BY <4>1
    <3>2. CASE f \notin fs
      <4>1. draft'[f] = draft[f]
        BY <1>5, <3>2
      <4>. QED
        BY <3>2, <4>1
    <3>. QED
      BY <3>1, <3>2
  <2>. QED
    BY <2>1
<1>7. draft' \in Rows'
  <2>1. ASSUME NEW f \in Fields PROVE draft'[f] \in Values'
    <3>1. draft[f] \in Values /\ draft[f].of \in Tenants \cup {NoTenant}
      BY <1>0, RowOf DEF DraftTypeInv
    <3>2. edits + 1 \in 0 .. edits'
      BY <1>1, <1>2
    <3>3. [of |-> draft[f].of, n |-> edits + 1] \in Values'
      BY <3>1, <3>2 DEF Values
    <3>. QED
      BY <1>3, <1>5, <3>1, <3>3
  <2>. QED
    BY <1>1, <1>3, <2>1 DEF Rows
<1>8. DraftTypeInv'
  BY <1>0, <1>1, <1>2, <1>3, <1>4, <1>7 DEF DraftTypeInv
<1>9. \A f \in Fields : /\ f \notin fs => (Unsaved(f)' => Unsaved(f)) /\ (Excused(f) => Excused(f)')
                        /\ (f \in fs /\ (Out(load) \/ save.on)) => Excused(f)'
                        /\ Bare(f)' <=> Bare(f)
  BY <1>1, <1>5 DEF Unsaved, Excused, Bare
<1>10. OwnInv'
  <2>1. \A f \in Fields : draft'[f].of = draft[f].of /\ base'[f].of \in {base[f].of, draft[f].of}
    <3>1. ASSUME NEW f \in Fields PROVE base'[f].of \in {base[f].of, draft[f].of}
      <4>1. base'[f] = base[f] \/ base'[f] = draft[f]
        OBVIOUS
      <4>. QED
        BY <4>1
    <3>. QED
      BY <3>1, <1>6
  <2>. QED
    BY <1>0, <1>1, <1>3, <2>1 DEF OwnInv, StoredIsOwn
<1>11. WrittenInv'
  BY <1>0, <1>1, <1>3 DEF WrittenInv, Known
<1>12. ShownInv'
  <2>1. ASSUME NEW f \in Fields, Unsaved(f)', draft'[f] = base'[f] PROVE f \in dropped'
    <3>1. CASE f \in fs
      <4>1. base[f].n \in 0 .. edits
        BY <1>0, RowOf DEF DraftTypeInv
      <4>2. base'[f] = base[f] /\ draft'[f].n = edits + 1
        BY <1>6, <3>1
      <4>. QED
        BY <1>2, <2>1, <4>1, <4>2
    <3>2. CASE f \notin fs
      BY <1>0, <1>5, <1>9, <2>1, <3>2 DEF ShownInv
    <3>. QED
      BY <3>1, <3>2
  <2>2. Out(load)' => \A f \in Fields : Unsaved(f)' => Excused(f)' \/ Bare(f)'
    BY <1>0, <1>1, <1>9 DEF ShownInv, Out
  <2>3. (screen' = "printingCost" /\ ~ticked') =>
          draft'[<<NoMarket, "custom">>] = base'[<<NoMarket, "custom">>]
    <3>1. screen = "printingCost" => <<NoMarket, "custom">> \in Fields
      BY DEF Fields, PrintingFields
    <3>. QED
      BY <1>1, <1>5, <3>1
  <2>4. screen' = "shippingCost" =>
          \A f \in Fields : (Unsaved(f)' /\ f[2] = "rate" /\ f[1] # market') => Excused(f)'
    BY <1>0, <1>1, <1>9 DEF ShownInv
  <2>. QED
    BY <1>3, <2>1, <2>2, <2>3, <2>4 DEF ShownInv
<1>13. SaveInv'
  <2>1. SUFFICES ASSUME save.on PROVE (IF screen \in Costs THEN CostSave ELSE SnapshotSave)'
    BY <1>1 DEF SaveInv
  <2>2. SnapshotSave /\ screen \notin Costs
    BY <1>0, <2>1 DEF SaveInv
  <2>3. save.calls[1].fields \subseteq Fields
    BY <1>0, <2>1, SaveOut
  <2>4. SnapshotSave'
    BY <1>1, <1>3, <1>5, <1>9, <2>1, <2>2, <2>3 DEF SnapshotSave
  <2>. QED
    BY <1>1, <2>2, <2>4
<1>. QED
  BY <1>8, <1>10, <1>11, <1>12, <1>13 DEF DraftInv

\* A field that is edited is one of the screen, and of its market unless it is of none.
LEMMA EditInv ==
  ASSUME DraftInv, NEW f \in Fields, Edit(f),
         (screen = "printingCost" /\ ~ticked) => f # <<NoMarket, "custom">>,
         screen = "shippingCost" => f[1] = market
  PROVE  DraftInv'
<1>1. /\ Type({f}) /\ dropped' = dropped \ {f} /\ base' = base /\ ticked' = ticked
      /\ screen \in Costs => ~save.on
  BY DEF Edit, Editable
<1>2. ticked' \in BOOLEAN /\ base' \in Rows
  BY <1>1 DEF DraftInv, DraftTypeInv
<1>3. (screen = "printingCost" /\ ~ticked') =>
        base'[<<NoMarket, "custom">>] = draft[<<NoMarket, "custom">>]
  BY <1>1 DEF DraftInv, ShownInv
<1>. QED
  BY <1>1, <1>2, <1>3, Typed

LEMMA EditsInv ==
  ASSUME DraftInv,
         \/ EditSheetSize \/ EditMaterialMapping \/ EditSettings \/ EditMaterials
         \/ EditShippingRate \/ EditShippingRow
         \/ EditPosterCost \/ EditPrintingRow \/ EditCustomCost
  PROVE  DraftInv'
<1>0. market \in Markets
  BY DEF DraftInv, DraftTypeInv
<1>1. CASE EditSheetSize
  BY <1>0, <1>1, EditInv DEF EditSheetSize, Fields, SheetSizeFields
<1>2. CASE EditMaterialMapping
  BY <1>0, <1>2, EditInv DEF EditMaterialMapping, Fields, MaterialMappingFields
<1>3. CASE EditSettings
  BY <1>3, EditInv DEF EditSettings, Fields
<1>4. CASE EditMaterials
  BY <1>4, EditInv DEF EditMaterials, Fields
<1>5. CASE EditShippingRate
  BY <1>0, <1>5, EditInv DEF EditShippingRate, Fields, ShippingFields
<1>6. CASE EditShippingRow
  BY <1>0, <1>6, EditInv DEF EditShippingRow, Fields, ShippingFields
<1>7. CASE EditPosterCost
  BY <1>0, <1>7, EditInv DEF EditPosterCost, Fields, PrintingFields
<1>8. CASE EditPrintingRow
  BY <1>0, <1>8, EditInv DEF EditPrintingRow, Fields, PrintingFields
<1>9. CASE EditCustomCost
  BY <1>0, <1>9, EditInv DEF EditCustomCost, Fields, PrintingFields
<1>. QED
  BY <1>1, <1>2, <1>3, <1>4, <1>5, <1>6, <1>7, <1>8, <1>9

LEMMA UpdateFlagInv ==
  ASSUME DraftInv, UpdateCustomPrintCostFlag
  PROVE  DraftInv'
<1> DEFINE flags == <<NoMarket, "flags">>
<1> DEFINE custom == <<NoMarket, "custom">>
<1> DEFINE row == <<market, "rows">>
<1> DEFINE fs == IF ticked THEN {flags} ELSE {flags, row}
<1>0. /\ market \in Markets /\ base \in Rows /\ draft \in Rows /\ ticked \in BOOLEAN
      /\ ~ticked /\ screen = "printingCost" => draft[custom] = base[custom]
  BY DEF DraftInv, DraftTypeInv, ShownInv
<1>1. /\ screen = "printingCost" /\ ticked' = ~ticked /\ Type(fs) /\ ~save.on
      /\ base' = IF ticked THEN [base EXCEPT ![custom] = draft[custom]] ELSE base
      /\ dropped' = IF ticked THEN (dropped \ {flags}) \cup {custom} ELSE dropped \ {flags, row}
  BY DEF UpdateCustomPrintCostFlag, Editable, Costs
<1>2. flags \in Fields /\ custom \in Fields /\ row \in Fields /\ custom \notin fs
  BY <1>0, <1>1 DEF Fields, PrintingFields
<1>3. fs \in SUBSET Fields /\ dropped \ fs \subseteq dropped'
  BY <1>1, <1>2
<1>4. base' \in Rows
  BY <1>0, <1>1, <1>2 DEF Rows
<1>5. \A f \in Fields : \/ base'[f] = base[f]
                        \/ /\ base'[f] = draft[f] /\ f \notin fs /\ f \in dropped'
                           /\ screen = "printingCost"
  BY <1>0, <1>1, <1>2 DEF Rows
<1>6. ~ticked' => base'[custom] = draft[custom]
  BY <1>0, <1>1, <1>2 DEF Rows
<1>7. ticked' \in BOOLEAN
  BY <1>1
<1> HIDE DEF fs
<1>. QED
  BY <1>1, <1>2, <1>3, <1>4, <1>5, <1>6, <1>7, Typed

-----------------------------------------------------------------------------
(* The calls of a save.                                                    *)

\* The calls cs send f; none clears what neither it nor one before it sends.
Sends(cs, f) == \E k \in 1 .. Len(cs) : f \in cs[k].fields
CallsFit(cs) ==
  /\ cs \in Seq(SaveCall)
  /\ \A k \in 1 .. Len(cs) : \A f \in cs[k].clears : \E j \in 1 .. k : f \in cs[j].fields

LEMMA NoCallsFit == CallsFit(<<>>)
BY DEF CallsFit

LEMMA CallsJoin ==
  ASSUME NEW a, NEW b, CallsFit(a), CallsFit(b)
  PROVE  CallsFit(a \o b) /\ \A f : Sends(a, f) \/ Sends(b, f) => Sends(a \o b, f)
<1>1. /\ a \in Seq(SaveCall) /\ b \in Seq(SaveCall) /\ a \o b \in Seq(SaveCall)
      /\ Len(a) \in Nat /\ Len(b) \in Nat /\ Len(a \o b) = Len(a) + Len(b)
  BY DEF CallsFit
<1>2. /\ \A k \in 1 .. Len(a) : (a \o b)[k] = a[k]
      /\ \A k \in 1 .. Len(b) : (a \o b)[Len(a) + k] = b[k]
  BY <1>1
<1>3. ASSUME NEW k \in 1 .. Len(a \o b), NEW f \in (a \o b)[k].clears
      PROVE  \E j \in 1 .. k : f \in (a \o b)[j].fields
  <2>1. CASE k <= Len(a)
    <3>1. PICK j \in 1 .. k : f \in a[j].fields
      BY <1>1, <1>2, <1>3, <2>1 DEF CallsFit
    <3>. QED
      BY <1>1, <1>2, <2>1, <3>1
  <2>2. CASE k > Len(a)
    <3>1. k - Len(a) \in 1 .. Len(b) /\ Len(a) + (k - Len(a)) = k
      BY <1>1, <2>2
    <3>2. f \in b[k - Len(a)].clears
      BY <1>2, <1>3, <3>1
    <3>3. PICK j \in 1 .. k - Len(a) : f \in b[j].fields
      BY <3>1, <3>2 DEF CallsFit
    <3>4. Len(a) + j \in 1 .. k /\ j \in 1 .. Len(b)
      BY <1>1, <3>1, <3>3
    <3>. QED
      BY <1>2, <3>3, <3>4
  <2>. QED
    BY <1>1, <2>1, <2>2
<1>4. ASSUME NEW f, Sends(a, f) \/ Sends(b, f) PROVE Sends(a \o b, f)
  <2>1. CASE Sends(a, f)
    <3>1. PICK k \in 1 .. Len(a) : f \in a[k].fields
      BY <2>1 DEF Sends
    <3>. QED
      BY <1>1, <1>2, <3>1 DEF Sends
  <2>2. CASE Sends(b, f)
    <3>1. PICK k \in 1 .. Len(b) : f \in b[k].fields
      BY <2>2 DEF Sends
    <3>2. Len(a) + k \in 1 .. Len(a \o b)
      BY <1>1
    <3>. QED
      BY <1>2, <3>1, <3>2 DEF Sends
  <2>. QED
    BY <1>4, <2>1, <2>2
<1>. QED
  BY <1>1, <1>3, <1>4 DEF CallsFit

LEMMA OneCallFits ==
  ASSUME NEW fs \in SUBSET Fields, NEW cs \in SUBSET fs
  PROVE  /\ CallsFit(<<[fields |-> fs, clears |-> cs]>>)
         /\ \A f \in fs : Sends(<<[fields |-> fs, clears |-> cs]>>, f)
<1> DEFINE c == [fields |-> fs, clears |-> cs]
<1>1. c \in SaveCall
  BY DEF SaveCall
<1>2. <<c>> \in Seq(SaveCall) /\ Len(<<c>>) = 1 /\ <<c>>[1] = c
  BY <1>1
<1>. QED
  BY <1>2 DEF CallsFit, Sends

LEMMA SaveIfFits ==
  ASSUME NEW fs \in SUBSET Fields
  PROVE  CallsFit(SaveIf(fs)) /\ \A f \in fs : Sends(SaveIf(fs), f)
BY NoCallsFit, OneCallFits DEF SaveIf, SaveOf

\* A market's two calls: the second one clears what both have sent.
LEMMA MarketCallsFit ==
  ASSUME screen = "printingCost", NEW m \in Markets
  PROVE  /\ CallsFit(MarketCalls(m))
         /\ \A f \in Touched({m} \X {"poster", "rows"}) : Sends(MarketCalls(m), f)
<1> DEFINE poster == Touched({<<m, "poster">>})
<1> DEFINE rows == Touched({<<m, "rows">>})
<1>1. poster \in SUBSET Fields /\ rows \in SUBSET Fields
  BY DEF Touched, Fields, PrintingFields
<1>2. \A f \in Touched({m} \X {"poster", "rows"}) : f \in poster \/ f \in rows
  BY DEF Touched
<1> HIDE DEF poster, rows
<1>3. CASE rows = {}
  <2>1. MarketCalls(m) = SaveIf(poster)
    BY <1>3 DEF MarketCalls, poster, rows
  <2>. QED
    BY <1>1, <1>2, <1>3, <2>1, SaveIfFits
<1>4. CASE rows # {} /\ poster = {}
  <2> DEFINE e == <<[fields |-> rows, clears |-> poster \cup rows]>>
  <2>1. MarketCalls(m) = <<>> \o e
    BY <1>4 DEF MarketCalls, poster, rows
  <2>2. poster \cup rows \in SUBSET rows
    BY <1>4
  <2>3. CallsFit(e) /\ \A f \in rows : Sends(e, f)
    BY <1>1, <2>2, OneCallFits
  <2> HIDE DEF e
  <2>4. CallsFit(<<>> \o e) /\ \A f : Sends(e, f) => Sends(<<>> \o e, f)
    BY <2>3, NoCallsFit, CallsJoin
  <2>. QED
    BY <1>2, <1>4, <2>1, <2>3, <2>4
<1>5. CASE rows # {} /\ poster # {}
  <2> DEFINE c == [fields |-> poster, clears |-> {}]
  <2> DEFINE d == [fields |-> rows, clears |-> poster \cup rows]
  <2> DEFINE e == <<c>> \o <<d>>
  <2>1. MarketCalls(m) = e
    BY <1>5 DEF MarketCalls, poster, rows
  <2>2. c \in SaveCall /\ d \in SaveCall
    BY <1>1 DEF SaveCall
  <2>3. /\ c.fields = poster /\ c.clears = {} /\ d.fields = rows /\ d.clears = poster \cup rows
    OBVIOUS
  <2> HIDE DEF c, d
  <2>4. /\ <<c>> \in Seq(SaveCall) /\ Len(<<c>>) = 1 /\ <<c>>[1] = c
        /\ <<d>> \in Seq(SaveCall) /\ Len(<<d>>) = 1 /\ <<d>>[1] = d
    BY <2>2
  <2>5. e \in Seq(SaveCall) /\ Len(e) = 2 /\ e[1] = c /\ e[2] = d
    BY <2>4
  <2> HIDE DEF e
  <2>6. CallsFit(e)
    <3>1. ASSUME NEW k \in 1 .. 2, NEW f \in e[k].clears
          PROVE  \E j \in 1 .. k : f \in e[j].fields
      <4>1. k = 2
        BY <2>3, <2>5, <3>1
      <4>. QED
        BY <2>3, <2>5, <3>1, <4>1
    <3>. QED
      BY <2>5, <3>1 DEF CallsFit
  <2>7. \A f \in poster \cup rows : Sends(e, f)
    BY <2>3, <2>5 DEF Sends
  <2>. QED
    BY <1>2, <2>1, <2>6, <2>7
<1>. QED
  BY <1>3, <1>4, <1>5

\* The markets' calls one after the other (PrintingCalls), step by step.
LEMMA MarketSteps ==
  ASSUME DraftAssumption, screen = "printingCost"
  PROVE  \E s \in [0 .. Len(MarketOrder) -> Seq(SaveCall)] :
           /\ s[0] = <<>>
           /\ \A i \in 1 .. Len(MarketOrder) : s[i] = s[i - 1] \o MarketCalls(MarketOrder[i])
           /\ PrintingCalls = SaveIf(Touched({<<NoMarket, "flags">>}))
                \o (IF ticked THEN SaveIf(Touched({<<NoMarket, "custom">>})) ELSE <<>>)
                \o s[Len(MarketOrder)]
<1> DEFINE len == Len(MarketOrder)
<1> DEFINE step == [p \in Seq(SaveCall) \X (1 .. len) |-> p[1] \o MarketCalls(MarketOrder[p[2]])]
<1> DEFINE Eq(f) == f = [k \in 0 .. len |-> IF k = 0 THEN <<>>
                          ELSE f[k - 1] \o MarketCalls(MarketOrder[k])]
<1>0. len \in Nat /\ \A i \in 1 .. len : MarketOrder[i] \in Markets /\ MarketCalls(MarketOrder[i]) \in Seq(SaveCall)
  <2>1. len \in Nat /\ \A i \in 1 .. len : MarketOrder[i] \in Markets
    BY DEF DraftAssumption
  <2>. QED
    BY <2>1, MarketCallsFit DEF CallsFit
<1>1. step \in [Seq(SaveCall) \X (1 .. len) -> Seq(SaveCall)] /\ <<>> \in Seq(SaveCall)
  <2>1. ASSUME NEW p \in Seq(SaveCall) \X (1 .. len)
        PROVE  p[1] \o MarketCalls(MarketOrder[p[2]]) \in Seq(SaveCall)
    <3>1. p[1] \in Seq(SaveCall) /\ MarketCalls(MarketOrder[p[2]]) \in Seq(SaveCall)
      BY <1>0
    <3>. QED
      BY <3>1
  <2>. QED
    BY <2>1
<1>2. PICK s \in [0 .. len -> Seq(SaveCall)] : Iterated(s, <<>>, len, step)
  <2> HIDE DEF step, len
  <2>. QED
    BY <1>0, <1>1, Iterates
<1>3. ASSUME NEW i \in 1 .. len PROVE s[i] = s[i - 1] \o MarketCalls(MarketOrder[i])
  <2>1. s[i - 1] \in Seq(SaveCall)
    <3>1. i - 1 \in 0 .. len
      BY <1>0
    <3>. QED
      BY <3>1
  <2>. QED
    BY <1>2, <2>1 DEF Iterated
<1>4. Eq(s)
  <2>1. s = [k \in 0 .. len |-> s[k]]
    OBVIOUS
  <2>2. \A k \in 0 .. len : k # 0 => k \in 1 .. len
    BY <1>0
  <2>. QED
    BY <1>2, <1>3, <2>1, <2>2 DEF Iterated
<1> DEFINE c == CHOOSE f : Eq(f)
<1>5. Eq(c)
  <2> HIDE DEF Eq
  <2>. QED
    BY <1>4
<1>6. PrintingCalls = SaveIf(Touched({<<NoMarket, "flags">>}))
                \o (IF ticked THEN SaveIf(Touched({<<NoMarket, "custom">>})) ELSE <<>>)
                \o c[len]
  BY DEF PrintingCalls
<1>7. c[len] = s[len]
  <2>0. \A n \in Nat : n + 1 <= len => n + 1 \in 1 .. len /\ (n + 1) - 1 = n
    BY <1>0
  <2> HIDE DEF c
  <2>1. c[0] = <<>>
    BY <1>5, <1>0
  <2>2. ASSUME NEW n \in Nat, n + 1 <= len
        PROVE  c[n + 1] = c[n] \o MarketCalls(MarketOrder[n + 1])
    <3>1. n + 1 \in 0 .. len /\ n + 1 # 0 /\ (n + 1) - 1 = n
      BY <1>0, <2>2
    <3>. QED
      BY <1>5, <3>1
  <2> DEFINE N == {n \in Nat : n <= len => c[n] = s[n]}
  <2>3. 0 \in N
    BY <1>2, <2>1 DEF Iterated
  <2>4. ASSUME NEW n \in Nat, n \in N PROVE n + 1 \in N
    <3>1. SUFFICES ASSUME n + 1 <= len PROVE c[n + 1] = s[n + 1]
      OBVIOUS
    <3>2. n + 1 \in 1 .. len /\ c[n] = s[n]
      BY <1>0, <2>4, <3>1
    <3>. QED
      BY <1>3, <2>0, <2>2, <3>1, <3>2
  <2>5. Nat \subseteq N
    <3> HIDE DEF N
    <3>. QED
      BY <2>3, <2>4, FromZero
  <2>. QED
    BY <1>0, <2>5
<1>. QED
  <2> HIDE DEF c
  <2>. QED
    BY <1>2, <1>3, <1>6, <1>7 DEF Iterated

LEMMA PrintingCallsFit ==
  ASSUME DraftAssumption, screen = "printingCost"
  PROVE  /\ CallsFit(PrintingCalls)
         /\ \A f \in Fields : (draft[f] # base[f] /\ (f = <<NoMarket, "custom">> => ticked))
                                => Sends(PrintingCalls, f)
<1> DEFINE len == Len(MarketOrder)
<1> DEFINE OfMarket(i) == Touched({MarketOrder[i]} \X {"poster", "rows"})
<1>1. PICK s \in [0 .. len -> Seq(SaveCall)] :
        /\ s[0] = <<>>
        /\ \A i \in 1 .. len : s[i] = s[i - 1] \o MarketCalls(MarketOrder[i])
        /\ PrintingCalls = SaveIf(Touched({<<NoMarket, "flags">>}))
             \o (IF ticked THEN SaveIf(Touched({<<NoMarket, "custom">>})) ELSE <<>>)
             \o s[len]
  BY MarketSteps
<1>2. len \in Nat /\ \A i \in 1 .. len : MarketOrder[i] \in Markets
  BY DEF DraftAssumption
<1> DEFINE N == {n \in Nat : n <= len =>
                   CallsFit(s[n]) /\ \A i \in 1 .. n : \A f \in OfMarket(i) : Sends(s[n], f)}
<1> HIDE DEF OfMarket
<1>3. 0 \in N
  BY <1>1, NoCallsFit
<1>4. ASSUME NEW n \in Nat, n \in N PROVE n + 1 \in N
  <2>1. SUFFICES ASSUME n + 1 <= len
                 PROVE  /\ CallsFit(s[n + 1])
                        /\ \A i \in 1 .. n + 1 : \A f \in OfMarket(i) : Sends(s[n + 1], f)
    OBVIOUS
  <2> DEFINE m == MarketOrder[n + 1]
  <2>2. n + 1 \in 1 .. len /\ (n + 1) - 1 = n /\ n <= len
    BY <1>2, <2>1
  <2>3. s[n + 1] = s[n] \o MarketCalls(m) /\ m \in Markets
    BY <1>1, <1>2, <2>2
  <2>4. CallsFit(s[n]) /\ \A i \in 1 .. n : \A f \in OfMarket(i) : Sends(s[n], f)
    BY <1>4, <2>2
  <2>5. CallsFit(MarketCalls(m)) /\ \A f \in OfMarket(n + 1) : Sends(MarketCalls(m), f)
    BY <2>3, MarketCallsFit DEF OfMarket
  <2>6. /\ CallsFit(s[n] \o MarketCalls(m))
        /\ \A f : Sends(s[n], f) \/ Sends(MarketCalls(m), f) => Sends(s[n] \o MarketCalls(m), f)
    BY <2>4, <2>5, CallsJoin
  <2>7. \A i \in 1 .. n + 1 : i \in 1 .. n \/ i = n + 1
    OBVIOUS
  <2>. QED
    BY <2>3, <2>4, <2>5, <2>6, <2>7
<1>5. Nat \subseteq N
  <2> HIDE DEF N
  <2>. QED
    BY <1>3, <1>4, FromZero
<1>6. CallsFit(s[len]) /\ \A i \in 1 .. len : \A f \in OfMarket(i) : Sends(s[len], f)
  BY <1>2, <1>5
<1> DEFINE flags == SaveIf(Touched({<<NoMarket, "flags">>}))
<1> DEFINE custom == IF ticked THEN SaveIf(Touched({<<NoMarket, "custom">>})) ELSE <<>>
<1>7. /\ Touched({<<NoMarket, "flags">>}) \in SUBSET Fields
      /\ Touched({<<NoMarket, "custom">>}) \in SUBSET Fields
  BY DEF Touched, Fields, PrintingFields
<1>8. CallsFit(flags) /\ \A f \in Touched({<<NoMarket, "flags">>}) : Sends(flags, f)
  BY <1>7, SaveIfFits
<1>9. CallsFit(custom) /\ (ticked => \A f \in Touched({<<NoMarket, "custom">>}) : Sends(custom, f))
  BY <1>7, SaveIfFits, NoCallsFit
<1>10. PrintingCalls = flags \o custom \o s[len]
  BY <1>1
<1> HIDE DEF flags, custom
<1>11. /\ CallsFit(flags \o custom)
       /\ \A f : Sends(flags, f) \/ Sends(custom, f) => Sends(flags \o custom, f)
  BY <1>8, <1>9, CallsJoin
<1>12. /\ CallsFit((flags \o custom) \o s[len])
       /\ \A f : Sends(flags \o custom, f) \/ Sends(s[len], f) => Sends((flags \o custom) \o s[len], f)
  BY <1>6, <1>11, CallsJoin
<1>13. ASSUME NEW f \in Fields, draft[f] # base[f], f = <<NoMarket, "custom">> => ticked
       PROVE  Sends(PrintingCalls, f)
  <2>1. \/ f = <<NoMarket, "flags">>
        \/ f = <<NoMarket, "custom">>
        \/ f \in Markets \X {"poster", "rows"}
    BY DEF Fields, PrintingFields
  <2>2. CASE f = <<NoMarket, "flags">>
    BY <1>8, <1>10, <1>11, <1>12, <1>13, <2>2 DEF Touched
  <2>3. CASE f = <<NoMarket, "custom">>
    BY <1>9, <1>10, <1>11, <1>12, <1>13, <2>3 DEF Touched
  <2>4. CASE f \in Markets \X {"poster", "rows"}
    <3>1. PICK i \in 1 .. len : f[1] = MarketOrder[i]
      BY <2>4, <1>2 DEF Markets, DraftAssumption
    <3>2. f \in OfMarket(i)
      BY <1>13, <2>4, <3>1 DEF OfMarket, Touched
    <3>. QED
      BY <1>6, <1>10, <1>12, <3>1, <3>2
  <2>. QED
    BY <2>1, <2>2, <2>3, <2>4
<1>. QED
  BY <1>10, <1>12, <1>13

LEMMA ShippingCallsFit ==
  ASSUME screen = "shippingCost", market \in Markets
  PROVE  /\ CallsFit(ShippingCalls)
         /\ \A f \in Fields : (draft[f] # base[f] /\ (f[2] = "rate" => f[1] = market))
                                => Sends(ShippingCalls, f)
<1> DEFINE rate == Touched({<<market, "rate">>})
<1> DEFINE rows == Touched(Markets \X {"rows"})
<1>1. rate \in SUBSET Fields /\ rows \in SUBSET Fields
  BY DEF Touched, Fields, ShippingFields
<1>2. ASSUME NEW f \in Fields, draft[f] # base[f], f[2] = "rate" => f[1] = market
      PROVE  f \in rate \/ f \in rows
  BY <1>2 DEF Touched, Fields, ShippingFields
<1> HIDE DEF rate, rows
<1>3. /\ CallsFit(SaveIf(rate)) /\ \A f \in rate : Sends(SaveIf(rate), f)
      /\ CallsFit(SaveIf(rows)) /\ \A f \in rows : Sends(SaveIf(rows), f)
  BY <1>1, SaveIfFits
<1>4. /\ CallsFit(SaveIf(rate) \o SaveIf(rows))
      /\ \A f : Sends(SaveIf(rate), f) \/ Sends(SaveIf(rows), f) => Sends(SaveIf(rate) \o SaveIf(rows), f)
  BY <1>3, CallsJoin
<1>5. ShippingCalls = SaveIf(rate) \o SaveIf(rows)
  BY DEF ShippingCalls, rate, rows
<1>. QED
  BY <1>2, <1>3, <1>4, <1>5

-----------------------------------------------------------------------------
(* Saving.                                                                 *)

\* The one call of the other screens.
LEMMA SnapshotCalls ==
  ASSUME screen \in Screens \ Costs, market \in Markets
  PROVE  \E fs \in SUBSET Fields :
           /\ Calls = <<[fields |-> fs, clears |-> fs]>>
           /\ \A f \in Fields : (screen \notin PerMarket \/ f[1] = market) => f \in fs
<1>1. CASE screen = "sheetSize"
  <2>1. {<<market, "size">>} \in SUBSET Fields
    BY <1>1 DEF Fields, SheetSizeFields
  <2>2. Calls = <<[fields |-> {<<market, "size">>}, clears |-> {<<market, "size">>}]>>
    BY <1>1 DEF Calls, SheetSizeCalls, SaveOf
  <2>3. \A f \in Fields : f[1] = market => f \in {<<market, "size">>}
    BY <1>1 DEF Fields, SheetSizeFields
  <2>. QED
    BY <1>1, <2>1, <2>2, <2>3 DEF PerMarket
<1>2. CASE screen = "materialMapping"
  <2>1. {<<market, "codes">>} \in SUBSET Fields
    BY <1>2 DEF Fields, MaterialMappingFields
  <2>2. Calls = <<[fields |-> {<<market, "codes">>}, clears |-> {<<market, "codes">>}]>>
    BY <1>2 DEF Calls, MaterialMappingCalls, SaveOf
  <2>3. \A f \in Fields : f[1] = market => f \in {<<market, "codes">>}
    BY <1>2 DEF Fields, MaterialMappingFields
  <2>. QED
    BY <1>2, <2>1, <2>2, <2>3 DEF PerMarket
<1>3. CASE screen = "settings"
  <2>1. Calls = <<[fields |-> Fields, clears |-> Fields]>>
    BY <1>3 DEF Calls, SettingsCalls, SaveOf, Fields
  <2>. QED
    BY <2>1
<1>4. CASE screen = "materials"
  <2>1. Calls = <<[fields |-> Fields, clears |-> Fields]>>
    BY <1>4 DEF Calls, MaterialsCalls, SaveOf, Fields
  <2>. QED
    BY <2>1
<1>. QED
  BY <1>1, <1>2, <1>3, <1>4 DEF Screens, Costs, PerMarket

\* A save begins with a call for every edit that is not excused.
LEMMA HandleSaveInv ==
  ASSUME DraftAssumption, DraftInv, NEW after \in {Leave, Nothing} \cup Tenants \cup Markets,
         HandleSave(after)
  PROVE  DraftInv'
<1>0. DraftTypeInv /\ OwnInv /\ WrittenInv /\ ShownInv /\ SaveInv
  BY DEF DraftInv
<1>1. /\ Len(Calls) > 0
      /\ save' = [on |-> TRUE, tenant |-> tenant, market |-> market, calls |-> Calls,
                  vals |-> draft, after |-> after]
      /\ blind' = IF load.at = "done" /\ ~overtaken THEN blind ELSE blind \cup {tenant}
      /\ UNCHANGED <<screen, tenant, market, draft, base, ticked, mounted, load, dialog, database,
                     edits, late, dropped, written, overtaken>>
  BY DEF HandleSave, shown, calls, counts
<1>2. Fields' = Fields /\ SaveCall' = SaveCall /\ Rows' = Rows /\ Saves' = Saves
  <2>1. Fields' = Fields /\ SaveCall' = SaveCall
    BY <1>1, FieldsStay
  <2>. QED
    BY <1>1, <2>1 DEF Rows, Values, Saves
<1>3. /\ save'.on /\ save'.tenant = tenant /\ save'.market = market /\ save'.calls = Calls
      /\ save'.vals = draft /\ save'.after = after
  BY <1>1
<1>4. /\ tenant \in Tenants /\ market \in Markets /\ draft \in Rows /\ screen \in Screens
      /\ edits \in Nat
  BY <1>0 DEF DraftTypeInv
<1>5. screen \in Costs => /\ CallsFit(Calls)
                          /\ \A f \in Fields : Unsaved(f) => Excused(f) \/ Sends(Calls, f)
  <2>1. \A f \in Fields : Unsaved(f) => Excused(f) \/ draft[f] # base[f]
    BY <1>0 DEF ShownInv, Excused
  <2>2. CASE screen = "printingCost"
    <3>1. Calls = PrintingCalls
      BY <2>2 DEF Calls
    <3>2. \A f \in Fields : draft[f] # base[f] /\ f = <<NoMarket, "custom">> => ticked
      BY <1>0, <2>2 DEF ShownInv
    <3>. QED
      BY <2>1, <2>2, <3>1, <3>2, PrintingCallsFit
  <2>3. CASE screen = "shippingCost"
    <3>1. Calls = ShippingCalls
      BY <2>3 DEF Calls
    <3>2. \A f \in Fields : Unsaved(f) => Excused(f) \/ (f[2] = "rate" => f[1] = market)
      BY <1>0, <2>3 DEF ShownInv
    <3>. QED
      BY <1>4, <2>1, <2>3, <3>1, <3>2, ShippingCallsFit
  <2>. QED
    BY <2>2, <2>3 DEF Costs
<1>6. Calls \in Seq(SaveCall)
  <2>1. CASE screen \in Costs
    BY <1>5, <2>1 DEF CallsFit
  <2>2. CASE screen \notin Costs
    <3>1. PICK fs \in SUBSET Fields : Calls = <<[fields |-> fs, clears |-> fs]>>
      BY <1>4, <2>2, SnapshotCalls
    <3>. QED
      BY <3>1, OneCallFits DEF CallsFit
  <2>. QED
    BY <2>1, <2>2
<1>7. save' \in Saves /\ save'.calls # <<>>
  <2>1. Calls # <<>>
    BY <1>1, <1>6
  <2>. QED
    BY <1>1, <1>3, <1>4, <1>6, <2>1 DEF Saves
<1>8. DraftTypeInv'
  BY <1>0, <1>1, <1>2, <1>7 DEF DraftTypeInv
<1>9. \A f \in Fields : /\ Unsaved(f)' <=> Unsaved(f)
                        /\ Excused(f)' <=> Excused(f)
                        /\ Bare(f)' <=> Bare(f)
  BY <1>1 DEF Unsaved, Excused, Bare
<1>10. OwnInv'
  <2>1. blind \subseteq blind' /\ (tenant \notin blind' => load.at = "done" /\ ~overtaken)
    BY <1>1
  <2>2. tenant \notin blind' => \A f \in Fields : draft[f].of = tenant
    BY <1>0, <2>1 DEF OwnInv
  <2>3. (save.on' /\ save.tenant' \notin blind') => \A f \in Fields' : save.vals'[f].of = save.tenant'
    BY <1>2, <1>3, <2>2
  <2>4. StoredIsOwn'
    BY <1>0, <1>1, <1>2, <2>1 DEF OwnInv, StoredIsOwn
  <2>. QED
    BY <1>0, <1>1, <1>2, <2>1, <2>3, <2>4 DEF OwnInv
<1>11. WrittenInv'
  BY <1>0, <1>1, <1>2 DEF WrittenInv, Known
<1>12. ShownInv'
  BY <1>0, <1>1, <1>2, <1>9 DEF ShownInv, Out
<1>13. SaveInv'
  <2>1. CASE screen \in Costs
    <3>1. \A f \in Fields : Unsaved(f)' => Excused(f)' \/ (InCalls(f)' /\ save'.vals[f] = draft'[f])
      BY <1>1, <1>3, <1>5, <1>9, <2>1 DEF InCalls, Sends
    <3>2. \A k \in 1 .. Len(Calls) : \A f \in Calls[k].clears : \E j \in 1 .. k : f \in Calls[j].fields
      BY <1>5, <2>1 DEF CallsFit
    <3>3. \A k \in 1 .. Len(save'.calls) : \A f \in save'.calls[k].clears :
            save'.vals[f] = draft'[f] /\ InFirst(f, k)'
      BY <1>1, <1>3, <3>2 DEF InFirst
    <3>4. CostSave'
      BY <1>2, <3>1, <3>3 DEF CostSave
    <3>. QED
      BY <1>1, <2>1, <3>4 DEF SaveInv
  <2>2. CASE screen \notin Costs
    <3>1. PICK fs \in SUBSET Fields :
            /\ Calls = <<[fields |-> fs, clears |-> fs]>>
            /\ \A f \in Fields : (screen \notin PerMarket \/ f[1] = market) => f \in fs
      BY <1>4, <2>2, SnapshotCalls
    <3>2. Len(Calls) = 1 /\ Calls[1].fields = fs
      BY <3>1
    <3>3. SnapshotSave'
      BY <1>1, <1>2, <1>3, <3>1, <3>2 DEF SnapshotSave
    <3>. QED
      BY <1>1, <2>2, <3>3 DEF SaveInv
  <2>. QED
    BY <2>1, <2>2
<1>. QED
  BY <1>8, <1>10, <1>11, <1>12, <1>13 DEF DraftInv

\* What an action does to what is open, selected and loading.
LEMMA GoesOn ==
  ASSUME NEW a \in {Leave} \cup Tenants \cup Markets, NEW reload \in BOOLEAN, Goes(a, reload),
         tenant \in Tenants, market \in Markets, screen' = screen
  PROVE  /\ mounted' \in BOOLEAN /\ tenant' \in Tenants /\ market' \in Markets
         /\ (load' = load /\ tenant' = tenant) \/ load' = Sent
         /\ edits' = edits
<1>1. /\ mounted' = (a # Leave)
      /\ tenant' = IF a \in Tenants THEN a ELSE tenant
      /\ market' = IF a \in Markets THEN a ELSE market
      /\ load' = IF a \in Tenants \/ reload THEN Sent ELSE load
      /\ edits' = edits
  BY DEF Goes
<1>. QED
  BY <1>1

\* An answer of a save stores what its call sent; what it clears it has stored; and when the
\* screen goes, what is not stored is excused.
LEMMA AnswerStores ==
  ASSUME DraftInv, SaveAnswered
  PROVE  /\ \A f \in Fields : Unsaved(f)' =>
              /\ Unsaved(f) /\ draft'[f] = draft[f] /\ base'[f] = base[f]
              /\ ~(f \in save.calls[1].fields /\ save.vals[f] = draft[f])
              /\ screen \notin Costs => f \notin save.calls[1].fields
         /\ \A f \in Fields : \/ draft'[f] = draft[f] /\ base'[f] \in {base[f], draft[f]}
                              \/ draft'[f] = save.vals[f] /\ base'[f] = save.vals[f]
         /\ \A f \in Fields : (screen \in Costs /\ base'[f] # base[f]) => ~Unsaved(f)'
         /\ screen \in Costs => draft' = draft
         /\ draft' \in Rows /\ base' \in Rows
         /\ screen' = screen
<1>0. DraftTypeInv /\ OwnInv /\ WrittenInv /\ ShownInv /\ SaveInv
  BY DEF DraftInv
<1> DEFINE c == save.calls[1]
<1>1. /\ save.on /\ Head(save.calls) = c /\ c \in SaveCall /\ c.fields \subseteq Fields
      /\ c.clears \subseteq Fields /\ save.vals \in Rows /\ Len(save.calls) \in Nat \ {0}
  BY <1>0, SaveOut DEF SaveAnswered
<1>2. /\ Stores(c) /\ screen' = screen /\ blind' = blind
      /\ screen \in Costs =>
           /\ base' = [f \in Fields |-> IF f \in c.clears THEN draft[f] ELSE base[f]]
           /\ draft' = draft
      /\ screen \notin Costs =>
           /\ draft' = [f \in Fields |-> IF f \in c.fields THEN save.vals[f] ELSE draft[f]]
           /\ base' = [f \in Fields |-> IF f \in c.fields THEN save.vals[f] ELSE base[f]]
  BY <1>1 DEF SaveAnswered, Fresh
<1>3. written \subseteq written' /\ \A f \in c.fields : save.vals[f].n \in written'
  BY <1>0, <1>1, <1>2, Stored
<1>4. draft \in Rows /\ base \in Rows
  BY <1>0 DEF DraftTypeInv
<1>5. draft' \in Rows /\ base' \in Rows
  <2>1. CASE screen \in Costs
    BY <1>2, <1>4, <2>1 DEF Rows
  <2>2. CASE screen \notin Costs
    BY <1>1, <1>2, <1>4, <2>2 DEF Rows
  <2>. QED
    BY <2>1, <2>2
<1>6. CASE screen \in Costs
  <2>1. CostSave
    BY <1>0, <1>1, <1>6 DEF SaveInv
  <2>2. \A f \in Fields : Unsaved(f)' => Unsaved(f) /\ ~(f \in c.fields /\ save.vals[f] = draft[f])
    BY <1>2, <1>3, <1>6 DEF Unsaved
  <2>3. \A f \in c.clears : Unsaved(f) => save.vals[f] = draft[f] /\ f \in c.fields
    BY <1>1, <2>1 DEF CostSave, InFirst
  <2>4. \A f \in Fields : /\ f \in c.clears => ~Unsaved(f)' /\ base'[f] = draft[f]
                          /\ f \notin c.clears => base'[f] = base[f]
    BY <1>2, <1>6, <2>2, <2>3
  <2>. QED
    BY <1>2, <1>5, <1>6, <2>2, <2>4
<1>7. CASE screen \notin Costs
  <2>1. \A f \in Fields : IF f \in c.fields THEN draft'[f] = save.vals[f] /\ base'[f] = save.vals[f]
                          ELSE draft'[f] = draft[f] /\ base'[f] = base[f]
    BY <1>2, <1>7
  <2>2. \A f \in Fields : Unsaved(f)' => f \notin c.fields /\ Unsaved(f)
    BY <1>3, <2>1 DEF Unsaved
  <2>. QED
    BY <1>2, <1>5, <1>7, <2>1, <2>2
<1>. QED
  BY <1>6, <1>7

\* The save ends, or goes on with its other calls.
LEMMA AnswerEnds ==
  ASSUME DraftInv, SaveAnswered
  PROVE  /\ save' \in {NoSave, [save EXCEPT !.calls = Tail(save.calls)]}
         /\ save'.on => Len(save.calls) > 1 /\ save' = [save EXCEPT !.calls = Tail(save.calls)]
         /\ mounted' \in BOOLEAN /\ tenant' \in Tenants /\ market' \in Markets
         /\ dialog' \in {Leave, Nothing} \cup Tenants \cup Markets
         /\ dropped \subseteq dropped' /\ late' = late /\ edits' = edits
         /\ (load' = load /\ tenant' = tenant) \/ load' = Sent
         /\ \/ load' = load /\ market' = market /\ mounted' = mounted
            \/ \A f \in Fields : Unsaved(f)' => f \in late' \cup dropped'
<1>0. DraftTypeInv /\ SaveInv
  BY DEF DraftInv
<1> DEFINE c == save.calls[1]
<1> DEFINE ends == Len(save.calls) = 1
<1> DEFINE goes == ends /\ save.after \notin {Nothing, tenant}
<1>1. /\ save.on /\ Head(save.calls) = c /\ Len(save.calls) \in Nat \ {0}
      /\ save.after \in {Leave, Nothing} \cup Tenants \cup Markets
      /\ tenant \in Tenants /\ market \in Markets /\ mounted \in BOOLEAN
      /\ dialog \in {Leave, Nothing} \cup Tenants \cup Markets
  BY <1>0, SaveOut DEF SaveAnswered, DraftTypeInv
<1>2. /\ screen' = screen /\ late' = late
      /\ save' = IF ends THEN NoSave ELSE [save EXCEPT !.calls = Tail(save.calls)]
      /\ dialog' = IF ends /\ save.after # Nothing THEN Nothing ELSE dialog
      /\ dropped' = IF goes /\ screen \in PerMarket
                    THEN dropped \cup {f \in Fields : Unsaved(f) /\ f[1] # save.market}
                    ELSE dropped
      /\ IF goes THEN Goes(save.after, FALSE)
         ELSE UNCHANGED <<mounted, tenant, market, calls, counts>>
  BY DEF SaveAnswered
<1>3. \A f \in Fields : Unsaved(f)' =>
              /\ Unsaved(f) /\ draft'[f] = draft[f]
              /\ ~(f \in c.fields /\ save.vals[f] = draft[f])
              /\ screen \notin Costs => f \notin c.fields
  BY AnswerStores
<1>4. save' \in {NoSave, [save EXCEPT !.calls = Tail(save.calls)]}
      /\ (save'.on => Len(save.calls) > 1 /\ save' = [save EXCEPT !.calls = Tail(save.calls)])
  <2>1. CASE ends
    BY <1>2, <2>1 DEF NoSave
  <2>2. CASE ~ends
    <3>1. Len(save.calls) \in Nat \ {0} /\ Len(save.calls) # 1
      BY <1>0, <1>1, <2>2, SaveOut
    <3>2. Len(save.calls) > 1
      <4>1. \A n \in Nat \ {0} : n # 1 => n > 1
        OBVIOUS
      <4>. QED
        BY <3>1, <4>1, Zenon
    <3>. QED
      BY <1>2, <2>2, <3>2, Zenon
  <2>. QED
    BY <2>1, <2>2
<1>5. dialog' \in {Leave, Nothing} \cup Tenants \cup Markets /\ dropped \subseteq dropped'
  BY <1>1, <1>2
<1>6. CASE ~goes
  <2>1. UNCHANGED <<mounted, tenant, market, load, edits>>
    BY <1>2, <1>6 DEF calls, counts
  <2>. QED
    BY <1>1, <1>2, <1>4, <1>5, <2>1
<1>7. CASE goes
  <2>1. save.after \in {Leave} \cup Tenants \cup Markets /\ Goes(save.after, FALSE) /\ ends
    BY <1>1, <1>2, <1>7
  <2>2. /\ mounted' \in BOOLEAN /\ tenant' \in Tenants /\ market' \in Markets
        /\ (load' = load /\ tenant' = tenant) \/ load' = Sent
        /\ edits' = edits
    BY <1>1, <1>2, <2>1, GoesOn
  <2>3. ASSUME NEW f \in Fields, Unsaved(f)' PROVE f \in late' \cup dropped'
    <3>1. CASE screen \in Costs
      <4>1. CostSave
        BY <1>0, <1>1, <3>1 DEF SaveInv
      <4>2. Excused(f) \/ (InCalls(f) /\ save.vals[f] = draft[f])
        BY <1>3, <2>3, <4>1 DEF CostSave
      <4>3. InCalls(f) => f \in c.fields
        BY <2>1 DEF InCalls
      <4>. QED
        BY <1>2, <1>3, <1>5, <2>3, <4>2, <4>3 DEF Excused
    <3>2. CASE screen \notin Costs
      <4>1. SnapshotSave
        BY <1>0, <1>1, <3>2 DEF SaveInv
      <4>2. Unsaved(f) /\ screen \in PerMarket /\ f[1] # save.market
        BY <1>3, <2>3, <3>2, <4>1 DEF SnapshotSave
      <4>. QED
        BY <1>2, <1>7, <4>2
    <3>. QED
      BY <3>1, <3>2
  <2>. QED
    BY <1>2, <1>4, <1>5, <2>2, <2>3
<1>. QED
  BY <1>6, <1>7

LEMMA SaveAnsweredInv ==
  ASSUME DraftInv, SaveAnswered
  PROVE  DraftInv'
<1>0. DraftTypeInv /\ OwnInv /\ WrittenInv /\ ShownInv /\ SaveInv
  BY DEF DraftInv
<1> DEFINE c == save.calls[1]
<1>1. /\ save.on /\ Stores(Head(save.calls)) /\ screen' = screen /\ ticked' = ticked
      /\ blind' = blind
      /\ overtaken' = (overtaken \/ (save.tenant # tenant /\ load.at = "done"))
  BY DEF SaveAnswered
<1>2. /\ save \in Saves /\ save.vals \in Rows /\ save.tenant \in Tenants
      /\ save.calls \in Seq(SaveCall) /\ Len(save.calls) \in Nat \ {0}
      /\ Tail(save.calls) \in Seq(SaveCall) /\ Len(Tail(save.calls)) = Len(save.calls) - 1
      /\ \A k \in 1 .. Len(save.calls) - 1 : Tail(save.calls)[k] = save.calls[k + 1]
  BY <1>0, <1>1, SaveOut
<1>3. /\ database' \in [Tenants -> Rows] /\ StoredIsOwn' /\ written \subseteq written'
      /\ \A t \in Tenants, f \in Fields : Known(database[t][f])'
  BY <1>0, <1>1, Stored
<1>4. /\ \A f \in Fields : Unsaved(f)' =>
              /\ Unsaved(f) /\ draft'[f] = draft[f] /\ base'[f] = base[f]
              /\ ~(f \in c.fields /\ save.vals[f] = draft[f])
              /\ screen \notin Costs => f \notin c.fields
      /\ \A f \in Fields : \/ draft'[f] = draft[f] /\ base'[f] \in {base[f], draft[f]}
                           \/ draft'[f] = save.vals[f] /\ base'[f] = save.vals[f]
      /\ \A f \in Fields : (screen \in Costs /\ base'[f] # base[f]) => ~Unsaved(f)'
      /\ screen \in Costs => draft' = draft
      /\ draft' \in Rows /\ base' \in Rows
  BY AnswerStores
<1>5. /\ save' \in {NoSave, [save EXCEPT !.calls = Tail(save.calls)]}
      /\ save'.on => Len(save.calls) > 1 /\ save' = [save EXCEPT !.calls = Tail(save.calls)]
      /\ mounted' \in BOOLEAN /\ tenant' \in Tenants /\ market' \in Markets
      /\ dialog' \in {Leave, Nothing} \cup Tenants \cup Markets
      /\ dropped \subseteq dropped' /\ late' = late /\ edits' = edits
      /\ (load' = load /\ tenant' = tenant) \/ load' = Sent
      /\ \/ load' = load /\ market' = market
         \/ \A f \in Fields : Unsaved(f)' => f \in late' \cup dropped'
  BY AnswerEnds
<1>6. Fields' = Fields /\ SaveCall' = SaveCall /\ Rows' = Rows /\ Saves' = Saves
  <2>1. Fields' = Fields /\ SaveCall' = SaveCall
    BY <1>1, FieldsStay
  <2>. QED
    BY <1>5, <2>1 DEF Rows, Values, Saves
<1>7. save'.on => /\ save' \in Saves /\ save'.calls = Tail(save.calls) /\ save'.calls # <<>>
                  /\ save'.tenant = save.tenant /\ save'.vals = save.vals
  <2>1. SUFFICES ASSUME save'.on
                 PROVE /\ save' \in Saves /\ save'.calls = Tail(save.calls) /\ save'.calls # <<>>
                       /\ save'.tenant = save.tenant /\ save'.vals = save.vals
    OBVIOUS
  <2>2. save' = [save EXCEPT !.calls = Tail(save.calls)] /\ Len(save.calls) > 1
    BY <1>5, <2>1
  <2>3. Tail(save.calls) # <<>>
    <3>1. Len(Tail(save.calls)) > 0
      BY <1>2, <2>2
    <3>. QED
      BY <3>1
  <2>. QED
    BY <1>2, <2>2, <2>3 DEF Saves
<1>8. [f \in Fields |-> Blank] \in Rows
  BY <1>0 DEF Rows, Values, Blank, DraftTypeInv
<1>9. (load' = load /\ tenant' = tenant)
      \/ load' = [at |-> "sent", data |-> [f \in Fields |-> Blank]]
  BY <1>5 DEF Sent
<1>10. DraftTypeInv'
  <2>1. save' \in Saves \cup {NoSave}
    <3>1. CASE save' = NoSave
      BY <3>1
    <3>2. CASE save' = [save EXCEPT !.calls = Tail(save.calls)]
      <4>1. save'.on
        BY <1>1, <1>2, <3>2 DEF Saves
      <4>. QED
        BY <1>7, <4>1
    <3>. QED
      BY <1>5, <3>1, <3>2
  <2>2. /\ load'.at \in {"sent", "read", "synced", "done", "failed"}
        /\ load' = [at |-> load'.at, data |-> load'.data] /\ load'.data \in Rows
    BY <1>0, <1>8, <1>9 DEF DraftTypeInv
  <2>3. overtaken' \in BOOLEAN
    BY <1>1, Zenon
  <2>. QED
    BY <1>0, <1>1, <1>3, <1>4, <1>5, <1>6, <1>7, <2>1, <2>2, <2>3 DEF DraftTypeInv
<1>11. OwnInv'
  <2>1. (save.on' /\ save.tenant' \notin blind') => \A f \in Fields' : save.vals'[f].of = save.tenant'
    BY <1>0, <1>1, <1>6, <1>7 DEF OwnInv
  <2>2. (load.at' \in {"read", "synced"} /\ tenant' \notin blind') =>
          \A f \in Fields' : load.data'[f].of = tenant'
    BY <1>0, <1>1, <1>6, <1>9 DEF OwnInv
  <2>3. ASSUME load.at' = "done", ~overtaken', tenant' \notin blind', NEW f \in Fields
        PROVE  draft'[f].of = tenant' /\ base'[f].of = tenant'
    <3>1. load' = load /\ tenant' = tenant /\ load.at = "done"
      BY <1>9, <2>3
    <3>2. ~overtaken /\ save.tenant = tenant
      BY <1>1, <2>3, <3>1
    <3>3. draft[f].of = tenant /\ base[f].of = tenant /\ save.vals[f].of = tenant
      BY <1>0, <1>1, <2>3, <3>1, <3>2 DEF OwnInv
    <3>4. \/ draft'[f] = draft[f] /\ (base'[f] = base[f] \/ base'[f] = draft[f])
          \/ draft'[f] = save.vals[f] /\ base'[f] = save.vals[f]
      BY <1>4
    <3>. QED
      BY <3>1, <3>3, <3>4
  <2>. QED
    BY <1>3, <1>6, <2>1, <2>2, <2>3 DEF OwnInv
<1>12. WrittenInv'
  <2>1. load.at' \in {"read", "synced"} => \A f \in Fields : Known(load.data[f])'
    BY <1>0, <1>3, <1>9 DEF WrittenInv, Known
  <2>2. ASSUME screen = "shippingCost", NEW f \in Fields PROVE Known(base[f])'
    <3>1. screen \in Costs /\ Known(base[f])
      BY <1>0, <2>2 DEF Costs, WrittenInv
    <3>2. CASE base'[f] = base[f]
      BY <1>3, <3>1, <3>2 DEF Known
    <3>3. CASE base'[f] # base[f]
      <4>1. ~Unsaved(f)' /\ base'[f] = draft'[f]
        BY <1>4, <3>1, <3>3
      <4>2. base'[f].n \in 0 .. edits /\ edits \in Nat
        BY <1>0, <1>4, RowOf DEF DraftTypeInv
      <4>. QED
        BY <4>1, <4>2 DEF Unsaved, Known
    <3>. QED
      BY <3>2, <3>3
  <2>. QED
    BY <1>1, <1>3, <1>6, <2>1, <2>2 DEF WrittenInv
<1>13. \A f \in Fields : /\ Unsaved(f)' => (Bare(f) => Bare(f)')
                         /\ Excused(f) => Excused(f)'
  BY <1>1, <1>4, <1>5 DEF Bare, Excused
<1>14. ShownInv'
  <2>1. \A f \in Fields : (Unsaved(f)' /\ draft'[f] = base'[f]) => f \in dropped'
    BY <1>0, <1>4, <1>5 DEF ShownInv
  <2>2. Out(load)' => \A f \in Fields : Unsaved(f)' => Excused(f)' \/ Bare(f)'
    <3>1. CASE load' = load
      BY <1>0, <1>4, <1>13, <3>1 DEF ShownInv, Out
    <3>2. CASE \A f \in Fields : Unsaved(f)' => f \in late' \cup dropped'
      BY <3>2 DEF Excused
    <3>. QED
      BY <1>5, <3>1, <3>2
  <2>3. (screen' = "printingCost" /\ ~ticked') =>
          draft'[<<NoMarket, "custom">>] = base'[<<NoMarket, "custom">>]
    <3>1. screen = "printingCost" => <<NoMarket, "custom">> \in Fields
      BY DEF Fields, PrintingFields
    <3>. QED
      BY <1>0, <1>1, <1>4, <3>1 DEF ShownInv
  <2>4. screen' = "shippingCost" =>
          \A f \in Fields : (Unsaved(f)' /\ f[2] = "rate" /\ f[1] # market') => Excused(f)'
    <3>1. CASE market' = market
      BY <1>0, <1>1, <1>4, <1>13, <3>1 DEF ShownInv
    <3>2. CASE \A f \in Fields : Unsaved(f)' => f \in late' \cup dropped'
      BY <3>2 DEF Excused
    <3>. QED
      BY <1>5, <3>1, <3>2
  <2>. QED
    BY <1>6, <2>1, <2>2, <2>3, <2>4 DEF ShownInv
<1>15. SaveInv'
  <2>1. SUFFICES ASSUME save'.on PROVE (IF screen \in Costs THEN CostSave ELSE SnapshotSave)'
    BY DEF SaveInv
  <2>2. Len(save.calls) > 1 /\ Len(save'.calls) = Len(save.calls) - 1
        /\ save'.vals = save.vals
        /\ \A k \in 1 .. Len(save'.calls) : save'.calls[k] = save.calls[k + 1]
    BY <1>2, <1>5, <1>7, <2>1
  <2>3. screen \in Costs
    BY <1>0, <1>1, <2>2 DEF SaveInv, SnapshotSave
  <2>4. CostSave
    BY <1>0, <1>1, <2>3 DEF SaveInv
  <2>5. \A k \in 2 .. Len(save.calls) : save.calls[k] = save'.calls[k - 1] /\ k - 1 \in 1 .. Len(save'.calls)
    BY <1>2, <2>2
  <2>6. ASSUME NEW f \in Fields, Unsaved(f)'
        PROVE  Excused(f)' \/ (InCalls(f)' /\ save'.vals[f] = draft'[f])
    <3>1. Excused(f) \/ (InCalls(f) /\ save.vals[f] = draft[f])
      BY <1>4, <2>4, <2>6 DEF CostSave
    <3>2. ASSUME InCalls(f), save.vals[f] = draft[f] PROVE InCalls(f)'
      <4>1. PICK k \in 1 .. Len(save.calls) : f \in save.calls[k].fields
        BY <3>2 DEF InCalls
      <4>2. k # 1
        BY <1>4, <2>6, <3>2, <4>1
      <4>3. k \in 2 .. Len(save.calls)
        BY <1>2, <4>2
      <4>. QED
        BY <2>5, <4>1, <4>3 DEF InCalls
    <3>. QED
      BY <1>4, <1>13, <2>2, <2>3, <3>1, <3>2
  <2>7. ASSUME NEW k \in 1 .. Len(save'.calls), NEW f \in save'.calls[k].clears, Unsaved(f)'
        PROVE  save'.vals[f] = draft'[f] /\ InFirst(f, k)'
    <3>1. k + 1 \in 1 .. Len(save.calls) /\ f \in save.calls[k + 1].clears /\ k \in Nat
      BY <1>2, <2>2, <2>7
    <3>2. f \in Fields
      <4>1. save.calls[k + 1] \in SaveCall
        BY <1>2, <3>1
      <4>. QED
        BY <3>1, <4>1 DEF SaveCall
    <3>3. save.vals[f] = draft[f] /\ InFirst(f, k + 1)
      BY <1>4, <2>4, <2>7, <3>1, <3>2 DEF CostSave
    <3>4. PICK j \in 1 .. k + 1 : f \in save.calls[j].fields
      BY <3>3 DEF InFirst
    <3>5. j # 1
      BY <1>4, <2>7, <3>2, <3>3, <3>4
    <3>6. j \in 2 .. Len(save.calls) /\ j - 1 \in 1 .. k
      BY <1>2, <3>1, <3>4, <3>5
    <3>. QED
      BY <1>4, <2>2, <2>3, <2>5, <3>3, <3>4, <3>6 DEF InFirst
  <2>8. CostSave'
    BY <1>6, <2>6, <2>7 DEF CostSave
  <2>. QED
    BY <1>1, <2>3, <2>8
<1>. QED
  BY <1>10, <1>11, <1>12, <1>14, <1>15 DEF DraftInv

-----------------------------------------------------------------------------
(* Leaving, and every step.                                                *)

\* An edit is unsaved without a touched field when it was given up, or when the sheet
\* names have nothing to compare it with.
LEMMA CleanIsExcused ==
  ASSUME DraftInv, ~Dirty
  PROVE  \A f \in Fields : Unsaved(f) => f \in late \cup dropped \/ Bare(f)
<1>1. ASSUME NEW f \in Fields, Unsaved(f) PROVE f \in late \cup dropped \/ Bare(f)
  <2>1. CASE draft[f] = base[f]
    BY <1>1, <2>1 DEF DraftInv, ShownInv
  <2>2. CASE draft[f] # base[f]
    BY <2>2 DEF Dirty, Bare
  <2>. QED
    BY <2>1, <2>2
<1>. QED
  BY <1>1

LEMMA ConfirmNavigationInv ==
  ASSUME DraftInv, NEW a \in {Leave} \cup Tenants \cup Markets, ConfirmNavigation(a)
  PROVE  DraftInv'
<1>0. /\ tenant \in Tenants /\ market \in Markets /\ draft \in Rows /\ screen \in Screens
      /\ dialog \in {Leave, Nothing} \cup Tenants \cup Markets /\ mounted \in BOOLEAN
  BY DEF DraftInv, DraftTypeInv
<1>1. UNCHANGED <<screen, draft, base, ticked, save, database, late, dropped, written, overtaken, blind>>
  BY DEF ConfirmNavigation, history
<1>2. CASE Dirty
  <2>1. dialog' = a /\ UNCHANGED <<mounted, tenant, market, load, edits>>
    BY <1>2 DEF ConfirmNavigation, calls, counts
  <2>. QED
    BY <1>0, <1>1, <2>1, Moved
<1>3. CASE ~Dirty
  <2>1. Goes(a, FALSE) /\ dialog' = dialog
    BY <1>3 DEF ConfirmNavigation
  <2>2. /\ mounted' \in BOOLEAN /\ tenant' \in Tenants /\ market' \in Markets
        /\ (load' = load /\ tenant' = tenant) \/ load' = Sent
        /\ edits' = edits
    BY <1>0, <1>1, <2>1, GoesOn
  <2>3. \A f \in Fields : Unsaved(f) => f \in late \cup dropped' \/ Bare(f)
    BY <1>1, <1>3, CleanIsExcused
  <2>4. screen = "shippingCost" => \A f \in Fields : Unsaved(f) => f \in late \cup dropped'
    BY <2>3 DEF Bare
  <2>. QED
    BY <1>0, <1>1, <2>1, <2>2, <2>3, <2>4, Moved
<1>. QED
  BY <1>2, <1>3

LEMMA DiscardInv ==
  ASSUME DraftInv, Discard
  PROVE  DraftInv'
<1>0. /\ tenant \in Tenants /\ market \in Markets /\ draft \in Rows /\ base \in Rows
      /\ dialog \in {Leave, Nothing} \cup Tenants \cup Markets
  BY DEF DraftInv, DraftTypeInv
<1>1. /\ UNCHANGED <<screen, base, ticked, save, database, late, written, overtaken, blind>>
      /\ dialog' = Nothing /\ dialog # Nothing /\ (screen \in Costs => ~save.on)
      /\ dropped' = dropped \cup {f \in Fields : Unsaved(f)}
      /\ Goes(dialog, screen \in Costs)
      /\ draft' = [f \in Fields |-> IF screen = "shippingCost" /\ f[2] = "rate" THEN base[f] ELSE draft[f]]
  BY DEF Discard, DialogOpen
<1>2. dialog \in {Leave} \cup Tenants \cup Markets
  BY <1>0, <1>1
<1>3. /\ mounted' \in BOOLEAN /\ tenant' \in Tenants /\ market' \in Markets
      /\ (load' = load /\ tenant' = tenant) \/ load' = Sent
      /\ edits' = edits
  <2>1. (screen \in Costs) \in BOOLEAN
    OBVIOUS
  <2> DEFINE reload == screen \in Costs
  <2>2. Goes(dialog, reload) /\ reload \in BOOLEAN /\ screen' = screen
    BY <1>1, <2>1
  <2> HIDE DEF reload
  <2>. QED
    BY <1>0, <1>2, <2>2, GoesOn
<1>4. draft' \in Rows
  BY <1>0, <1>1 DEF Rows
<1>5. \A f \in Fields : draft'[f] = draft[f] \/ (draft'[f] = base[f] /\ Known(base[f]))
  BY <1>1 DEF DraftInv, WrittenInv
<1>6. save'.on => draft' = draft
  <2>1. screen # "shippingCost" => draft' = draft
    BY <1>0, <1>1 DEF Rows
  <2>. QED
    BY <1>1, <2>1 DEF Costs
<1>7. \A f \in Fields : Unsaved(f) => f \in late \cup dropped'
  BY <1>1
<1>. QED
  BY <1>0, <1>1, <1>3, <1>4, <1>5, <1>6, <1>7, Moved

LEMMA QuietInv ==
  ASSUME DraftInv,
         \/ TenantsAnswer \/ LoadFails \/ Stay
         \/ \E t \in Tenants : StaleLoadAnswers(t)
         \/ \E m \in Markets : PickMarket(m)
  PROVE  DraftInv'
<1>0. /\ tenant \in Tenants /\ market \in Markets /\ draft \in Rows /\ mounted \in BOOLEAN
      /\ dialog \in {Leave, Nothing} \cup Tenants \cup Markets
  BY DEF DraftInv, DraftTypeInv
<1>1. /\ UNCHANGED <<screen, draft, base, ticked, mounted, tenant, save, database, edits, late,
                     dropped, written, overtaken, blind>>
      /\ load' = load \/ load' = [Sent EXCEPT !.at = "failed"]
      /\ dialog' \in {dialog, Nothing}
      /\ market' = market \/ (market' \in Markets /\ screen \in PerMarket)
  <2>1. CASE TenantsAnswer
    BY <2>1 DEF TenantsAnswer, shown, history
  <2>2. CASE LoadFails
    BY <2>2 DEF LoadFails, shown, history
  <2>3. CASE Stay
    BY <2>3 DEF Stay, shown, calls, counts, history
  <2>4. CASE \E t \in Tenants : StaleLoadAnswers(t)
    BY <2>4 DEF StaleLoadAnswers, shown, counts, history
  <2>5. CASE \E m \in Markets : PickMarket(m)
    BY <2>5 DEF PickMarket, calls, history
  <2>. QED
    BY <2>1, <2>2, <2>3, <2>4, <2>5
<1>2. market' = market \/ screen # "shippingCost"
  BY <1>1 DEF PerMarket
<1>. QED
  BY <1>0, <1>1, <1>2, Moved

LEMMA SaveEndsInv ==
  ASSUME DraftInv, SaveFails \/ SaveOutlivesScreen
  PROVE  DraftInv'
<1>0. /\ tenant \in Tenants /\ market \in Markets /\ draft \in Rows /\ mounted \in BOOLEAN
      /\ dialog \in {Leave, Nothing} \cup Tenants \cup Markets
  BY DEF DraftInv, DraftTypeInv
<1>1. /\ save.on /\ save' = NoSave
      /\ UNCHANGED <<screen, draft, base, ticked, mounted, tenant, market, load, dialog, edits, late,
                     dropped, overtaken, blind>>
      /\ UNCHANGED <<database, written>> \/ Stores(Head(save.calls))
  BY DEF SaveFails, SaveOutlivesScreen, shown, calls, counts
<1>2. CASE UNCHANGED <<database, written>>
  <2>1. ~save'.on
    BY <1>1 DEF NoSave
  <2>. QED
    BY <1>0, <1>1, <1>2, <2>1, Moved
<1>3. CASE Stores(Head(save.calls))
  BY <1>1, <1>3, StoresAlone DEF shown
<1>. QED
  BY <1>1, <1>2, <1>3

LEMMA LoadedInv ==
  ASSUME DraftInv,
         \/ LoadSheetSizes \/ LoadMaterialMappings \/ LoadSettings
         \/ LoadMaterials \/ LoadShippingCosts \/ LoadPrintingCosts
  PROVE  DraftInv' /\ LoadAnswers
<1>1. ticked \in BOOLEAN
  BY DEF DraftInv, DraftTypeInv
<1>2. LoadAnswers /\ ticked' \in BOOLEAN
  BY <1>1 DEF LoadSheetSizes, LoadMaterialMappings, LoadSettings, LoadMaterials, LoadShippingCosts,
              LoadPrintingCosts
<1>. QED
  BY <1>2, LoadAnswersInv

LEMMA SavesInv ==
  ASSUME DraftAssumption, DraftInv, SaveButton \/ DialogSave
  PROVE  DraftInv'
<1>1. dialog \in {Leave, Nothing} \cup Tenants \cup Markets
  BY DEF DraftInv, DraftTypeInv
<1>2. HandleSave(Nothing) \/ HandleSave(dialog)
  BY DEF SaveButton, DialogSave
<1>. QED
  BY <1>1, <1>2, HandleSaveInv

LEMMA DraftNextInv ==
  ASSUME DraftAssumption, DraftInv, DraftNext
  PROVE  DraftInv'
<1>1. CASE LoadReads
  BY <1>1, LoadReadsInv
<1>2. CASE SettingsSync
  BY <1>2, SettingsSyncInv
<1>3. CASE \/ LoadSheetSizes \/ LoadMaterialMappings \/ LoadSettings
           \/ LoadMaterials \/ LoadShippingCosts \/ LoadPrintingCosts
  BY <1>3, LoadedInv
<1>4. CASE \/ EditSheetSize \/ EditMaterialMapping \/ EditSettings \/ EditMaterials
           \/ EditShippingRate \/ EditShippingRow
           \/ EditPosterCost \/ EditPrintingRow \/ EditCustomCost
  BY <1>4, EditsInv
<1>5. CASE UpdateCustomPrintCostFlag
  BY <1>5, UpdateFlagInv
<1>6. CASE SaveButton \/ DialogSave
  BY <1>6, SavesInv
<1>7. CASE SaveAnswered
  BY <1>7, SaveAnsweredInv
<1>8. CASE SaveFails \/ SaveOutlivesScreen
  BY <1>8, SaveEndsInv
<1>9. CASE \E a \in {Leave} \cup Tenants \cup Markets : ConfirmNavigation(a)
  BY <1>9, ConfirmNavigationInv
<1>10. CASE Discard
  BY <1>10, DiscardInv
<1>11. CASE \/ TenantsAnswer \/ LoadFails \/ Stay
            \/ \E t \in Tenants : StaleLoadAnswers(t)
            \/ \E m \in Markets : PickMarket(m)
  BY <1>11, QuietInv
<1>. QED
  BY <1>1, <1>2, <1>3, <1>4, <1>5, <1>6, <1>7, <1>8, <1>9, <1>10, <1>11 DEF DraftNext

LEMMA DraftStutterInv ==
  ASSUME DraftInv, UNCHANGED draftVars
  PROVE  DraftInv'
<1>0. /\ tenant \in Tenants /\ market \in Markets /\ draft \in Rows /\ mounted \in BOOLEAN
      /\ dialog \in {Leave, Nothing} \cup Tenants \cup Markets
  BY DEF DraftInv, DraftTypeInv
<1>1. UNCHANGED <<screen, draft, base, ticked, mounted, tenant, market, load, save, dialog, database,
                  edits, late, dropped, written, overtaken, blind>>
  BY DEF draftVars, calls, shown, counts, history
<1>. QED
  BY <1>0, <1>1, Moved

\* The inductive invariant of the screens with drafts holds of every behaviour.
THEOREM DraftsHold == ASSUME DraftAssumption PROVE DraftSpec => []DraftInv
<1>1. Init => DraftInv
  BY DraftInitInv
<1>2. DraftInv /\ [DraftNext]_draftVars => DraftInv'
  BY DraftNextInv, DraftStutterInv
<1>. QED
  BY <1>1, <1>2, PTL DEF DraftSpec

\* A tenant's settings hold that tenant's rows (handleSave of the six screens), but for
\* saves made while not that tenant's data was shown.
THEOREM StoredStaysOwn == ASSUME DraftAssumption PROVE DraftSpec => []StoredIsOwn
<1>1. DraftInv => StoredIsOwn
  BY DEF DraftInv, OwnInv
<1>. QED
  BY <1>1, DraftsHold, PTL

-----------------------------------------------------------------------------
(* Edits are kept.                                                         *)

\* What EditsAreKept says of a step.
KeepsEdits ==
  \A f \in Fields :
       /\ Unsaved(f) /\ mounted
       /\ draft'[f] # draft[f] \/ ~mounted'
       /\ draft[f].n \notin written'
       =>
         \/ draft'[f].n = edits' /\ edits' > edits
         \/ f \in late \cup dropped \cup dropped'
         \/ screen = "settings" /\ base[f].of = NoTenant

LEMMA LoadKeepsEdits ==
  ASSUME DraftInv, LoadAnswers
  PROVE  KeepsEdits
<1>1. Out(load)
  BY DEF LoadAnswers, Out
<1>2. \A f \in Fields : Unsaved(f) => Excused(f) \/ Bare(f)
  BY <1>1 DEF DraftInv, ShownInv
<1>. QED
  BY <1>2 DEF KeepsEdits, Excused, Bare

LEMMA TypeKeepsEdits ==
  ASSUME DraftInv, NEW fs, Type(fs)
  PROVE  KeepsEdits
<1>1. /\ edits' = edits + 1 /\ mounted' = mounted
      /\ draft' = [f \in Fields |-> IF f \in fs THEN [draft[f] EXCEPT !.n = edits + 1] ELSE draft[f]]
  BY DEF Type
<1>2. ASSUME NEW f \in Fields, draft'[f] # draft[f] PROVE draft'[f].n = edits' /\ edits' > edits
  <2>1. draft[f] = [of |-> draft[f].of, n |-> draft[f].n] /\ edits \in Nat
    BY RowOf DEF DraftInv, DraftTypeInv
  <2>2. draft'[f] = [draft[f] EXCEPT !.n = edits + 1]
    BY <1>1, <1>2
  <2>3. draft'[f].n = edits + 1
    BY <2>1, <2>2
  <2>. QED
    BY <1>1, <2>1, <2>3
<1>. QED
  BY <1>1, <1>2 DEF KeepsEdits

LEMMA AnswerKeepsEdits ==
  ASSUME DraftInv, SaveAnswered
  PROVE  KeepsEdits
<1>1. SUFFICES ASSUME NEW f \in Fields, Unsaved(f), mounted, draft[f].n \notin written',
                      draft'[f] # draft[f] \/ ~mounted'
               PROVE  f \in late \cup dropped \cup dropped'
  BY DEF KeepsEdits
<1>2. CASE draft'[f] = draft[f]
  <2>1. Unsaved(f)' /\ ~mounted'
    BY <1>1, <1>2 DEF Unsaved
  <2>. QED
    BY <1>1, <2>1, AnswerEnds
<1>3. CASE draft'[f] # draft[f]
  <2>1. screen \notin Costs
    BY <1>3, AnswerStores
  <2>2. save.on /\ Head(save.calls) = save.calls[1]
    BY SaveOut DEF SaveAnswered, DraftInv
  <2>3. draft' = [g \in Fields |-> IF g \in save.calls[1].fields THEN save.vals[g] ELSE draft[g]]
    BY <2>1, <2>2 DEF SaveAnswered, Fresh
  <2>4. f \in save.calls[1].fields /\ draft[f] # save.vals[f]
    BY <1>3, <2>3
  <2>5. SnapshotSave
    BY <2>1, <2>2 DEF DraftInv, SaveInv
  <2>. QED
    BY <1>1, <2>4, <2>5 DEF SnapshotSave, Excused
<1>. QED
  BY <1>2, <1>3

LEMMA NavigationKeepsEdits ==
  ASSUME DraftInv, NEW a, ConfirmNavigation(a)
  PROVE  KeepsEdits
<1>1. draft' = draft /\ (Dirty => mounted' = mounted)
  BY DEF ConfirmNavigation
<1>2. ~Dirty => \A f \in Fields : Unsaved(f) => f \in late \cup dropped \/ Bare(f)
  BY CleanIsExcused
<1>. QED
  BY <1>1, <1>2 DEF KeepsEdits, Bare

LEMMA NextKeepsEdits ==
  ASSUME DraftInv, DraftNext
  PROVE  KeepsEdits
<1>1. CASE \/ LoadSheetSizes \/ LoadMaterialMappings \/ LoadSettings
           \/ LoadMaterials \/ LoadShippingCosts \/ LoadPrintingCosts
  BY <1>1, LoadedInv, LoadKeepsEdits
<1>2. CASE \/ EditSheetSize \/ EditMaterialMapping \/ EditSettings \/ EditMaterials
           \/ EditShippingRate \/ EditShippingRow
           \/ EditPosterCost \/ EditPrintingRow \/ EditCustomCost
           \/ UpdateCustomPrintCostFlag
  <2>1. \E fs : Type(fs)
    BY <1>2 DEF EditSheetSize, EditMaterialMapping, EditSettings, EditMaterials, EditShippingRate,
                EditShippingRow, EditPosterCost, EditPrintingRow, EditCustomCost, Edit,
                UpdateCustomPrintCostFlag
  <2>. QED
    BY <2>1, TypeKeepsEdits
<1>3. CASE SaveAnswered
  BY <1>3, AnswerKeepsEdits
<1>4. CASE \E a \in {Leave} \cup Tenants \cup Markets : ConfirmNavigation(a)
  BY <1>4, NavigationKeepsEdits
<1>5. CASE Discard
  <2>1. \A f \in Fields : Unsaved(f) => f \in dropped'
    BY <1>5 DEF Discard
  <2>. QED
    BY <2>1 DEF KeepsEdits
<1>6. CASE \/ TenantsAnswer \/ LoadReads \/ SettingsSync \/ LoadFails
           \/ \E t \in Tenants : StaleLoadAnswers(t)
           \/ SaveButton \/ DialogSave \/ SaveFails \/ SaveOutlivesScreen
           \/ \E m \in Markets : PickMarket(m)
           \/ Stay
  <2>1. draft' = draft /\ mounted' = mounted
    BY <1>6 DEF TenantsAnswer, LoadReads, SettingsSync, LoadFails, StaleLoadAnswers, SaveButton,
                DialogSave, HandleSave, SaveFails, SaveOutlivesScreen, PickMarket, Stay, shown
  <2>. QED
    BY <2>1 DEF KeepsEdits
<1>. QED
  BY <1>1, <1>2, <1>3, <1>4, <1>5, <1>6 DEF DraftNext

\* An edit that no save has stored stays on the screen until it is typed over
\* (handleSave, confirmNavigation, the loads of the six screens), but for the
\* exceptions the property names.
THEOREM EditsStay == ASSUME DraftAssumption PROVE DraftSpec => EditsAreKept
<1>1. DraftInv /\ [DraftNext]_draftVars => [KeepsEdits]_draftVars
  BY NextKeepsEdits
<1>2. DraftSpec => [][KeepsEdits]_draftVars
  BY <1>1, DraftsHold, PTL DEF DraftSpec
<1>. QED
  BY <1>2 DEF EditsAreKept, KeepsEdits

-----------------------------------------------------------------------------
(* The screens with records: the invariant.                                *)

Ids == Owners \X Nat
Records == [id : Ids, n : Nat]

\* A table: finitely many records, each id once.
Tables == {S \in SUBSET Records : IsFiniteSet(S) /\ \A r, s \in S : r.id = s.id => r = s}

ChangeCalls == [at : {"sent", "served", "replacing", "renamed"}, owner : Owners,
                id : Ids \cup {NoRecord}, n : Nat]
RemovalCalls == [at : {"sent", "served"}, owner : Owners, id : Ids]
ImportCalls == [at : {"stored", "read"}, data : Tables]

RecordTypeInv ==
  /\ page \in RecordPages /\ owner \in Owners /\ writes \in Nat /\ adrift \in BOOLEAN
  /\ list \in Seq(Records)
  /\ table \in [Owners -> Tables]
  /\ reading \in [at : {"no", "sent", "read"}, data : Tables]
  /\ import \in ImportCalls \cup {NoCall}
  /\ change \in ChangeCalls \cup {NoCall}
  /\ removal \in RemovalCalls \cup {NoCall}
  /\ form.open => form.id \in Ids \cup {NoRecord}
  /\ change.at \in {"replacing", "renamed"} => (page = "addresses" /\ change.id # NoRecord)
  /\ import # NoCall => page = "mappings"

\* The ids of a set of records, and the set without an id.
Named(S) == {r.id : r \in S}
Drop(S, id) == {r \in S : r.id # id}

\* The ids in use: on the screen, in what was read, being deleted, in the tables.
InUse ==
  Named(ToSet(list)) \cup Named(reading.data)
    \cup (IF import = NoCall THEN {} ELSE Named(import.data))
    \cup (IF removal = NoCall THEN {} ELSE {removal.id})
    \cup UNION {Named(table[o]) : o \in Owners}

\* No id is of a record not yet written; that of a save under way is used by none.
NumbersInv ==
  /\ \A id \in InUse : id[2] <= writes
  /\ (form.open /\ form.id # NoRecord) => form.id[2] <= writes
  /\ change # NoCall => /\ change.n <= writes
                        /\ change.id # NoRecord => change.id[2] <= writes
  /\ change.at = "sent" => NewId(change) \notin InUse

\* What was deleted is no longer there.
GoneInv ==
  removal.at = "served" =>
    /\ removal.id \notin IdsOf(removal.owner)
    /\ page = "users" => \A o \in Owners : removal.id \notin IdsOf(o)

\* What the answer of the save, and that of the deletion, will make of a set of records.
Wrote(c) == c.at \in {"served", "replacing", "renamed"}
Address(c) == [id |-> NewId(c), n |-> c.n]
Effect(c, S) ==
  CASE c.at = "served" /\ c.id = NoRecord -> S \cup {RecordOf(c)}
    [] c.at = "served" /\ c.id # NoRecord ->
         Drop(S, c.id) \cup (IF c.id \in Named(S) THEN {RecordOf(c)} ELSE {})
    [] c.at = "replacing" -> S \cup {Address(c)}
    [] c.at = "renamed" -> Drop(S, c.id) \cup {Address(c)}
    [] OTHER -> S
Less(S) == IF removal.at = "served" THEN Drop(S, removal.id) ELSE S

\* The answers to come are of the list that is shown.
Tracked ==
  /\ Wrote(change) => /\ change.owner = Scope(owner)
                      /\ (page = "addresses" /\ change.id # NoRecord) => Shows(change.id)
  /\ removal.at = "served" => removal.owner = Scope(owner)

\* Each id once.
Once(l) == \A i, j \in DOMAIN l : l[i].id = l[j].id => i = j

\* The list, with the answers to come, is the table; the id of a record that was
\* written and is not yet shown is new to it.
Follows ==
  /\ Once(list)
  /\ Less(Effect(change, ToSet(list))) = table[Scope(owner)]
  /\ Wrote(change) => /\ ~Shows(NewId(change))
                      /\ removal # NoCall => removal.id # NewId(change)
FollowsInv == (~adrift /\ reading.at = "no" /\ import = NoCall /\ Tracked) => Follows

RecordInv == RecordTypeInv /\ NumbersInv /\ GoneInv /\ FollowsInv

-----------------------------------------------------------------------------
(* Sets of records, and lists of them.                                     *)

\* A record more, and an id less.
LEMMA DropIs ==
  ASSUME NEW S, NEW r, NEW id
  PROVE  /\ r.id # id => Drop(S \cup {r}, id) = Drop(S, id) \cup {r}
         /\ r.id = id => Drop(S \cup {r}, id) = Drop(S, id)
         /\ id \notin Named(S) => Drop(S, id) = S
         /\ Named(S \cup {r}) = Named(S) \cup {r.id}
         /\ Named(Drop(S, id)) = Named(S) \ {id}
BY DEF Drop, Named

LEMMA DropsCommute ==
  ASSUME NEW S, NEW a, NEW b
  PROVE  Drop(Drop(S, a), b) = Drop(Drop(S, b), a) /\ Drop(Drop(S, a), a) = Drop(S, a)
BY DEF Drop

\* Tables stay tables.
LEMMA TablesStay ==
  ASSUME NEW S \in Tables, NEW id
  PROVE  /\ Drop(S, id) \in Tables
         /\ \A r \in Records : r.id \notin Named(S) => S \cup {r} \in Tables
         /\ \A r \in Records : r.id = id => Drop(S, id) \cup {r} \in Tables
         /\ {} \in Tables
         /\ \A x \in Named(S) : x \in Ids
<1>1. S \subseteq Records /\ IsFiniteSet(S) /\ \A r, s \in S : r.id = s.id => r = s
  BY DEF Tables
<1>2. Drop(S, id) \in Tables
  <2>1. IsFiniteSet(Drop(S, id))
    BY <1>1, FS_Subset DEF Drop
  <2>. QED
    BY <1>1, <2>1 DEF Drop, Tables
<1>3. ASSUME NEW T \in Tables, NEW r \in Records, r.id \notin Named(T)
      PROVE  T \cup {r} \in Tables
  <2>1. T \subseteq Records /\ IsFiniteSet(T) /\ \A p, q \in T : p.id = q.id => p = q
    BY DEF Tables
  <2>2. IsFiniteSet(T \cup {r})
    BY <2>1, FS_AddElement
  <2>3. \A p \in T : p.id # r.id
    BY <1>3 DEF Named
  <2>. QED
    BY <2>1, <2>2, <2>3 DEF Tables
<1>4. \A r \in Records : r.id = id => r.id \notin Named(Drop(S, id))
  BY DEF Named, Drop
<1>5. {} \in Tables
  BY FS_EmptySet DEF Tables
<1>6. \A x \in Named(S) : x \in Ids
  BY <1>1 DEF Named, Records
<1>. QED
  BY <1>2, <1>3, <1>4, <1>5, <1>6

\* A list's set, and what is shown of it.
LEMMA ListsSet ==
  ASSUME NEW l \in Seq(Records)
  PROVE  /\ ToSet(l) \subseteq Records
         /\ \A i \in DOMAIN l : l[i] \in ToSet(l)
         /\ \A r \in ToSet(l) : \E i \in DOMAIN l : r = l[i]
         /\ \A id : id \in Named(ToSet(l)) <=> \E i \in DOMAIN l : l[i].id = id
         /\ Len(l) \in Nat /\ DOMAIN l = 1 .. Len(l)
         /\ \A x \in Named(ToSet(l)) : x \in Ids
<1>1. Len(l) \in Nat /\ DOMAIN l = 1 .. Len(l) /\ \A i \in DOMAIN l : l[i] \in Records
  OBVIOUS
<1>2. ToSet(l) = {l[i] : i \in DOMAIN l}
  BY DEF ToSet
<1>. QED
  BY <1>1, <1>2 DEF Named, Records

\* The list of a table: its records, each once.
LEMMA ListOfTable ==
  ASSUME NEW S \in Tables
  PROVE  SetToSeq(S) \in Seq(Records) /\ ToSet(SetToSeq(S)) = S /\ Once(SetToSeq(S))
<1> DEFINE n == Cardinality(S)
<1> DEFINE Fits(f) == f \in [1 .. n -> S] /\ IsInjective(f)
<1> DEFINE l == CHOOSE f \in [1 .. n -> S] : IsInjective(f)
<1>1. S \subseteq Records /\ IsFiniteSet(S) /\ \A r, s \in S : r.id = s.id => r = s
  BY DEF Tables
<1>2. n \in Nat /\ ExistsBijection(1 .. n, S)
  BY <1>1, FS_CardinalityType
<1>3. PICK f \in [1 .. n -> S] : \A a, b \in 1 .. n : f[a] = f[b] => a = b
  BY <1>2 DEF ExistsBijection, Bijection, Injection, IsInjective
<1>4. IsInjective(f)
  BY <1>3 DEF IsInjective
<1>5. l \in [1 .. n -> S] /\ IsInjective(l)
  BY <1>4
<1>6. SetToSeq(S) = l
  BY DEF SetToSeq
<1> HIDE DEF l
<1>7. \A a, b \in 1 .. n : l[a] = l[b] => a = b
  BY <1>5 DEF IsInjective
<1>8. Cardinality(1 .. n) = n /\ IsFiniteSet(1 .. n)
  BY <1>2, FS_Interval
<1>9. l \in Injection(1 .. n, S)
  BY <1>5 DEF Injection
<1>10. l \in Surjection(1 .. n, S)
  BY <1>1, <1>8, <1>9, FS_Injection
<1>11. \A r \in S : \E i \in 1 .. n : l[i] = r
  BY <1>10 DEF Surjection
<1>12. l \in Seq(Records)
  BY <1>1, <1>2, <1>5
<1>13. ToSet(l) = S
  BY <1>5, <1>11 DEF ToSet
<1>14. Once(l)
  BY <1>1, <1>5, <1>7 DEF Once
<1>. QED
  BY <1>6, <1>12, <1>13, <1>14

\* What ListWithout makes of the list, step by step.
LEMMA WithoutSteps ==
  ASSUME list \in Seq(Records), NEW id
  PROVE  \E s \in [0 .. Len(list) -> Seq(Records)] :
           /\ s[0] = <<>>
           /\ \A i \in 1 .. Len(list) :
                s[i] = IF list[i].id # id THEN Append(s[i - 1], list[i]) ELSE s[i - 1]
           /\ ListWithout(id) = s[Len(list)]
<1> DEFINE len == Len(list)
<1> DEFINE Next1(p, i) == IF list[i].id # id THEN Append(p, list[i]) ELSE p
<1> DEFINE step == [p \in Seq(Records) \X (1 .. len) |-> Next1(p[1], p[2])]
<1> DEFINE Eq(f) == f = [k \in 0 .. len |->
                          IF k = 0 THEN <<>>
                          ELSE IF list[k].id # id THEN Append(f[k - 1], list[k]) ELSE f[k - 1]]
<1>0. len \in Nat /\ \A i \in 1 .. len : list[i] \in Records
  OBVIOUS
<1>1. step \in [Seq(Records) \X (1 .. len) -> Seq(Records)] /\ <<>> \in Seq(Records)
  <2>1. ASSUME NEW p \in Seq(Records) \X (1 .. len) PROVE Next1(p[1], p[2]) \in Seq(Records)
    <3>1. p[1] \in Seq(Records) /\ list[p[2]] \in Records
      BY <1>0
    <3>. QED
      BY <3>1
  <2>. QED
    BY <2>1
<1>2. PICK s \in [0 .. len -> Seq(Records)] : Iterated(s, <<>>, len, step)
  <2> HIDE DEF step, len
  <2>. QED
    BY <1>0, <1>1, Iterates
<1>3. ASSUME NEW i \in 1 .. len PROVE s[i] = Next1(s[i - 1], i)
  <2>1. s[i - 1] \in Seq(Records)
    <3>1. i - 1 \in 0 .. len
      BY <1>0
    <3>. QED
      BY <3>1
  <2>. QED
    BY <1>2, <2>1 DEF Iterated
<1>4. Eq(s)
  <2>1. s = [k \in 0 .. len |-> s[k]]
    OBVIOUS
  <2>2. \A k \in 0 .. len : k # 0 => k \in 1 .. len
    BY <1>0
  <2>. QED
    BY <1>2, <1>3, <2>1, <2>2 DEF Iterated
<1> DEFINE c == CHOOSE f : Eq(f)
<1>5. Eq(c)
  <2> HIDE DEF Eq
  <2>. QED
    BY <1>4
<1>6. ListWithout(id) = c[len]
  BY DEF ListWithout
<1>7. c[len] = s[len]
  <2>0. \A n \in Nat : n + 1 <= len => n + 1 \in 1 .. len /\ (n + 1) - 1 = n
    BY <1>0
  <2> HIDE DEF c
  <2>1. c[0] = <<>>
    BY <1>5, <1>0
  <2>2. ASSUME NEW n \in Nat, n + 1 <= len
        PROVE  c[n + 1] = Next1(c[n], n + 1)
    <3>1. n + 1 \in 0 .. len /\ n + 1 # 0 /\ (n + 1) - 1 = n
      BY <1>0, <2>2
    <3>. QED
      BY <1>5, <3>1
  <2> DEFINE N == {n \in Nat : n <= len => c[n] = s[n]}
  <2>3. 0 \in N
    BY <1>2, <2>1 DEF Iterated
  <2>4. ASSUME NEW n \in Nat, n \in N PROVE n + 1 \in N
    <3>1. SUFFICES ASSUME n + 1 <= len PROVE c[n + 1] = s[n + 1]
      OBVIOUS
    <3>2. n + 1 \in 1 .. len /\ c[n] = s[n]
      BY <1>0, <2>4, <3>1
    <3>. QED
      BY <1>3, <2>0, <2>2, <3>1, <3>2
  <2>5. Nat \subseteq N
    <3> HIDE DEF N
    <3>. QED
      BY <2>3, <2>4, FromZero
  <2>. QED
    BY <1>0, <2>5
<1>. QED
  <2> HIDE DEF c
  <2>. QED
    BY <1>2, <1>3, <1>6, <1>7 DEF Iterated

\* A record at the end.
LEMMA AppendedList ==
  ASSUME NEW l \in Seq(Records), NEW r \in Records
  PROVE  /\ Append(l, r) \in Seq(Records)
         /\ ToSet(Append(l, r)) = ToSet(l) \cup {r}
         /\ (Once(l) /\ r.id \notin Named(ToSet(l))) => Once(Append(l, r))
<1>1. Len(l) \in Nat /\ Append(l, r) \in Seq(Records) /\ Len(Append(l, r)) = Len(l) + 1
  OBVIOUS
<1>2. \A i \in 1 .. Len(l) + 1 : Append(l, r)[i] = IF i <= Len(l) THEN l[i] ELSE r
  BY <1>1
<1>3. DOMAIN l = 1 .. Len(l) /\ DOMAIN Append(l, r) = 1 .. Len(l) + 1
  BY <1>1
<1> DEFINE a == Append(l, r)
<1> HIDE DEF a
<1>4. ToSet(a) = ToSet(l) \cup {r}
  <2>1. \A x \in ToSet(a) : x \in ToSet(l) \cup {r}
    BY <1>1, <1>2, <1>3 DEF ToSet, a
  <2>2. \A x \in ToSet(l) : x \in ToSet(a)
    <3>1. \A i \in 1 .. Len(l) : i \in 1 .. Len(l) + 1 /\ i <= Len(l)
      BY <1>1
    <3>. QED
      BY <1>2, <1>3, <3>1 DEF ToSet, a
  <2>3. r \in ToSet(a)
    <3>1. Len(l) + 1 \in 1 .. Len(l) + 1 /\ ~(Len(l) + 1 <= Len(l))
      BY <1>1
    <3>. QED
      BY <1>2, <1>3, <3>1 DEF ToSet, a
  <2>. QED
    BY <2>1, <2>2, <2>3
<1>5. ASSUME Once(l), r.id \notin Named(ToSet(l)) PROVE Once(a)
  <2>1. SUFFICES ASSUME NEW i \in 1 .. Len(l) + 1, NEW j \in 1 .. Len(l) + 1, a[i].id = a[j].id
                 PROVE  i = j
    BY <1>3 DEF Once, a
  <2>2. \A k \in 1 .. Len(l) : l[k].id # r.id
    BY <1>3, <1>5, ListsSet
  <2>3. \A k \in 1 .. Len(l) + 1 : k \in 1 .. Len(l) \/ (k = Len(l) + 1 /\ ~(k <= Len(l)))
    BY <1>1
  <2>4. \A k \in 1 .. Len(l) : k <= Len(l)
    BY <1>1
  <2>5. \A k \in 1 .. Len(l) : a[k] = l[k]
    BY <1>1, <1>2, <2>4 DEF a
  <2>6. a[Len(l) + 1] = r
    BY <1>1, <1>2 DEF a
  <2>. QED
    BY <1>3, <1>5, <2>1, <2>2, <2>3, <2>5, <2>6 DEF Once
<1>. QED
  BY <1>1, <1>4, <1>5 DEF a

\* ListWithout takes out the record of that id and keeps the others.
LEMMA WithoutList ==
  ASSUME list \in Seq(Records), NEW id
  PROVE  /\ ListWithout(id) \in Seq(Records)
         /\ ToSet(ListWithout(id)) = Drop(ToSet(list), id)
         /\ Once(list) => Once(ListWithout(id))
<1> DEFINE len == Len(list)
<1>1. PICK s \in [0 .. len -> Seq(Records)] :
        /\ s[0] = <<>>
        /\ \A i \in 1 .. len : s[i] = IF list[i].id # id THEN Append(s[i - 1], list[i]) ELSE s[i - 1]
        /\ ListWithout(id) = s[len]
  BY WithoutSteps
<1>2. len \in Nat /\ DOMAIN list = 1 .. len /\ \A i \in 1 .. len : list[i] \in Records
  OBVIOUS
<1> DEFINE Sofar(n) == {list[i] : i \in 1 .. n}
<1> DEFINE N == {n \in Nat : n <= len => /\ ToSet(s[n]) = Drop(Sofar(n), id)
                                         /\ Once(list) => Once(s[n])}
<1>3. 0 \in N
  <2>1. Sofar(0) = {}
    OBVIOUS
  <2>2. ToSet(<<>>) = {} /\ Once(<<>>)
    BY DEF ToSet, Once
  <2>. QED
    BY <1>1, <2>1, <2>2 DEF Drop
<1>4. ASSUME NEW n \in Nat, n \in N PROVE n + 1 \in N
  <2> HIDE DEF Sofar
  <2>1. SUFFICES ASSUME n + 1 <= len
                 PROVE  /\ ToSet(s[n + 1]) = Drop(Sofar(n + 1), id)
                        /\ Once(list) => Once(s[n + 1])
    OBVIOUS
  <2> DEFINE r == list[n + 1]
  <2>2. n \in 0 .. len /\ n <= len /\ n + 1 \in 1 .. len /\ (n + 1) - 1 = n
    BY <1>2, <2>1
  <2>3. /\ s[n] \in Seq(Records) /\ r \in Records
        /\ ToSet(s[n]) = Drop(Sofar(n), id) /\ (Once(list) => Once(s[n]))
    BY <1>2, <1>4, <2>2
  <2>4. s[n + 1] = IF r.id # id THEN Append(s[n], r) ELSE s[n]
    BY <1>1, <2>2
  <2>5. Sofar(n + 1) = Sofar(n) \cup {r}
    <3>1. \A i \in 1 .. n + 1 : i \in 1 .. n \/ i = n + 1
      OBVIOUS
    <3>2. \A i \in 1 .. n : i \in 1 .. n + 1
      OBVIOUS
    <3>. QED
      BY <2>2, <3>1, <3>2 DEF Sofar
  <2>6. Drop(Sofar(n + 1), id) = IF r.id # id THEN Drop(Sofar(n), id) \cup {r} ELSE Drop(Sofar(n), id)
    BY <2>5 DEF Drop
  <2>7. Once(list) => r.id \notin Named(ToSet(s[n]))
    <3>1. \A i \in 1 .. n : i # n + 1 /\ i \in 1 .. len
      BY <1>2, <2>1
    <3>2. Once(list) => \A i \in 1 .. n : list[i].id # r.id
      BY <1>2, <2>2, <3>1 DEF Once
    <3>. QED
      BY <2>3, <3>2 DEF Drop, Named, Sofar
  <2> HIDE DEF r
  <2>. QED
    BY <2>3, <2>4, <2>6, <2>7, AppendedList
<1>5. Nat \subseteq N
  <2> HIDE DEF N
  <2>. QED
    BY <1>3, <1>4, FromZero
<1>6. ToSet(list) = Sofar(len)
  BY <1>2 DEF ToSet
<1> HIDE DEF Sofar
<1>7. s[len] \in Seq(Records) /\ ToSet(s[len]) = Drop(Sofar(len), id) /\ (Once(list) => Once(s[len]))
  BY <1>2, <1>5
<1>. QED
  BY <1>1, <1>6, <1>7

\* A record in the place of another one.
LEMMA ReplacedList ==
  ASSUME list \in Seq(Records), NEW old, NEW r \in Records
  PROVE  /\ Replaced(old, r) \in Seq(Records)
         /\ ToSet(Replaced(old, r)) =
              Drop(ToSet(list), old) \cup (IF old \in Named(ToSet(list)) THEN {r} ELSE {})
         /\ (Once(list) /\ (r.id = old \/ r.id \notin Named(ToSet(list)))) => Once(Replaced(old, r))
<1> DEFINE len == Len(list)
<1> DEFINE new == Replaced(old, r)
<1>1. len \in Nat /\ DOMAIN list = 1 .. len /\ \A i \in 1 .. len : list[i] \in Records
  OBVIOUS
<1>2. new = [i \in 1 .. len |-> IF list[i].id = old THEN r ELSE list[i]]
  BY <1>1 DEF Replaced
<1>3. new \in Seq(Records) /\ DOMAIN new = 1 .. len
  BY <1>1, <1>2
<1> HIDE DEF new
<1>4. \A i \in 1 .. len : new[i] = IF list[i].id = old THEN r ELSE list[i]
  BY <1>2
<1>5. ToSet(new) = Drop(ToSet(list), old) \cup (IF old \in Named(ToSet(list)) THEN {r} ELSE {})
  BY <1>1, <1>3, <1>4 DEF ToSet, Drop, Named
<1>6. ASSUME Once(list), r.id = old \/ r.id \notin Named(ToSet(list)) PROVE Once(new)
  <2>1. SUFFICES ASSUME NEW i \in 1 .. len, NEW j \in 1 .. len, new[i].id = new[j].id PROVE i = j
    BY <1>3 DEF Once
  <2>2. r.id = old \/ \A k \in 1 .. len : list[k].id # r.id
    BY <1>1, <1>6, ListsSet
  <2>. QED
    BY <1>1, <1>4, <1>6, <2>1, <2>2 DEF Once
<1>. QED
  BY <1>3, <1>5, <1>6 DEF new

-----------------------------------------------------------------------------
(* What the answers to come make of a list.                                *)

\* The record of a save.
LEMMA RowIs ==
  ASSUME RecordAssumption, NEW c \in ChangeCalls
  PROVE  /\ RecordOf(c) \in Records /\ RecordOf(c).id = (IF c.id = NoRecord THEN NewId(c) ELSE c.id)
         /\ RecordOf(c).n = c.n
         /\ Address(c) \in Records /\ Address(c).id = NewId(c) /\ Address(c).n = c.n
         /\ NewId(c) \in Ids /\ NewId(c)[2] = c.n /\ NewId(c) # NoRecord
         /\ c.owner \in Owners /\ c.n \in Nat /\ c.id \in Ids \cup {NoRecord}
         /\ c # NoCall
BY DEF RecordOf, Address, NewId, ChangeCalls, Records, Ids, RecordAssumption, NoCall

\* A save under another state of the call.
LEMMA ChangeAt ==
  ASSUME RecordAssumption, NEW c \in ChangeCalls, NEW at \in {"sent", "served", "replacing", "renamed"}
  PROVE  LET d == [c EXCEPT !.at = at]
         IN  /\ d \in ChangeCalls /\ d.at = at /\ d.owner = c.owner /\ d.id = c.id /\ d.n = c.n
             /\ RecordOf(d) = RecordOf(c) /\ Address(d) = Address(c) /\ NewId(d) = NewId(c)
<1>1. c = [at |-> c.at, owner |-> c.owner, id |-> c.id, n |-> c.n]
  BY DEF ChangeCalls
<1>2. [c EXCEPT !.at = at] = [at |-> at, owner |-> c.owner, id |-> c.id, n |-> c.n]
  BY <1>1
<1>3. c.owner \in Owners /\ c.id \in Ids \cup {NoRecord} /\ c.n \in Nat
  BY DEF ChangeCalls
<1>. QED
  BY <1>2, <1>3 DEF ChangeCalls, RecordOf, Address, NewId

\* A removal under another state of the call.
LEMMA RemovalServedIs ==
  ASSUME NEW c \in RemovalCalls
  PROVE  LET d == [c EXCEPT !.at = "served"]
         IN  d \in RemovalCalls /\ d.at = "served" /\ d.owner = c.owner /\ d.id = c.id /\ d # NoCall
<1>1. c = [at |-> c.at, owner |-> c.owner, id |-> c.id]
  BY DEF RemovalCalls
<1>2. [c EXCEPT !.at = "served"] = [at |-> "served", owner |-> c.owner, id |-> c.id]
  BY <1>1
<1>. QED
  BY <1>2 DEF RemovalCalls, NoCall

\* The calls, by their state.
LEMMA CallsAre ==
  ASSUME RecordTypeInv
  PROVE  /\ change.at \in {"no", "sent", "served", "replacing", "renamed"}
         /\ change.at = "no" <=> change = NoCall
         /\ change.at # "no" => change \in ChangeCalls
         /\ removal.at \in {"no", "sent", "served"}
         /\ removal.at = "no" <=> removal = NoCall
         /\ removal.at # "no" => removal \in RemovalCalls /\ removal.id \in Ids /\ removal.owner \in Owners
         /\ import.at \in {"no", "stored", "read"}
         /\ import.at = "no" <=> import = NoCall
         /\ import.at # "no" => import \in ImportCalls /\ import.data \in Tables
         /\ reading.at \in {"no", "sent", "read"} /\ reading.data \in Tables
BY DEF RecordTypeInv, ChangeCalls, RemovalCalls, ImportCalls, NoCall

\* What a save makes of a set.
LEMMA EffectIs ==
  ASSUME NEW c, NEW S
  PROVE  /\ ~Wrote(c) => Effect(c, S) = S
         /\ (c.at = "served" /\ c.id = NoRecord) => Effect(c, S) = S \cup {RecordOf(c)}
         /\ (c.at = "served" /\ c.id # NoRecord /\ c.id \in Named(S)) =>
              Effect(c, S) = Drop(S, c.id) \cup {RecordOf(c)}
         /\ (c.at = "served" /\ c.id # NoRecord /\ c.id \notin Named(S)) =>
              Effect(c, S) = Drop(S, c.id)
         /\ c.at = "replacing" => Effect(c, S) = S \cup {Address(c)}
         /\ c.at = "renamed" => Effect(c, S) = Drop(S, c.id) \cup {Address(c)}
BY DEF Effect, Wrote

\* The tenant whose list is shown, and what it shows.
LEMMA ScopeIs ==
  ASSUME RecordAssumption, RecordTypeInv
  PROVE  /\ Scope(owner) \in Owners /\ table[Scope(owner)] \in Tables
         /\ page # "tenants" => Scope(owner) = owner
         /\ \A id : Shows(id) <=> id \in Named(ToSet(list))
         /\ \A o \in Owners : IdsOf(o) = Named(table[o])
         /\ \A o, id : Without(o, id) = Drop(table[o], id)
BY ListsSet DEF RecordAssumption, RecordTypeInv, Scope, Shows, IdsOf, Named, Without, Drop

\* What touches none of the lists, calls and tables.
LEMMA RestStep ==
  ASSUME RecordInv,
         UNCHANGED <<page, owner, list, reading, change, removal, import, table, writes, adrift>>,
         form'.open => (form'.id \in Ids \cup {NoRecord} /\ (form'.id # NoRecord => form'.id[2] <= writes))
  PROVE  RecordInv'
<1> USE DEF RecordInv
<1>1. RecordTypeInv'
  BY DEF RecordTypeInv
<1>2. NumbersInv'
  BY DEF NumbersInv, InUse, NewId
<1>3. GoneInv'
  BY DEF GoneInv, IdsOf
<1>4. Tracked' = Tracked /\ Follows' = Follows
  BY DEF Tracked, Follows, Scope, Shows, Less
<1>5. FollowsInv'
  BY <1>4 DEF FollowsInv
<1>. QED
  BY <1>1, <1>2, <1>3, <1>5

-----------------------------------------------------------------------------
(* Loading, and the change of tenant.                                      *)

\* Fewer ids are in use, and no save is new.
LEMMA FewerInUse ==
  ASSUME NumbersInv, InUse' \subseteq InUse, writes' = writes, form' = form \/ form' = Closed,
         \/ change' = change
         \/ change' = NoCall
         \/ change # NoCall /\ change'.at # "sent" /\ change'.n = change.n /\ change'.id = change.id
  PROVE  NumbersInv'
<1>1. CASE change' = change
  BY <1>1 DEF NumbersInv, Closed, NewId
<1>2. CASE change' = NoCall
  BY <1>2 DEF NumbersInv, Closed, NoCall
<1>3. CASE change # NoCall /\ change'.at # "sent" /\ change'.n = change.n /\ change'.id = change.id
  BY <1>3 DEF NumbersInv, Closed
<1>. QED
  BY <1>1, <1>2, <1>3

\* The ids of a table are in use.
LEMMA TablesInUse ==
  ASSUME NEW o \in Owners
  PROVE  Named(table[o]) \subseteq InUse
BY DEF InUse

LEMMA ListReadStep ==
  ASSUME RecordAssumption, RecordInv, ListRead
  PROVE  RecordInv'
<1> USE DEF RecordInv, ListRead
<1>1. Scope(owner) \in Owners /\ table[Scope(owner)] \in Tables
  BY ScopeIs
<1>2. RecordTypeInv'
  BY <1>1 DEF RecordTypeInv
<1>3. InUse' \subseteq InUse
  <2>1. Named(reading'.data) \subseteq InUse
    BY <1>1, TablesInUse
  <2>. QED
    BY <2>1 DEF InUse
<1>4. NumbersInv'
  BY <1>3, FewerInUse
<1>5. GoneInv'
  BY DEF GoneInv, IdsOf
<1>6. FollowsInv'
  BY DEF FollowsInv
<1>. QED
  BY <1>2, <1>4, <1>5, <1>6

\* The list is the table that was read, and no save of its tenant is to be answered.
LEMMA ShownTable ==
  ASSUME RecordAssumption, RecordInv, RecordTypeInv', GoneInv', page' = page, owner' = owner,
         change' = change, removal' = removal, table' = table,
         NEW S \in Tables, list' = SetToSeq(S),
         adrift' = (S # table[Scope(owner)] \/ Served(change))
  PROVE  FollowsInv'
<1>1. SUFFICES ASSUME ~adrift', Tracked' PROVE Follows'
  BY DEF FollowsInv
<1>2. S = table[Scope(owner)] /\ ~Served(change) /\ Scope(owner) \in Owners /\ Scope(owner)' = Scope(owner)
  BY <1>1, ScopeIs DEF RecordInv, Scope
<1>3. ~Wrote(change)
  BY <1>1, <1>2 DEF Tracked, Wrote, Served
<1>4. ToSet(list') = S /\ Once(list')
  BY ListOfTable
<1>5. Effect(change', ToSet(list')) = S /\ ~Wrote(change')
  BY <1>3, <1>4, EffectIs
<1>6. Less(S)' = S
  <2>1. CASE removal.at = "served"
    <3>1. removal.id \notin Named(S)
      BY <1>1, <1>2, <2>1 DEF Tracked, GoneInv, IdsOf, Named, RecordInv
    <3>. QED
      BY <2>1, <3>1, DropIs DEF Less
  <2>2. CASE removal.at # "served"
    BY <2>2 DEF Less
  <2>. QED
    BY <2>1, <2>2
<1>. QED
  BY <1>2, <1>4, <1>5, <1>6 DEF Follows

LEMMA ListLoadedStep ==
  ASSUME RecordAssumption, RecordInv, ListLoaded
  PROVE  RecordInv'
<1> USE DEF ListLoaded
<1>1. reading.data \in Tables /\ RecordTypeInv
  BY CallsAre DEF RecordInv
<1>2. {} \in Tables
  BY <1>1, TablesStay
<1>3. list' \in Seq(Records) /\ ToSet(list') = reading.data
  BY <1>1, ListOfTable
<1>4. adrift' \in BOOLEAN
  <2>1. (reading.data # table[Scope(owner)] \/ Served(change)) \in BOOLEAN
    BY Zenon
  <2>. QED
    BY <2>1
<1>5. RecordTypeInv'
  BY <1>1, <1>2, <1>3, <1>4 DEF RecordTypeInv, NoRead
<1>6. InUse' \subseteq InUse
  BY <1>3 DEF InUse, NoRead, Named
<1>7. NumbersInv'
  BY <1>6, FewerInUse DEF RecordInv
<1>8. GoneInv'
  BY DEF GoneInv, IdsOf, RecordInv
<1>9. FollowsInv'
  BY <1>1, <1>5, <1>8, ShownTable
<1>. QED
  BY <1>5, <1>7, <1>8, <1>9 DEF RecordInv

LEMMA ListFailsStep ==
  ASSUME RecordAssumption, RecordInv, ListFails
  PROVE  RecordInv'
<1> USE DEF ListFails, RecordInv
<1>1. {} \in Tables
  BY CallsAre, TablesStay
<1>2. RecordTypeInv'
  BY <1>1 DEF RecordTypeInv, NoRead
<1>3. InUse' \subseteq InUse
  BY DEF InUse, NoRead, Named
<1>4. NumbersInv'
  BY <1>3, FewerInUse
<1>5. GoneInv'
  BY DEF GoneInv, IdsOf
<1>6. FollowsInv'
  BY DEF FollowsInv
<1>. QED
  BY <1>2, <1>4, <1>5, <1>6

LEMMA SwitchTenantStep ==
  ASSUME RecordAssumption, RecordInv, NEW o \in Owners, SwitchTenant(o)
  PROVE  RecordInv'
<1> USE DEF SwitchTenant, RecordInv
<1>1. {} \in Tables
  BY CallsAre, TablesStay
<1>2. RecordTypeInv'
  BY <1>1 DEF RecordTypeInv
<1>3. InUse' \subseteq InUse
  BY DEF InUse, Named
<1>4. NumbersInv'
  BY <1>3, FewerInUse
<1>5. GoneInv'
  BY DEF GoneInv, IdsOf
<1>6. FollowsInv'
  BY DEF FollowsInv
<1>. QED
  BY <1>2, <1>4, <1>5, <1>6

\* The number of an id in use.
LEMMA InUseNumbers ==
  ASSUME RecordInv, NEW id \in InUse
  PROVE  id \in Ids /\ id[2] \in Nat /\ id[2] <= writes /\ id[2] <= writes + 1
<1>1. list \in Seq(Records) /\ table \in [Owners -> Tables]
  BY DEF RecordInv, RecordTypeInv
<1>2. \A S \in Tables : \A x \in Named(S) : x \in Ids
  BY TablesStay
<1>3. \A x \in Named(ToSet(list)) : x \in Ids
  BY <1>1, ListsSet
<1>4. id \in Ids
  <2>1. \A o \in Owners : \A x \in Named(table[o]) : x \in Ids
    BY <1>1, <1>2
  <2>2. reading.data \in Tables /\ (import # NoCall => import.data \in Tables)
        /\ (removal # NoCall => removal.id \in Ids)
    BY CallsAre DEF RecordInv
  <2>. QED
    BY <1>2, <1>3, <2>1, <2>2 DEF InUse
<1>5. id[2] \in Nat
  BY <1>4 DEF Ids
<1>6. id[2] <= writes /\ writes \in Nat
  BY DEF RecordInv, NumbersInv, RecordTypeInv
<1>. QED
  BY <1>4, <1>5, <1>6

-----------------------------------------------------------------------------
(* The import.                                                             *)

LEMMA HandleImportStep ==
  ASSUME RecordAssumption, RecordInv, HandleImport
  PROVE  RecordInv'
<1> USE DEF RecordInv
<1>0. /\ import' = [at |-> "stored", data |-> {}] /\ writes' = writes + 1
      /\ UNCHANGED <<page, owner, list, loaded, busy, tenantsCall, reading, superseded, form, change,
                     removal, failures, switches, adrift>>
      /\ import = NoCall /\ page = "mappings"
  BY DEF HandleImport, InReach
<1>1. PICK id \in IdsOf(owner) \cup {NoRecord} :
        LET r == RecordOf([owner |-> owner, id |-> id, n |-> writes + 1])
        IN table' = [table EXCEPT ![owner] = Without(owner, r.id) \cup {r}]
  BY DEF HandleImport
<1> DEFINE r == [id |-> IF id = NoRecord THEN <<owner, writes + 1>> ELSE id, n |-> writes + 1]
<1>2. r = RecordOf([owner |-> owner, id |-> id, n |-> writes + 1])
  BY DEF RecordOf, NewId
<1>3. owner \in Owners /\ writes \in Nat /\ IdsOf(owner) = Named(table[owner]) /\ table[owner] \in Tables
  BY ScopeIs DEF RecordTypeInv
<1>4. r \in Records /\ (r.id \in Named(table[owner]) \/ r.id = <<owner, writes + 1>>)
  <2>1. id = NoRecord \/ (id \in Ids /\ id \in Named(table[owner]))
    BY <1>3, TablesStay
  <2>2. <<owner, writes + 1>> \in Ids /\ writes + 1 \in Nat
    BY <1>3 DEF Ids
  <2>. QED
    BY <2>1, <2>2 DEF Records
<1> HIDE DEF r
<1>5. table' = [table EXCEPT ![owner] = Drop(table[owner], r.id) \cup {r}]
  BY <1>1, <1>2 DEF Without, Drop
<1>6. Drop(table[owner], r.id) \cup {r} \in Tables /\ {} \in Tables
  BY <1>3, <1>4, TablesStay
<1>7. RecordTypeInv'
  BY <1>0, <1>3, <1>5, <1>6 DEF RecordTypeInv, ImportCalls, NoCall
<1>8. InUse' \subseteq InUse \cup {<<owner, writes + 1>>}
  <2>1. Named(Drop(table[owner], r.id) \cup {r}) \subseteq Named(table[owner]) \cup {r.id}
    BY DEF Named, Drop
  <2>2. Named(table[owner]) \subseteq InUse
    BY <1>3, TablesInUse
  <2>3. \A o \in Owners : Named(table'[o]) \subseteq InUse \cup {<<owner, writes + 1>>}
    <3>1. ASSUME NEW o \in Owners PROVE Named(table'[o]) \subseteq InUse \cup {<<owner, writes + 1>>}
      <4>1. table \in [Owners -> Tables]
        BY DEF RecordTypeInv
      <4>2. CASE o = owner
        BY <1>4, <1>5, <2>1, <2>2, <4>1, <4>2
      <4>3. CASE o # owner
        BY <1>5, <4>1, <4>3, TablesInUse
      <4>. QED
        BY <4>2, <4>3
    <3>. QED
      BY <3>1
  <2>4. Named(import'.data) = {} /\ list' = list /\ reading' = reading /\ removal' = removal
    BY <1>0 DEF Named
  <2>. QED
    BY <2>3, <2>4 DEF InUse
<1>9. NumbersInv'
  <2>1. \A id0 \in InUse' : id0[2] <= writes'
    BY <1>0, <1>3, <1>8, InUseNumbers
  <2>2. change.at = "sent" => NewId(change) # <<owner, writes + 1>>
    <3>1. SUFFICES ASSUME change.at = "sent", NewId(change) = <<owner, writes + 1>> PROVE FALSE
      OBVIOUS
    <3>2. change.n \in Nat /\ change.n <= writes /\ change.n = writes + 1
      BY <3>1, CallsAre, RowIs DEF NumbersInv, NewId
    <3>. QED
      BY <1>3, <3>2
  <2>3. change # NoCall => change.n \in Nat /\ (change.id # NoRecord => change.id[2] \in Nat)
    BY CallsAre DEF ChangeCalls, Ids
  <2>4. form.open /\ form.id # NoRecord => form.id[2] \in Nat
    BY DEF RecordTypeInv, Ids
  <2>5. \A k \in Nat : k <= writes => k <= writes + 1
    BY <1>3
  <2>. QED
    BY <1>0, <1>8, <2>1, <2>2, <2>3, <2>4, <2>5 DEF NumbersInv, NewId
<1>10. GoneInv'
  <2>0. \A o \in Owners : o # owner => table'[o] = table[o]
    BY <1>5 DEF RecordTypeInv
  <2>1. SUFFICES ASSUME removal.at = "served", removal.owner = owner
                 PROVE  removal.id \notin IdsOf(owner)'
    BY <1>0, <2>0, CallsAre DEF GoneInv, IdsOf
  <2>2. removal.id # r.id
    <3>1. removal.id \in InUse /\ removal.id \notin Named(table[owner])
      BY <2>1, <1>3, CallsAre DEF GoneInv, InUse
    <3>2. removal.id # <<owner, writes + 1>>
      BY <1>3, <3>1 DEF NumbersInv
    <3>. QED
      BY <1>4, <3>1, <3>2
  <2>. QED
    BY <1>0, <1>3, <1>5, <2>1, <2>2 DEF GoneInv, IdsOf, Drop, Named, RecordTypeInv
<1>11. FollowsInv'
  BY <1>0 DEF FollowsInv, NoCall
<1>. QED
  BY <1>7, <1>9, <1>10, <1>11

LEMMA ImportReadsStep ==
  ASSUME RecordAssumption, RecordInv, ImportReads
  PROVE  RecordInv'
<1> USE DEF RecordInv, ImportReads
<1>1. owner \in Owners /\ table[owner] \in Tables /\ import # NoCall
  BY DEF RecordTypeInv, NoCall
<1>2. RecordTypeInv'
  BY <1>1 DEF RecordTypeInv, ImportCalls
<1>3. InUse' \subseteq InUse
  <2>1. Named(import'.data) \subseteq InUse
    BY <1>1, TablesInUse
  <2>. QED
    BY <2>1 DEF InUse
<1>4. NumbersInv'
  BY <1>3, FewerInUse
<1>5. GoneInv'
  BY DEF GoneInv, IdsOf
<1>6. FollowsInv'
  BY DEF FollowsInv, NoCall
<1>. QED
  BY <1>2, <1>4, <1>5, <1>6

LEMMA ImportShownStep ==
  ASSUME RecordAssumption, RecordInv, ImportShown
  PROVE  RecordInv'
<1> USE DEF ImportShown
<1>1. import.data \in Tables /\ RecordTypeInv /\ import # NoCall
  BY CallsAre DEF RecordInv
<1>2. Scope(owner) = owner
  BY <1>1, ScopeIs DEF RecordTypeInv
<1>3. list' \in Seq(Records) /\ ToSet(list') = import.data
  BY <1>1, ListOfTable
<1>4. adrift' \in BOOLEAN
  <2>1. (import.data # table[owner] \/ Served(change)) \in BOOLEAN
    BY Zenon
  <2>. QED
    BY <2>1
<1>5. RecordTypeInv'
  BY <1>1, <1>3, <1>4 DEF RecordTypeInv
<1>6. InUse' \subseteq InUse
  BY <1>1, <1>3 DEF InUse
<1>7. NumbersInv'
  BY <1>6, FewerInUse DEF RecordInv
<1>8. GoneInv'
  BY DEF GoneInv, IdsOf, RecordInv
<1>9. FollowsInv'
  BY <1>1, <1>2, <1>5, <1>8, ShownTable
<1>. QED
  BY <1>5, <1>7, <1>8, <1>9 DEF RecordInv

LEMMA ImportFailsStep ==
  ASSUME RecordAssumption, RecordInv, ImportFails
  PROVE  RecordInv'
<1> USE DEF ImportFails, RecordInv
<1>1. RecordTypeInv'
  BY DEF RecordTypeInv
<1>2. InUse' \subseteq InUse
  BY DEF InUse
<1>3. NumbersInv'
  BY <1>2, FewerInUse
<1>4. GoneInv'
  BY DEF GoneInv, IdsOf
<1>5. FollowsInv'
  BY DEF FollowsInv
<1>. QED
  BY <1>1, <1>3, <1>4, <1>5

-----------------------------------------------------------------------------
(* The saves.                                                              *)

LEMMA SubmitsStep ==
  ASSUME RecordAssumption, RecordInv, Submits
  PROVE  RecordInv'
<1> USE DEF RecordInv, Submits
<1> DEFINE c == [at |-> "sent", owner |-> Scope(owner), id |-> form.id, n |-> writes + 1]
<1>1. Scope(owner) \in Owners /\ form.id \in Ids \cup {NoRecord} /\ writes \in Nat
  BY ScopeIs DEF RecordTypeInv
<1>2. change' = c /\ c \in ChangeCalls /\ c # NoCall /\ NewId(c) = <<Scope(owner), writes + 1>>
  BY <1>1 DEF ChangeCalls, NoCall, NewId
<1>3. RecordTypeInv'
  BY <1>1, <1>2 DEF RecordTypeInv
<1>4. NumbersInv'
  <2>1. InUse' = InUse
    BY DEF InUse
  <2>2. \A id \in InUse : id[2] <= writes + 1 /\ id # NewId(c)
    <3>1. ASSUME NEW id \in InUse PROVE id[2] <= writes + 1 /\ id # NewId(c)
      <4>1. id[2] \in Nat /\ id[2] <= writes /\ id[2] <= writes + 1
        BY InUseNumbers
      <4>. QED
        BY <1>1, <1>2, <4>1
    <3>. QED
      BY <3>1
  <2>3. (form.open /\ form.id # NoRecord) => form.id[2] <= writes + 1
    BY <1>1 DEF NumbersInv, Ids
  <2>4. writes + 1 <= writes + 1
    BY <1>1
  <2>. QED
    BY <1>2, <2>1, <2>2, <2>3, <2>4 DEF NumbersInv
<1>5. GoneInv'
  BY DEF GoneInv, IdsOf
<1>6. FollowsInv'
  <2>1. ~Wrote(c) /\ ~Wrote(change)
    BY DEF Wrote, NoCall
  <2>2. Effect(c, ToSet(list)) = ToSet(list) /\ Effect(change, ToSet(list)) = ToSet(list)
    BY <2>1, EffectIs
  <2>3. Tracked' => Tracked
    BY <2>1 DEF Tracked, Scope
  <2>4. Follows => Follows'
    BY <1>2, <2>1, <2>2 DEF Follows, Scope, Less
  <2>. QED
    BY <2>3, <2>4 DEF FollowsInv
<1>. QED
  BY <1>3, <1>4, <1>5, <1>6

\* What the service makes of the tables.
ByRow(id) ==
  /\ change' = [change EXCEPT !.at = "served"]
  /\ id = RecordOf(change).id
  /\ \/ change.id = NoRecord
     \/ change.id \in Named(table[change.owner])
     \/ page = "users" /\ \E o \in Owners : change.id \in Named(table[o])
  /\ table'[change.owner] = Drop(table[change.owner], id) \cup {RecordOf(change)}
  /\ \A o \in Owners : o # change.owner =>
       \/ table'[o] = table[o]
       \/ page = "users" /\ table'[o] = Drop(table[o], id)

ByText ==
  /\ page = "addresses" /\ change.id # NoRecord
  /\ change' = [change EXCEPT !.at = "replacing"]
  /\ table'[change.owner] = table[change.owner] \cup {Address(change)}
  /\ \A o \in Owners : o # change.owner => table'[o] = table[o]

LEMMA ChangeServedTables ==
  ASSUME RecordAssumption, RecordTypeInv, ChangeServed
  PROVE  /\ change \in ChangeCalls /\ change.owner \in Owners
         /\ DOMAIN table' = Owners /\ table' = [o \in Owners |-> table'[o]]
         /\ ByRow(RecordOf(change).id) \/ ByText
<1>1. change.at = "sent" /\ change \in ChangeCalls /\ change.owner \in Owners
  BY CallsAre, RowIs DEF ChangeServed
<1>2. table \in [Owners -> Tables]
  BY DEF RecordTypeInv
<1> DEFINE id == RecordOf(change).id
<1>3. \A o \in Owners : Without(o, id) = Drop(table[o], id) /\ IdsOf(o) = Named(table[o])
  BY DEF Without, Drop, IdsOf, Named
<1> HIDE DEF id
<1>4. CASE (HandleSubmit \/ HandleSaveTenant) /\ change' = [change EXCEPT !.at = "served"]
  <2>1. /\ change.id = NoRecord \/ change.id \in Named(table[change.owner])
        /\ table' = [table EXCEPT ![change.owner] = Drop(table[change.owner], id) \cup {RecordOf(change)}]
    BY <1>1, <1>3, <1>4 DEF HandleSubmit, HandleSaveTenant, ServesRow, id
  <2>2. ByRow(id)
    BY <1>1, <1>2, <1>4, <2>1 DEF ByRow, id
  <2>. QED
    BY <1>1, <1>2, <2>1, <2>2 DEF id
<1>5. CASE HandleSaveUser /\ change' = [change EXCEPT !.at = "served"]
  <2>1. /\ page = "users"
        /\ change.id = NoRecord \/ \E o \in Owners : change.id \in Named(table[o])
        /\ table' = [o \in Owners |->
                       Drop(table[o], id) \cup (IF o = change.owner THEN {RecordOf(change)} ELSE {})]
    BY <1>3, <1>5 DEF HandleSaveUser, id
  <2>2. ByRow(id)
    BY <1>1, <1>2, <1>5, <2>1 DEF ByRow, id
  <2>. QED
    BY <1>1, <1>2, <2>1, <2>2 DEF id
<1>6. CASE HandleSaveDeliveryAddress
  <2>1. CASE /\ change.id = NoRecord \/ change.id \in IdsOf(change.owner)
             /\ table' = [table EXCEPT ![change.owner] =
                            Without(change.owner, RecordOf(change).id) \cup {RecordOf(change)}]
             /\ change' = [change EXCEPT !.at = "served"]
    <3>1. /\ change.id = NoRecord \/ change.id \in Named(table[change.owner])
          /\ table' = [table EXCEPT ![change.owner] = Drop(table[change.owner], id) \cup {RecordOf(change)}]
      BY <1>1, <1>3, <2>1 DEF id
    <3>2. ByRow(id)
      BY <1>1, <1>2, <2>1, <3>1 DEF ByRow, id
    <3>. QED
      BY <1>1, <1>2, <3>1, <3>2 DEF id
  <2>2. CASE /\ change.id # NoRecord
             /\ table' = [table EXCEPT ![change.owner] = @ \cup {[id |-> NewId(change), n |-> change.n]}]
             /\ change' = [change EXCEPT !.at = "replacing"]
    <3>1. ByText
      BY <1>1, <1>2, <1>6, <2>2 DEF ByText, Address, HandleSaveDeliveryAddress
    <3>. QED
      BY <1>1, <1>2, <2>2, <3>1
  <2>. QED
    BY <1>6, <2>1, <2>2 DEF HandleSaveDeliveryAddress
<1>. QED
  BY <1>4, <1>5, <1>6 DEF ChangeServed

\* By either, the tables are tables, of ids that are in use or the save's.
LEMMA ServedTables ==
  ASSUME RecordAssumption, RecordInv, ChangeServed
  PROVE  /\ table' \in [Owners -> Tables]
         /\ InUse' \subseteq InUse \cup {NewId(change)}
<1> DEFINE c == change
<1>1. /\ c \in ChangeCalls /\ c.owner \in Owners
      /\ DOMAIN table' = Owners /\ table' = [o \in Owners |-> table'[o]]
      /\ ByRow(RecordOf(c).id) \/ ByText
  BY ChangeServedTables DEF RecordInv
<1>2. c.at = "sent" /\ UNCHANGED <<list, reading, import, removal>>
  BY DEF ChangeServed
<1>3. /\ RecordOf(c) \in Records /\ RecordOf(c).id = (IF c.id = NoRecord THEN NewId(c) ELSE c.id)
      /\ Address(c) \in Records /\ Address(c).id = NewId(c)
  BY <1>1, RowIs
<1>4. table \in [Owners -> Tables] /\ NewId(c) \notin InUse
  BY <1>2 DEF RecordInv, RecordTypeInv, NumbersInv
<1>5. \A o \in Owners : Named(table[o]) \subseteq InUse /\ NewId(c) \notin Named(table[o])
  BY <1>4, TablesInUse
<1>6. ASSUME NEW o \in Owners
      PROVE  table'[o] \in Tables /\ Named(table'[o]) \subseteq InUse \cup {NewId(c)}
  <2>1. /\ \A id : Drop(table[o], id) \in Tables
        /\ \A r \in Records : r.id \notin Named(table[o]) => table[o] \cup {r} \in Tables
        /\ \A r \in Records : Drop(table[o], r.id) \cup {r} \in Tables
    BY <1>4, TablesStay
  <2>2. CASE ByRow(RecordOf(c).id)
    <3>1. RecordOf(c).id \in InUse \cup {NewId(c)}
      BY <1>1, <1>3, <1>5, <2>2 DEF ByRow
    <3>2. \/ table'[o] = table[o]
          \/ table'[o] = Drop(table[o], RecordOf(c).id)
          \/ table'[o] = Drop(table[o], RecordOf(c).id) \cup {RecordOf(c)}
      BY <1>1, <2>2 DEF ByRow
    <3>3. table'[o] \in Tables
      BY <1>3, <1>4, <2>1, <3>2
    <3>4. Named(table'[o]) \subseteq Named(table[o]) \cup {RecordOf(c).id}
      BY <3>2 DEF Named, Drop
    <3>. QED
      BY <1>5, <3>1, <3>3, <3>4
  <2>3. CASE ByText
    <3>1. table'[o] = table[o] \/ table'[o] = table[o] \cup {Address(c)}
      BY <1>1, <2>3 DEF ByText
    <3>2. table'[o] \in Tables
      BY <1>3, <1>4, <1>5, <2>1, <3>1
    <3>3. Named(table'[o]) \subseteq Named(table[o]) \cup {NewId(c)}
      BY <1>3, <3>1 DEF Named
    <3>. QED
      BY <1>5, <3>2, <3>3
  <2>. QED
    BY <1>1, <2>2, <2>3
<1>7. table' \in [Owners -> Tables]
  BY <1>1, <1>6
<1>8. InUse' \subseteq InUse \cup {NewId(c)}
  BY <1>2, <1>6 DEF InUse
<1>. QED
  BY <1>7, <1>8

\* The list, with the answer to come, follows the table that the service wrote.
LEMMA ServedFollows ==
  ASSUME RecordAssumption, RecordInv, ChangeServed
  PROVE  FollowsInv'
<1> DEFINE c == change
<1> DEFINE L == ToSet(list)
<1> DEFINE T == table[Scope(owner)]
<1>1. /\ c \in ChangeCalls /\ c.owner \in Owners
      /\ ByRow(RecordOf(c).id) \/ ByText
  BY ChangeServedTables DEF RecordInv
<1>2. c.at = "sent" /\ UNCHANGED <<page, owner, list, reading, import, removal>>
  BY DEF ChangeServed
<1>3. SUFFICES ASSUME ~adrift', reading.at = "no", import = NoCall, Tracked' PROVE Follows'
  BY <1>2 DEF FollowsInv
<1>4. /\ RecordOf(c).id = (IF c.id = NoRecord THEN NewId(c) ELSE c.id) /\ Address(c).id = NewId(c)
      /\ NewId(c) # NoRecord
  BY <1>1, RowIs
<1>5. /\ Scope(owner) \in Owners /\ Scope(owner)' = Scope(owner)
      /\ \A id : Shows(id) <=> id \in Named(L)
      /\ Named(T) = IdsOf(Scope(owner))
  BY <1>2, ScopeIs DEF RecordInv, Scope
<1>6. Wrote(change') /\ NewId(change') = NewId(c) /\ c.owner = Scope(owner)
  <2>1. change' = [c EXCEPT !.at = "served"] \/ change' = [c EXCEPT !.at = "replacing"]
    BY <1>1 DEF ByRow, ByText
  <2>2. Wrote(change') /\ NewId(change') = NewId(c) /\ change'.owner = c.owner
    <3>1. CASE change' = [c EXCEPT !.at = "served"]
      BY <1>1, <3>1, ChangeAt DEF Wrote
    <3>2. CASE change' = [c EXCEPT !.at = "replacing"]
      BY <1>1, <3>2, ChangeAt DEF Wrote
    <3>. QED
      BY <2>1, <3>1, <3>2
  <2>. QED
    BY <1>3, <1>5, <2>2 DEF Tracked
<1>7. ~adrift /\ (c.id # NoRecord => c.id \in Named(T))
  BY <1>3, <1>5, <1>6 DEF ChangeServed
<1>8. Tracked /\ ~Wrote(c)
  BY <1>2, <1>3, <1>5 DEF Tracked, Wrote
<1>9. Once(list) /\ Less(L) = T
  BY <1>3, <1>7, <1>8, EffectIs DEF FollowsInv, Follows, RecordInv
<1>10. /\ NewId(c) \notin Named(L) /\ NewId(c) \notin Named(T)
       /\ removal # NoCall => removal.id # NewId(c)
  BY <1>2, <1>5, TablesInUse DEF RecordInv, NumbersInv, InUse
<1>11. /\ \A S : Less(S)' = Less(S)
       /\ \A S, r : (removal.at = "served" => r.id # removal.id) => Less(S \cup {r}) = Less(S) \cup {r}
       /\ \A S, id : Less(Drop(S, id)) = Drop(Less(S), id)
  BY <1>2 DEF Less, Drop
<1>12. removal.at = "served" => (removal # NoCall /\ removal.id \notin Named(T))
  <2>1. removal.at = "served" => removal.owner = Scope(owner)
    BY <1>8 DEF Tracked
  <2>. QED
    BY <1>5, <2>1 DEF RecordInv, GoneInv, NoCall
<1> HIDE DEF T, L
<1>13. Less(Effect(change', L)) = table'[Scope(owner)]
  <2>1. CASE ByRow(RecordOf(c).id)
    <3>1. /\ change'.at = "served" /\ change'.id = c.id /\ RecordOf(change') = RecordOf(c)
          /\ table'[Scope(owner)] = Drop(T, RecordOf(c).id) \cup {RecordOf(c)}
      BY <1>1, <1>6, <2>1, ChangeAt DEF ByRow, T
    <3>2. CASE c.id = NoRecord
      <4>1. Effect(change', L) = L \cup {RecordOf(c)}
        BY <3>1, <3>2, EffectIs
      <4>2. Less(L \cup {RecordOf(c)}) = T \cup {RecordOf(c)}
        BY <1>4, <1>9, <1>10, <1>11, <1>12, <3>2
      <4>3. Drop(T, RecordOf(c).id) = T
        BY <1>4, <1>10, <3>2 DEF Drop, Named
      <4>. QED
        BY <3>1, <4>1, <4>2, <4>3
    <3>3. CASE c.id # NoRecord
      <4>1. RecordOf(c).id = c.id /\ c.id \in Named(T)
        BY <1>4, <1>7, <3>3
      <4>2. c.id \in Named(L)
        BY <1>9, <4>1 DEF Less, Drop, Named
      <4>3. Effect(change', L) = Drop(L, c.id) \cup {RecordOf(c)}
        BY <3>1, <3>3, <4>2, EffectIs
      <4>4. removal.at = "served" => RecordOf(c).id # removal.id
        BY <1>12, <4>1
      <4>5. Less(Drop(L, c.id) \cup {RecordOf(c)}) = Drop(T, c.id) \cup {RecordOf(c)}
        BY <1>9, <1>11, <4>4
      <4>. QED
        BY <3>1, <4>1, <4>3, <4>5
    <3>. QED
      BY <3>2, <3>3
  <2>2. CASE ByText
    <3>1. /\ change'.at = "replacing" /\ Address(change') = Address(c)
          /\ table'[Scope(owner)] = T \cup {Address(c)}
      BY <1>1, <1>6, <2>2, ChangeAt DEF ByText, T
    <3>2. Effect(change', L) = L \cup {Address(c)}
      BY <3>1, EffectIs
    <3>3. Less(L \cup {Address(c)}) = T \cup {Address(c)}
      BY <1>4, <1>9, <1>10, <1>11, <1>12
    <3>. QED
      BY <3>1, <3>2, <3>3
  <2>. QED
    BY <1>1, <2>1, <2>2
<1>14. ToSet(list') = L /\ \A id : Shows(id)' <=> Shows(id)
  BY <1>2 DEF L, Shows
<1>. QED
  BY <1>2, <1>5, <1>6, <1>9, <1>10, <1>11, <1>13, <1>14 DEF Follows, L, Shows

LEMMA ChangeServedStep ==
  ASSUME RecordAssumption, RecordInv, ChangeServed
  PROVE  RecordInv'
<1> DEFINE c == change
<1>1. /\ c \in ChangeCalls /\ c.owner \in Owners
      /\ ByRow(RecordOf(c).id) \/ ByText
  BY ChangeServedTables DEF RecordInv
<1>2. c.at = "sent" /\ UNCHANGED <<page, owner, list, reading, form, import, removal, writes>>
  BY DEF ChangeServed
<1>3. table' \in [Owners -> Tables] /\ InUse' \subseteq InUse \cup {NewId(c)}
  BY ServedTables
<1>4. /\ change' \in ChangeCalls /\ change'.at # "sent" /\ change'.id = c.id /\ change'.n = c.n
      /\ change'.at = "replacing" => (page = "addresses" /\ change'.id # NoRecord)
      /\ change'.at # "renamed" /\ change' # NoCall
  <2>1. \/ change' = [c EXCEPT !.at = "served"]
        \/ change' = [c EXCEPT !.at = "replacing"] /\ page = "addresses" /\ c.id # NoRecord
    BY <1>1 DEF ByRow, ByText
  <2>2. change' \in ChangeCalls /\ change'.id = c.id /\ change'.n = c.n
        /\ (change'.at = "served" \/ (change'.at = "replacing" /\ page = "addresses" /\ c.id # NoRecord))
    <3>1. CASE change' = [c EXCEPT !.at = "served"]
      BY <1>1, <3>1, ChangeAt
    <3>2. CASE change' = [c EXCEPT !.at = "replacing"] /\ page = "addresses" /\ c.id # NoRecord
      BY <1>1, <3>2, ChangeAt
    <3>. QED
      BY <2>1, <3>1, <3>2
  <2>. QED
    BY <2>2, RowIs
<1>5. RecordTypeInv'
  <2>1. adrift' \in BOOLEAN
    <3>1. (adrift \/ (c.id # NoRecord /\ c.id \notin IdsOf(c.owner))) \in BOOLEAN
      BY Zenon
    <3>. QED
      BY <3>1 DEF ChangeServed
  <2>. QED
    BY <1>2, <1>3, <1>4, <2>1 DEF RecordInv, RecordTypeInv
<1>6. NumbersInv'
  <2>1. c.n <= writes /\ NewId(c)[2] = c.n
    BY <1>1, RowIs DEF RecordInv, NumbersInv
  <2>2. \A id \in InUse' : id[2] <= writes
    BY <1>3, <2>1 DEF RecordInv, NumbersInv
  <2>3. c # NoCall
    BY <1>1, RowIs
  <2>. QED
    BY <1>2, <1>4, <2>2, <2>3 DEF RecordInv, NumbersInv
<1>7. GoneInv'
  <2>1. SUFFICES ASSUME removal.at = "served", NEW o \in Owners,
                        o = removal.owner \/ page = "users", removal.id \in Named(table'[o])
                 PROVE  FALSE
    BY <1>2, CallsAre DEF GoneInv, IdsOf, Named, RecordInv
  <2>2. removal.id \in InUse /\ removal.id \notin Named(table[o])
    BY <2>1 DEF RecordInv, GoneInv, IdsOf, Named, InUse, NoCall
  <2>3. removal.id # NewId(c)
    BY <1>2, <2>2 DEF RecordInv, NumbersInv
  <2>4. CASE ByRow(RecordOf(c).id)
    <3>1. removal.id = RecordOf(c).id /\ o = c.owner
      BY <2>1, <2>2, <2>4 DEF ByRow, Named, Drop
    <3>2. removal.id = c.id /\ c.id # NoRecord
      BY <1>1, <2>3, <3>1, RowIs
    <3>3. page = "users" /\ \E p \in Owners : c.id \in Named(table[p])
      BY <2>2, <2>4, <3>1, <3>2 DEF ByRow
    <3>. QED
      BY <2>1, <3>2, <3>3 DEF RecordInv, GoneInv, IdsOf, Named
  <2>5. CASE ByText
    <3>1. removal.id = Address(c).id
      BY <2>1, <2>2, <2>5 DEF ByText, Named
    <3>. QED
      BY <1>1, <2>3, <3>1, RowIs
  <2>. QED
    BY <1>1, <2>4, <2>5
<1>8. FollowsInv'
  BY ServedFollows
<1>. QED
  BY <1>5, <1>6, <1>7, <1>8 DEF RecordInv

LEMMA OldAddressDeletedStep ==
  ASSUME RecordAssumption, RecordInv, OldAddressDeleted
  PROVE  RecordInv'
<1> DEFINE c == change
<1> DEFINE L == ToSet(list)
<1>1. /\ c.at = "replacing" /\ change' = [c EXCEPT !.at = "renamed"]
      /\ table' = [table EXCEPT ![c.owner] = Without(c.owner, c.id)]
      /\ UNCHANGED <<page, owner, list, reading, form, removal, import, writes, adrift>>
  BY DEF OldAddressDeleted
<1>2. c \in ChangeCalls /\ page = "addresses" /\ c.id # NoRecord /\ c # NoCall
  BY <1>1, CallsAre DEF RecordInv, RecordTypeInv
<1>3. /\ change' \in ChangeCalls /\ change'.at = "renamed" /\ change'.owner = c.owner
      /\ change'.id = c.id /\ change'.n = c.n /\ Address(change') = Address(c)
      /\ NewId(change') = NewId(c)
  BY <1>1, <1>2, ChangeAt
<1>4. c.owner \in Owners /\ table \in [Owners -> Tables] /\ Address(c).id = NewId(c)
  BY <1>2, RowIs DEF RecordInv, RecordTypeInv
<1>5. table' = [table EXCEPT ![c.owner] = Drop(table[c.owner], c.id)]
  BY <1>1 DEF Without, Drop
<1>6. \A o \in Owners : table'[o] \in Tables /\ table'[o] \subseteq table[o]
  BY <1>4, <1>5, TablesStay DEF Drop
<1>7. RecordTypeInv'
  BY <1>1, <1>2, <1>3, <1>4, <1>5, <1>6 DEF RecordInv, RecordTypeInv
<1>8. InUse' \subseteq InUse
  <2>1. \A o \in Owners : Named(table'[o]) \subseteq Named(table[o])
    BY <1>6 DEF Named
  <2>. QED
    BY <1>1, <2>1 DEF InUse
<1>9. NumbersInv'
  BY <1>1, <1>2, <1>3, <1>8, FewerInUse DEF RecordInv
<1>10. GoneInv'
  <2>1. removal.at = "served" => removal.owner \in Owners
    BY CallsAre DEF RecordInv
  <2>. QED
    BY <1>1, <1>6, <2>1 DEF RecordInv, GoneInv, IdsOf
<1>11. FollowsInv'
  <2>1. SUFFICES ASSUME ~adrift, reading.at = "no", import = NoCall, Tracked' PROVE Follows'
    BY <1>1 DEF FollowsInv
  <2>2. /\ Scope(owner)' = Scope(owner) /\ (\A id : Shows(id)' <=> Shows(id))
        /\ \A id : Shows(id) <=> id \in Named(L)
    BY <1>1, ScopeIs DEF RecordInv, Scope, Shows
  <2>3. Wrote(c) /\ Wrote(change')
    BY <1>1, <1>3 DEF Wrote
  <2>4. Tracked /\ c.owner = Scope(owner) /\ Shows(c.id)
    BY <1>1, <1>2, <1>3, <2>1, <2>2, <2>3 DEF Tracked
  <2>5. Follows
    BY <2>1, <2>4 DEF FollowsInv, RecordInv
  <2>6. /\ Less(L \cup {Address(c)}) = table[c.owner]
        /\ Effect(change', L) = Drop(L, c.id) \cup {Address(c)}
    <3>1. Effect(c, L) = L \cup {Address(c)}
      BY <1>1, EffectIs
    <3>2. Effect(change', L) = Drop(L, change'.id) \cup {Address(change')}
      BY <1>3, EffectIs
    <3>. QED
      BY <1>3, <2>4, <2>5, <3>1, <3>2 DEF Follows
  <2>7. NewId(c) # c.id
    BY <2>3, <2>4, <2>5 DEF Follows
  <2>8. Less(Drop(L, c.id) \cup {Address(c)}) = Drop(Less(L \cup {Address(c)}), c.id)
    <3> HIDE DEF L
    <3>1. Drop(L \cup {Address(c)}, c.id) = Drop(L, c.id) \cup {Address(c)}
      BY <1>4, <2>7 DEF Drop
    <3>. QED
      BY <3>1, DropsCommute DEF Less
  <2>9. table'[c.owner] = Drop(table[c.owner], c.id)
    BY <1>4, <1>5
  <2>10. \A S : Less(S)' = Less(S)
    BY <1>1 DEF Less
  <2>. QED
    BY <1>1, <1>3, <2>2, <2>3, <2>4, <2>5, <2>6, <2>8, <2>9, <2>10 DEF Follows
<1>. QED
  BY <1>7, <1>9, <1>10, <1>11 DEF RecordInv

\* The answer makes of the list what was to come of it, if its record is shown.
LEMMA AnswersEffect ==
  ASSUME RecordAssumption, RecordTypeInv, change.at \in {"served", "renamed"},
         NEW new, new = IF page = "addresses" THEN WithAddress(change) ELSE WithMapping(change)
  PROVE  /\ new \in Seq(Records)
         /\ Named(ToSet(new)) \subseteq Named(ToSet(list)) \cup {NewId(change), change.id}
         /\ (Once(list) /\ ~Shows(NewId(change))
               /\ ((page = "addresses" /\ change.id # NoRecord) => Shows(change.id))) =>
              Once(new) /\ ToSet(new) = Effect(change, ToSet(list))
<1> DEFINE c == change
<1> DEFINE L == ToSet(list)
<1> DEFINE r == IF c.at = "renamed" THEN Address(c) ELSE RecordOf(c)
<1>1. c \in ChangeCalls /\ list \in Seq(Records) /\ L \subseteq Records /\ c.at \in {"served", "renamed"}
  BY CallsAre, ListsSet DEF RecordTypeInv
<1>2. /\ RecordOf(c) \in Records /\ RecordOf(c).id = (IF c.id = NoRecord THEN NewId(c) ELSE c.id)
      /\ Address(c) \in Records /\ Address(c).id = NewId(c) /\ NewId(c) # NoRecord
  BY <1>1, RowIs
<1>3. c.at = "renamed" => (page = "addresses" /\ c.id # NoRecord)
  BY DEF RecordTypeInv
<1>4. \A id : Shows(id) <=> id \in Named(L)
  BY ScopeIs
<1>5. NoRecord \notin Named(L)
  BY <1>1, ListsSet DEF RecordAssumption, Ids
<1>6. r \in Records /\ r.id \in {NewId(c), c.id}
  BY <1>2
<1> DEFINE a == Append(list, r)
<1>7. /\ a \in Seq(Records) /\ ToSet(a) = L \cup {r}
      /\ (Once(list) /\ r.id \notin Named(L)) => Once(a)
      /\ Named(L \cup {r}) \subseteq Named(L) \cup {r.id}
  <2>1. Named(L \cup {r}) \subseteq Named(L) \cup {r.id}
    BY DEF Named
  <2> HIDE DEF r
  <2>. QED
    BY <1>1, <1>6, <2>1, AppendedList
<1>8. ASSUME NEW old
      PROVE  /\ Replaced(old, r) \in Seq(Records)
             /\ ToSet(Replaced(old, r)) = Drop(L, old) \cup (IF old \in Named(L) THEN {r} ELSE {})
             /\ (Once(list) /\ (r.id = old \/ r.id \notin Named(L))) => Once(Replaced(old, r))
             /\ Named(ToSet(Replaced(old, r))) \subseteq Named(L) \cup {r.id}
  <2> HIDE DEF r
  <2>1. /\ Replaced(old, r) \in Seq(Records)
        /\ ToSet(Replaced(old, r)) = Drop(L, old) \cup (IF old \in Named(L) THEN {r} ELSE {})
        /\ (Once(list) /\ (r.id = old \/ r.id \notin Named(L))) => Once(Replaced(old, r))
    BY <1>1, <1>6, ReplacedList
  <2>2. Named(ToSet(Replaced(old, r))) \subseteq Named(L) \cup {r.id}
    BY <2>1 DEF Named, Drop
  <2>. QED
    BY <2>1, <2>2
<1>9. CASE page = "addresses"
  <2>1. new = IF Shows(c.id) THEN Replaced(c.id, r)
              ELSE IF Shows(r.id) THEN Replaced(r.id, r) ELSE a
    BY <1>9 DEF WithAddress, Address
  <2>2. ASSUME Once(list), ~Shows(NewId(c)), c.id # NoRecord => Shows(c.id)
        PROVE  Once(new) /\ ToSet(new) = Effect(c, L)
    <3>1. CASE c.id = NoRecord
      <4>1. r = RecordOf(c) /\ r.id = NewId(c) /\ c.at = "served"
        BY <1>1, <1>2, <1>3, <3>1
      <4>2. new = a
        BY <1>4, <1>5, <2>1, <2>2, <3>1, <4>1
      <4>3. Effect(c, L) = L \cup {r}
        BY <3>1, <4>1, EffectIs
      <4> HIDE DEF a, r
      <4>. QED
        BY <1>4, <1>7, <2>2, <4>1, <4>2, <4>3
    <3>2. CASE c.id # NoRecord
      <4>1. new = Replaced(c.id, r) /\ c.id \in Named(L) /\ NewId(c) \notin Named(L)
        BY <1>4, <2>1, <2>2, <3>2
      <4>2. r.id = c.id \/ r.id \notin Named(L)
        BY <1>2, <3>2, <4>1
      <4>3. Effect(c, L) = Drop(L, c.id) \cup {r}
        BY <1>1, <3>2, <4>1, EffectIs
      <4> HIDE DEF a, r
      <4>. QED
        BY <1>8, <2>2, <4>1, <4>2, <4>3
    <3>. QED
      BY <3>1, <3>2
  <2> HIDE DEF a, r
  <2>3. new \in Seq(Records) /\ Named(ToSet(new)) \subseteq Named(L) \cup {r.id}
    <3>1. CASE new = a
      BY <1>7, <3>1
    <3>2. CASE new = Replaced(c.id, r)
      BY <1>8, <3>2
    <3>3. CASE new = Replaced(r.id, r)
      BY <1>8, <3>3
    <3>. QED
      BY <2>1, <3>1, <3>2, <3>3
  <2>. QED
    BY <1>6, <1>9, <2>2, <2>3
<1>10. CASE page # "addresses"
  <2>1. r = RecordOf(c) /\ c.at = "served"
    BY <1>1, <1>3, <1>10
  <2>2. new = IF c.id = NoRecord THEN a ELSE Replaced(c.id, r)
    BY <1>10, <2>1 DEF WithMapping
  <2>3. r.id = IF c.id = NoRecord THEN NewId(c) ELSE c.id
    BY <1>2, <2>1
  <2>4. Effect(c, L) = IF c.id = NoRecord THEN L \cup {r}
                       ELSE Drop(L, c.id) \cup (IF c.id \in Named(L) THEN {r} ELSE {})
    BY <2>1 DEF Effect
  <2> HIDE DEF a, r
  <2>. QED
    BY <1>4, <1>6, <1>7, <1>8, <2>2, <2>3, <2>4
<1>. QED
  BY <1>9, <1>10

LEMMA ChangeAnsweredStep ==
  ASSUME RecordAssumption, RecordInv, ChangeAnswered
  PROVE  RecordInv'
<1> DEFINE c == change
<1> DEFINE L == ToSet(list)
<1>1. /\ c.at \in {"served", "renamed"} /\ change' = NoCall /\ form' = Closed
      /\ list' = IF page = "addresses" THEN WithAddress(c) ELSE WithMapping(c)
      /\ UNCHANGED <<page, owner, reading, removal, import, table, writes>>
  BY DEF ChangeAnswered
<1>2. /\ list' \in Seq(Records)
      /\ Named(ToSet(list')) \subseteq Named(L) \cup {NewId(c), c.id}
      /\ (Once(list) /\ ~Shows(NewId(c)) /\ ((page = "addresses" /\ c.id # NoRecord) => Shows(c.id))) =>
           Once(list') /\ ToSet(list') = Effect(c, L)
  BY <1>1, AnswersEffect DEF RecordInv
<1>3. c \in ChangeCalls /\ c # NoCall
  BY <1>1, CallsAre DEF RecordInv
<1>4. RecordTypeInv'
  <2>1. adrift' \in BOOLEAN
    <3>1. (\/ adrift \/ c.owner # Scope(owner)
           \/ (page = "addresses" /\ c.id # NoRecord /\ ~Shows(c.id))) \in BOOLEAN
      BY Zenon
    <3>. QED
      BY <3>1 DEF ChangeAnswered
  <2>. QED
    BY <1>1, <1>2, <2>1 DEF RecordInv, RecordTypeInv, Closed, NoCall
<1>5. NumbersInv'
  <2>1. NoRecord \notin Named(ToSet(list'))
    BY <1>2, ListsSet DEF RecordAssumption, Ids
  <2>2. NewId(c)[2] <= writes /\ (c.id # NoRecord => c.id[2] <= writes)
    BY <1>3, RowIs DEF RecordInv, NumbersInv
  <2>3. InUse' \subseteq InUse \cup Named(ToSet(list'))
    BY <1>1 DEF InUse
  <2>4. \A id \in InUse : id[2] <= writes
    BY DEF RecordInv, NumbersInv
  <2>5. \A id \in Named(ToSet(list')) : id[2] <= writes
    <3>1. \A id \in Named(L) : id[2] <= writes
      BY <2>4 DEF InUse
    <3>. QED
      BY <1>2, <2>1, <2>2, <3>1
  <2>6. \A id \in InUse' : id[2] <= writes
    BY <2>3, <2>4, <2>5
  <2>. QED
    BY <1>1, <2>6 DEF NumbersInv, Closed, NoCall
<1>6. GoneInv'
  BY <1>1 DEF RecordInv, GoneInv, IdsOf
<1>7. FollowsInv'
  <2>1. SUFFICES ASSUME ~adrift', reading.at = "no", import = NoCall, Tracked' PROVE Follows'
    BY <1>1 DEF FollowsInv
  <2>2. ~adrift /\ c.owner = Scope(owner) /\ ((page = "addresses" /\ c.id # NoRecord) => Shows(c.id))
    BY <2>1 DEF ChangeAnswered
  <2>3. Scope(owner)' = Scope(owner)
    BY <1>1 DEF Scope
  <2>4. Tracked
    BY <1>1, <2>1, <2>2, <2>3 DEF Tracked
  <2>5. Follows
    BY <2>1, <2>2, <2>4 DEF FollowsInv, RecordInv
  <2>6. Wrote(c) /\ ~Wrote(NoCall)
    BY <1>1 DEF Wrote, NoCall
  <2>7. Once(list') /\ ToSet(list') = Effect(c, L)
    BY <1>2, <2>2, <2>5, <2>6 DEF Follows
  <2>8. Effect(change', ToSet(list')) = Effect(c, L)
    BY <1>1, <2>6, <2>7, EffectIs
  <2>9. \A S : Less(S)' = Less(S)
    BY <1>1 DEF Less
  <2>. QED
    BY <1>1, <2>3, <2>5, <2>6, <2>7, <2>8, <2>9 DEF Follows
<1>. QED
  BY <1>4, <1>5, <1>6, <1>7 DEF RecordInv

LEMMA ChangeFailsStep ==
  ASSUME RecordAssumption, RecordInv, ChangeFails
  PROVE  RecordInv'
<1>1. /\ change # NoCall /\ change' = NoCall
      /\ UNCHANGED <<page, owner, list, reading, form, removal, import, table, writes>>
  BY DEF ChangeFails
<1>2. RecordTypeInv'
  <2>1. adrift' \in BOOLEAN
    <3>1. (adrift \/ change.at # "sent") \in BOOLEAN
      BY Zenon
    <3>. QED
      BY <3>1 DEF ChangeFails
  <2>. QED
    BY <1>1, <2>1 DEF RecordInv, RecordTypeInv, NoCall
<1>3. NumbersInv'
  <2>1. InUse' \subseteq InUse
    BY <1>1 DEF InUse
  <2>. QED
    BY <1>1, <2>1, FewerInUse DEF RecordInv
<1>4. GoneInv'
  BY <1>1 DEF RecordInv, GoneInv, IdsOf
<1>5. FollowsInv'
  <2>1. SUFFICES ASSUME ~adrift', reading.at = "no", import = NoCall, Tracked' PROVE Follows'
    BY <1>1 DEF FollowsInv
  <2>2. ~adrift /\ change.at = "sent"
    BY <2>1 DEF ChangeFails
  <2>3. ~Wrote(change) /\ ~Wrote(NoCall) /\ Scope(owner)' = Scope(owner)
    BY <1>1, <2>2 DEF Wrote, NoCall, Scope
  <2>4. Follows
    BY <1>1, <2>1, <2>2, <2>3 DEF FollowsInv, RecordInv, Tracked
  <2>5. Effect(change', ToSet(list)) = ToSet(list) /\ Effect(change, ToSet(list)) = ToSet(list)
    BY <1>1, <2>3, EffectIs
  <2>. QED
    BY <1>1, <2>3, <2>4, <2>5 DEF Follows, Less
<1>. QED
  BY <1>2, <1>3, <1>4, <1>5 DEF RecordInv

-----------------------------------------------------------------------------
(* The deletions.                                                          *)

LEMMA AsksRemovalStep ==
  ASSUME RecordAssumption, RecordInv, NEW i \in DOMAIN list, AsksRemoval(list[i].id)
  PROVE  RecordInv'
<1> DEFINE id == list[i].id
<1> DEFINE m == [at |-> "sent", owner |-> Scope(owner), id |-> id]
<1>1. /\ removal = NoCall /\ removal' = m
      /\ UNCHANGED <<page, owner, list, reading, form, change, import, table, writes, adrift>>
  BY DEF AsksRemoval
<1>2. id \in Named(ToSet(list)) /\ id \in Ids /\ Scope(owner) \in Owners /\ Shows(id)
  BY ListsSet, ScopeIs DEF RecordInv, RecordTypeInv, Shows
<1>3. m \in RemovalCalls /\ m # NoCall /\ m.at = "sent" /\ m.id = id
  BY <1>2 DEF RemovalCalls, NoCall
<1> HIDE DEF m, id
<1>4. RecordTypeInv'
  BY <1>1, <1>3 DEF RecordInv, RecordTypeInv
<1>5. NumbersInv'
  <2>1. InUse' \subseteq InUse
    BY <1>1, <1>2, <1>3 DEF InUse
  <2>. QED
    BY <1>1, <2>1, FewerInUse DEF RecordInv
<1>6. GoneInv'
  BY <1>1, <1>3 DEF GoneInv
<1>7. FollowsInv'
  <2>1. SUFFICES ASSUME ~adrift, reading.at = "no", import = NoCall, Tracked' PROVE Follows'
    BY <1>1 DEF FollowsInv
  <2>2. Scope(owner)' = Scope(owner) /\ \A x : Shows(x)' <=> Shows(x)
    BY <1>1 DEF Scope, Shows
  <2>3. Tracked
    BY <1>1, <2>1, <2>2 DEF Tracked, NoCall
  <2>4. Follows
    BY <2>1, <2>3 DEF FollowsInv, RecordInv
  <2>5. \A S : Less(S)' = Less(S)
    BY <1>1, <1>3 DEF Less, NoCall
  <2>6. Wrote(change) => id # NewId(change)
    BY <1>2, <2>4 DEF Follows
  <2>. QED
    BY <1>1, <1>3, <2>2, <2>4, <2>5, <2>6 DEF Follows, NewId
<1>. QED
  BY <1>4, <1>5, <1>6, <1>7 DEF RecordInv

LEMMA RemovalServedStep ==
  ASSUME RecordAssumption, RecordInv, RemovalServed
  PROVE  RecordInv'
<1> DEFINE m == removal
<1> DEFINE from == {o \in Owners : m.id \in IdsOf(o) /\ (page # "users" => o = m.owner)}
<1>1. /\ m.at = "sent" /\ from # {} /\ removal' = [m EXCEPT !.at = "served"]
      /\ table' = [o \in Owners |-> IF o \in from THEN Without(o, m.id) ELSE table[o]]
      /\ UNCHANGED <<page, owner, list, reading, form, change, import, writes, adrift>>
  BY DEF RemovalServed
<1>2. m \in RemovalCalls /\ m # NoCall /\ m.id \in Ids /\ m.owner \in Owners
  BY <1>1, CallsAre DEF RecordInv, NoCall
<1>3. /\ removal' \in RemovalCalls /\ removal'.at = "served" /\ removal'.owner = m.owner
      /\ removal'.id = m.id /\ removal' # NoCall
  BY <1>1, <1>2, RemovalServedIs
<1>4. \A o \in Owners : Without(o, m.id) = Drop(table[o], m.id) /\ IdsOf(o) = Named(table[o])
  BY DEF Without, Drop, IdsOf, Named
<1>5. ASSUME NEW o \in Owners
      PROVE  /\ table'[o] \in Tables /\ table'[o] \subseteq table[o]
             /\ (page = "users" \/ o = m.owner) =>
                  table'[o] = Drop(table[o], m.id) /\ m.id \notin Named(table'[o])
  <2>1. table[o] \in Tables /\ Drop(table[o], m.id) \in Tables
    BY TablesStay DEF RecordInv, RecordTypeInv
  <2>2. table'[o] = IF o \in from THEN Drop(table[o], m.id) ELSE table[o]
    BY <1>1, <1>4
  <2>3. Drop(table[o], m.id) \subseteq table[o] /\ m.id \notin Named(Drop(table[o], m.id))
    BY DEF Drop, Named
  <2>4. m.id \notin Named(table[o]) => Drop(table[o], m.id) = table[o]
    BY DEF Drop, Named
  <2>5. (page = "users" \/ o = m.owner) => (o \in from \/ m.id \notin Named(table[o]))
    BY <1>4
  <2>. QED
    BY <2>1, <2>2, <2>3, <2>4, <2>5
<1>6. RecordTypeInv'
  BY <1>1, <1>3, <1>5 DEF RecordInv, RecordTypeInv
<1>7. NumbersInv'
  <2>1. \A o \in Owners : Named(table'[o]) \subseteq Named(table[o])
    BY <1>5 DEF Named
  <2>2. InUse' \subseteq InUse
    BY <1>1, <1>2, <1>3, <2>1 DEF InUse
  <2>. QED
    BY <1>1, <2>2, FewerInUse DEF RecordInv
<1>8. GoneInv'
  BY <1>1, <1>2, <1>3, <1>5 DEF GoneInv, IdsOf, Named
<1>9. FollowsInv'
  <2>1. SUFFICES ASSUME ~adrift, reading.at = "no", import = NoCall, Tracked' PROVE Follows'
    BY <1>1 DEF FollowsInv
  <2>2. Scope(owner)' = Scope(owner) /\ (\A x : Shows(x)' <=> Shows(x)) /\ Scope(owner) \in Owners
    BY <1>1, ScopeIs DEF Scope, Shows, RecordInv
  <2>3. Tracked /\ m.owner = Scope(owner)
    BY <1>1, <1>3, <2>1, <2>2 DEF Tracked
  <2>4. Follows
    BY <2>1, <2>3 DEF FollowsInv, RecordInv
  <2>5. \A S : Less(S) = S /\ Less(S)' = Drop(S, m.id)
    BY <1>1, <1>3 DEF Less
  <2>6. table'[Scope(owner)] = Drop(table[Scope(owner)], m.id)
    BY <1>5, <2>2, <2>3
  <2>. QED
    BY <1>1, <1>2, <1>3, <2>2, <2>4, <2>5, <2>6 DEF Follows, NewId
<1>. QED
  BY <1>6, <1>7, <1>8, <1>9 DEF RecordInv

\* The deletion's answer and the save's may come in either order.
LEMMA AnswersCommute ==
  ASSUME RecordAssumption, NEW c \in ChangeCalls \cup {NoCall}, NEW S, NEW id, id # NewId(c) \/ ~Wrote(c)
  PROVE  Effect(c, Drop(S, id)) = Drop(Effect(c, S), id)
<1>1. CASE ~Wrote(c)
  BY <1>1, EffectIs
<1>2. CASE Wrote(c)
  <2>1. c \in ChangeCalls /\ id # NewId(c)
    BY <1>2 DEF Wrote, NoCall
  <2>2. Address(c).id = NewId(c) /\ RecordOf(c).id = (IF c.id = NoRecord THEN NewId(c) ELSE c.id)
    BY <2>1, RowIs
  <2>3. CASE c.at = "served" /\ c.id = NoRecord
    <3>1. Effect(c, Drop(S, id)) = Drop(S, id) \cup {RecordOf(c)} /\ Effect(c, S) = S \cup {RecordOf(c)}
      BY <2>3, EffectIs
    <3>. QED
      BY <2>1, <2>2, <2>3, <3>1 DEF Drop
  <2>4. CASE c.at = "served" /\ c.id # NoRecord
    <3>1. \A T : Effect(c, T) = Drop(T, c.id) \cup (IF c.id \in Named(T) THEN {RecordOf(c)} ELSE {})
      BY <2>4 DEF Effect
    <3>2. RecordOf(c).id = c.id
      BY <2>2, <2>4
    <3>3. CASE c.id = id
      <4>1. c.id \notin Named(Drop(S, id)) /\ Drop(Drop(S, id), c.id) = Drop(S, id)
        BY <3>3 DEF Named, Drop
      <4>2. Drop(Effect(c, S), id) = Drop(S, id)
        BY <3>1, <3>2, <3>3 DEF Drop
      <4>. QED
        BY <3>1, <4>1, <4>2
    <3>4. CASE c.id # id
      <4>1. c.id \in Named(Drop(S, id)) <=> c.id \in Named(S)
        BY <3>4 DEF Named, Drop
      <4> DEFINE X == IF c.id \in Named(S) THEN {RecordOf(c)} ELSE {}
      <4>2. Drop(Drop(S, c.id) \cup X, id) = Drop(Drop(S, id), c.id) \cup X
        BY <3>2, <3>4 DEF Drop
      <4>3. Effect(c, S) = Drop(S, c.id) \cup X
        BY <3>1
      <4>4. Effect(c, Drop(S, id)) = Drop(Drop(S, id), c.id) \cup X
        BY <3>1, <4>1
      <4>. QED
        BY <4>2, <4>3, <4>4
    <3>. QED
      BY <3>3, <3>4
  <2>5. CASE c.at = "replacing"
    <3>1. Effect(c, Drop(S, id)) = Drop(S, id) \cup {Address(c)} /\ Effect(c, S) = S \cup {Address(c)}
      BY <2>5, EffectIs
    <3>. QED
      BY <2>1, <2>2, <3>1 DEF Drop
  <2>6. CASE c.at = "renamed"
    <3>1. \A T : Effect(c, T) = Drop(T, c.id) \cup {Address(c)}
      BY <2>6 DEF Effect
    <3>. QED
      BY <2>1, <2>2, <3>1 DEF Drop
  <2>. QED
    BY <1>2, <2>3, <2>4, <2>5, <2>6 DEF Wrote
<1>. QED
  BY <1>1, <1>2

LEMMA RemovalAnsweredStep ==
  ASSUME RecordAssumption, RecordInv, RemovalAnswered
  PROVE  RecordInv'
<1> DEFINE id == removal.id
<1> DEFINE L == ToSet(list)
<1>1. /\ removal.at = "served" /\ removal' = NoCall /\ list' = ListWithout(id)
      /\ UNCHANGED <<page, owner, reading, form, change, import, table, writes>>
  BY DEF RemovalAnswered
<1>2. /\ list \in Seq(Records) /\ list' \in Seq(Records)
      /\ ToSet(list') = Drop(L, id) /\ (Once(list) => Once(list'))
  BY <1>1, WithoutList DEF RecordInv, RecordTypeInv
<1>3. Named(ToSet(list')) \subseteq Named(L)
  BY <1>2 DEF Named, Drop
<1>4. RecordTypeInv'
  <2>1. adrift' \in BOOLEAN
    <3>1. (adrift \/ removal.owner # Scope(owner)) \in BOOLEAN
      BY Zenon
    <3>. QED
      BY <3>1 DEF RemovalAnswered
  <2>. QED
    BY <1>1, <1>2, <2>1 DEF RecordInv, RecordTypeInv
<1>5. NumbersInv'
  <2>1. InUse' \subseteq InUse
    BY <1>1, <1>3 DEF InUse
  <2>. QED
    BY <1>1, <2>1, FewerInUse DEF RecordInv
<1>6. GoneInv'
  BY <1>1 DEF GoneInv, NoCall
<1>7. FollowsInv'
  <2>1. SUFFICES ASSUME ~adrift', reading.at = "no", import = NoCall, Tracked' PROVE Follows'
    BY <1>1 DEF FollowsInv
  <2>2. ~adrift /\ removal.owner = Scope(owner)
    BY <2>1 DEF RemovalAnswered
  <2>3. Scope(owner)' = Scope(owner) /\ \A x : Shows(x)' => Shows(x)
    <3>1. Scope(owner)' = Scope(owner)
      BY <1>1 DEF Scope
    <3>2. \A x : Shows(x) <=> x \in Named(L)
      BY <1>2, ListsSet DEF Shows
    <3>3. \A x : Shows(x)' <=> x \in Named(ToSet(list'))
      BY <1>2, ListsSet DEF Shows
    <3>. QED
      BY <1>3, <3>1, <3>2, <3>3
  <2>4. Tracked
    BY <1>1, <2>1, <2>2, <2>3 DEF Tracked
  <2>5. Follows
    BY <2>1, <2>2, <2>4 DEF FollowsInv, RecordInv
  <2>6. removal # NoCall
    BY <1>1 DEF NoCall
  <2>7. Effect(change, Drop(L, id)) = Drop(Effect(change, L), id)
    BY <2>5, <2>6, AnswersCommute DEF Follows, RecordInv, RecordTypeInv
  <2>8. Less(Effect(change, L)) = Drop(Effect(change, L), id)
    BY <1>1 DEF Less
  <2>9. \A S : Less(S)' = S
    BY <1>1 DEF Less, NoCall
  <2>. QED
    BY <1>1, <1>2, <2>3, <2>5, <2>7, <2>8, <2>9 DEF Follows, NewId
<1>. QED
  BY <1>4, <1>5, <1>6, <1>7 DEF RecordInv

LEMMA RemovalFailsStep ==
  ASSUME RecordAssumption, RecordInv, RemovalFails
  PROVE  RecordInv'
<1>1. /\ removal # NoCall /\ removal' = NoCall
      /\ UNCHANGED <<page, owner, list, reading, form, change, import, table, writes>>
  BY DEF RemovalFails
<1>2. RecordTypeInv'
  <2>1. adrift' \in BOOLEAN
    <3>1. (adrift \/ removal.at # "sent") \in BOOLEAN
      BY Zenon
    <3>. QED
      BY <3>1 DEF RemovalFails
  <2>. QED
    BY <1>1, <2>1 DEF RecordInv, RecordTypeInv
<1>3. NumbersInv'
  <2>1. InUse' \subseteq InUse
    BY <1>1 DEF InUse
  <2>. QED
    BY <1>1, <2>1, FewerInUse DEF RecordInv
<1>4. GoneInv'
  BY <1>1 DEF GoneInv, NoCall
<1>5. FollowsInv'
  <2>1. SUFFICES ASSUME ~adrift', reading.at = "no", import = NoCall, Tracked' PROVE Follows'
    BY <1>1 DEF FollowsInv
  <2>2. ~adrift /\ removal.at = "sent"
    BY <2>1 DEF RemovalFails
  <2>3. Scope(owner)' = Scope(owner) /\ \A x : Shows(x)' <=> Shows(x)
    BY <1>1 DEF Scope, Shows
  <2>4. Follows
    BY <1>1, <2>1, <2>2, <2>3 DEF FollowsInv, RecordInv, Tracked
  <2>5. \A S : Less(S)' = Less(S)
    BY <1>1, <2>2 DEF Less, NoCall
  <2>. QED
    BY <1>1, <2>3, <2>4, <2>5 DEF Follows, NewId
<1>. QED
  BY <1>2, <1>3, <1>4, <1>5 DEF RecordInv

-----------------------------------------------------------------------------
(* The invariant holds, and with it the property.                          *)

LEMMA RecordInvInit ==
  ASSUME RecordAssumption, RecordInit
  PROVE  RecordInv
<1> USE DEF RecordInit
<1>1. {} \in Tables /\ \A o \in Owners : {[id |-> <<o, 0>>, n |-> 0]} \in Tables
  <2>1. {} \in Tables
    BY FS_EmptySet DEF Tables
  <2>2. \A o \in Owners : [id |-> <<o, 0>>, n |-> 0] \in Records
    BY DEF Records, Ids
  <2>3. \A x : IsFiniteSet({x})
    BY FS_Singleton
  <2>. QED
    BY <2>1, <2>2, <2>3 DEF Tables
<1>2. RecordTypeInv
  <2>1. <<>> \in Seq(Records)
    OBVIOUS
  <2>. QED
    BY <1>1, <2>1 DEF RecordTypeInv, NoCall, Closed, RecordAssumption
<1>3. \A id \in InUse : id[2] <= writes
  <2>1. Named(ToSet(list)) = {} /\ Named(reading.data) = {} /\ import = NoCall /\ removal = NoCall
    BY DEF Named, ToSet
  <2>2. \A o \in Owners : Named(table[o]) = {<<o, 0>>}
    BY DEF Named
  <2>3. InUse = UNION {Named(table[o]) : o \in Owners}
    BY <2>1 DEF InUse
  <2>4. ASSUME NEW id \in InUse PROVE \E o \in Owners : id = <<o, 0>>
    <3> HIDE DEF RecordInit
    <3>1. PICK o \in Owners : id \in Named(table[o])
      BY <2>3
    <3>. QED
      BY <2>2, <3>1
  <2>. QED
    BY <2>4
<1>4. NumbersInv
  BY <1>3 DEF NumbersInv, Closed, NoCall
<1>5. GoneInv /\ FollowsInv
  BY DEF GoneInv, FollowsInv, NoCall
<1>. QED
  BY <1>2, <1>4, <1>5 DEF RecordInv

LEMMA RecordInvNext ==
  ASSUME RecordAssumption, RecordInv, [RecordNext]_recordVars
  PROVE  RecordInv'
<1> USE DEF RecordInv
<1>1. CASE TenantsArrive \/ CloseForm \/ UNCHANGED recordVars \/ \E o \in Owners : SupersededAnswers(o)
  BY <1>1, RestStep DEF TenantsArrive, CloseForm, recordVars, SupersededAnswers, Closed, RecordTypeInv, NumbersInv
<1>2. ASSUME NEW id, OpenForm(id), id = NoRecord \/ \E i \in DOMAIN list : id = list[i].id
      PROVE  RecordInv'
  <2>1. id # NoRecord => (id \in Ids /\ id[2] <= writes)
    BY <1>2, ListsSet DEF RecordTypeInv, NumbersInv, InUse
  <2>. QED
    BY <1>2, <2>1, RestStep DEF OpenForm
<1>3. CASE OpenAddMappingDialog \/ OpenAddAddressDialog \/ OpenCreateUserDialog \/ OpenCreateTenantDialog
  BY <1>2, <1>3 DEF OpenAddMappingDialog, OpenAddAddressDialog, OpenCreateUserDialog,
                    OpenCreateTenantDialog
<1>4. CASE \/ OpenEditMappingDialog \/ OpenEditUserDialog \/ OpenEditTenantDialog
           \/ OpenEditAddressDialog
  BY <1>2, <1>4 DEF OpenEditMappingDialog, OpenEditUserDialog, OpenEditTenantDialog,
                    OpenEditAddressDialog, OpensRow
<1>5. CASE LoadMappings \/ LoadUsers \/ LoadTenants \/ LoadAddresses
  BY <1>5, ListLoadedStep DEF LoadMappings, LoadUsers, LoadTenants, LoadAddresses
<1>6. CASE ListRead \/ ListFails \/ \E o \in Owners : SwitchTenant(o)
  BY <1>6, ListReadStep, ListFailsStep, SwitchTenantStep
<1>7. CASE SubmitMapping \/ SubmitUser \/ SubmitTenant \/ SubmitAddress
  BY <1>7, SubmitsStep DEF SubmitMapping, SubmitUser, SubmitTenant, SubmitAddress
<1>8. CASE ChangeServed \/ OldAddressDeleted \/ ChangeAnswered \/ ChangeFails
  BY <1>8, ChangeServedStep, OldAddressDeletedStep, ChangeAnsweredStep, ChangeFailsStep
<1>9. CASE HandleDelete \/ HandleConfirmDeleteUser \/ HandleConfirmDeleteTenant \/ HandleDeleteAddress
  BY <1>9, AsksRemovalStep DEF HandleDelete, HandleConfirmDeleteUser, HandleConfirmDeleteTenant,
                               HandleDeleteAddress
<1>10. CASE RemovalServed \/ RemovalAnswered \/ RemovalFails
  BY <1>10, RemovalServedStep, RemovalAnsweredStep, RemovalFailsStep
<1>11. CASE HandleImport \/ ImportReads \/ ImportShown \/ ImportFails
  BY <1>11, HandleImportStep, ImportReadsStep, ImportShownStep, ImportFailsStep
<1>. QED
  BY <1>1, <1>3, <1>4, <1>5, <1>6, <1>7, <1>8, <1>9, <1>10, <1>11 DEF RecordNext

\* In every state of a screen with records: the calls and the tables are well formed,
\* ids are new when a record is written, what was deleted is gone, and the list with
\* the answers to come is the table.
THEOREM RecordsHold ==
  ASSUME RecordAssumption
  PROVE  RecordSpec => []RecordInv
BY RecordInvInit, RecordInvNext, PTL DEF RecordSpec

\* Once every call is answered, the list shows every record of the tenant selected as
\* the database has it, and each once, for any number of tenants, changes and failures,
\* but in the cases ListIsTheTable excepts.
THEOREM ListStaysTable ==
  ASSUME RecordAssumption
  PROVE  RecordSpec => []ListIsTheTable
<1>1. RecordInv => ListIsTheTable
  <2>1. SUFFICES ASSUME RecordInv, reading.at = "no", change = NoCall, removal = NoCall, import = NoCall,
                        ~adrift
                 PROVE  ToSet(list) = table[Scope(owner)] /\ IsInjective(list)
    BY DEF ListIsTheTable
  <2>2. ~Wrote(change) /\ Tracked
    BY <2>1 DEF Wrote, Tracked, NoCall
  <2>3. Follows
    BY <2>1, <2>2 DEF RecordInv, FollowsInv
  <2>4. Less(Effect(change, ToSet(list))) = ToSet(list)
    BY <2>1, <2>2, EffectIs DEF Less, NoCall
  <2>5. IsInjective(list)
    BY <2>3 DEF Follows, Once, IsInjective
  <2>. QED
    BY <2>3, <2>4, <2>5 DEF Follows
<1>. QED
  BY <1>1, RecordsHold, PTL
=============================================================================
