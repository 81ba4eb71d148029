------------------------- MODULE ArtworkAssignments -------------------------
(***************************************************************************)
(* Which artwork goes on which asset (QuoteBuilderScreen): the images of a *)
(* campaign, the three places in which an asset names one - per format, as *)
(* rows of artwork, material and frames, and as the single image of older  *)
(* campaigns -, the dialogs that edit them, creative names, and the        *)
(* deletion of an image with its files.                                    *)
(*                                                                         *)
(* A click and the React updates it makes are one step.  The dialogs are   *)
(* modal: only the one opened last can be clicked.                         *)
(***************************************************************************)
EXTENDS Naturals, Sequences, FiniteSets, FiniteSetsExt, SequencesExt

CONSTANTS
  Images,     \* image ids
  Uploading,  \* those not in the stored campaign: uploads that may yet finish
  Formats,    \* the sheet formats, in the order of the older campaigns
  Multi,      \* those with several artworks per asset
  Eight, QA0, \* the formats whose slots older campaigns confused
  Assets,     \* the assets of the plan
  Plans,      \* frames per format a summary may show, as [Assets -> [formats -> Nat]]
  Stored,     \* the assets a stored campaign may have, as [Assets -> asset]
  Material,   \* the default material of every format
  Blobs,      \* files of an image: its pages, thumbnail and preview
  None,
  MaxRows,    \* bound: rows of a dialog
  MaxClicks   \* bound: edits by the user

Fs == ToSet(Formats)

\* A row of artwork, and the artwork fields of an asset.
RowType == [image : Images \cup {None}, material : {Material, None}, frames : Nat]
AssetType == [ids : [Fs -> Images \cup {None}], legacy : Images \cup {None},
              rows : [Fs -> Seq(RowType) \cup {None}]]

ASSUME ArtworkAssumption ==
  /\ Uploading \subseteq Images /\ Multi \subseteq Fs /\ {Eight, QA0} \subseteq Fs /\ QA0 # Eight
  /\ Formats \in Seq(Fs) /\ IsFiniteSet(Images)
  /\ None \notin Images \cup Assets \cup Nat \cup Seq(RowType)
  /\ Plans \subseteq [Assets -> [Fs -> Nat]] /\ {MaxRows, MaxClicks} \subseteq Nat

VARIABLES
  images,   \* values.printImages
  assets,   \* the artwork fields of every asset
  plan,     \* frames per asset and format in the summary on screen
  multi,    \* multiArtworkTarget and multiArtworkRecords, or None
  material, \* materialTarget and multiMaterialRecords, or None
  preview,  \* previewArtworkTarget, or None
  assign,   \* assignArtworkTarget, with no asset for the manager, or None
  naming,   \* creativeNameTargetId, or None
  confirm,  \* deleteArtworkCandidate, or None
  deleting, \* the files whose deletion confirmDeleteArtwork awaits
  names,    \* creativeNameAssignments
  blobs,    \* the files in the store, as pairs of an image and a file
  flight,   \* deletions on their way to the server
  held,     \* history: images deleted while an empty row of a dialog had them
  broken,   \* history: images whose deletion failed half-way
  aside,    \* history: the dialog of rows that is open did not write the rows of its asset last
  uploads,  \* uploads that may yet finish
  clicks

vars == <<images, assets, plan, multi, material, preview, assign, naming, confirm,
          deleting, names, blobs, flight, held, broken, aside, uploads, clicks>>

dialogs == <<multi, material, preview, assign, naming, confirm>>
files == <<deleting, blobs, flight, held, broken, uploads>>

-----------------------------------------------------------------------------
(* Reading an asset.                                                       *)

Row(i, m, n) == [image |-> i, material |-> m, frames |-> n]

\* The rows that have frames, in order, and the frames of all rows.
Framed(rows) ==
  LET kept[k \in 0 .. Len(rows)] ==
        IF k = 0 THEN <<>>
        ELSE IF rows[k].frames > 0 THEN Append(kept[k - 1], rows[k]) ELSE kept[k - 1]
  IN kept[Len(rows)]
Frames(rows) ==
  LET sum[k \in 0 .. Len(rows)] == IF k = 0 THEN 0 ELSE sum[k - 1] + rows[k].frames
  IN sum[Len(rows)]

\* The image of an older campaign counts for every format until one is mapped.
NormalizeCreativeImageIds(a) ==
  IF \A f \in Fs : a.ids[f] = None THEN [f \in Fs |-> a.legacy] ELSE a.ids

\* Rows without frames are dropped, and with the last one the format's entry.
RowsFor(a, f) == IF a.rows[f] = None THEN <<>> ELSE Framed(a.rows[f])
NormalizeRows(a) == [f \in Fs |-> IF RowsFor(a, f) = <<>> THEN None ELSE RowsFor(a, f)]

CreativeImageFor(a, f) ==
  IF a.ids[f] # None THEN a.ids[f]
  ELSE IF f = QA0 /\ a.ids[Eight] # None THEN a.ids[Eight]
  ELSE IF \E g \in Fs : a.ids[g] # None THEN None ELSE a.legacy

\* Every image an asset names.
ImagesOf(a) ==
  ({NormalizeCreativeImageIds(a)[f] : f \in Fs} \cup {a.legacy}
     \cup UNION {{r.image : r \in ToSet(RowsFor(a, f))} : f \in Fs}) \ {None}

\* The campaign that is opened has every image its assets name: what the exceptions
\* of NamedImagesAreListed let into the store is not opened again here.
ASSUME StoredImagesAssumption ==
  \A s \in Stored : /\ s \in [Assets -> AssetType]
                    /\ \A x \in Assets : ImagesOf(s[x]) \subseteq Images \ Uploading

\* Bug of AssignedArtwork: the rows are not looked at.
BugAssignedArtwork ==
  UNION {({NormalizeCreativeImageIds(assets[x])[f] : f \in Fs} \cup {assets[x].legacy}) \ {None} : x \in Assets}

AssignedArtwork == UNION {ImagesOf(assets[x]) : x \in Assets}

Planned(x) == {f \in Fs : plan[x][f] > 0}

\* The formats a tick in the artwork dialog is for.
ArtworkFormats(x) ==
  IF Planned(x) # {} THEN Planned(x)
  ELSE {f \in Fs : assets[x].ids[f] # None \/ assets[x].rows[f] # None}

\* The first mapped image, in the order of the formats.
FirstMapped(ids) ==
  LET mapped == {k \in DOMAIN Formats : ids[Formats[k]] # None}
  IN IF mapped = {} THEN None ELSE ids[Formats[Min(mapped)]]

-----------------------------------------------------------------------------
(* The summary.                                                            *)

\* A format with frames and no rows gets one row of them all.
DefaultRows(x, p) ==
  LET a == assets[x]
      new == {f \in Fs : p[x][f] > 0 /\ a.rows[f] = None}
      kept == NormalizeRows(a)
  IN IF new = {} THEN a ELSE [a EXCEPT !.rows = [f \in Fs |->
       IF f \in new THEN <<Row(CreativeImageFor(a, f), Material, p[x][f])>> ELSE kept[f]]]

\* A summary arrives, whatever dialog is open: its totals are those it opened with.
SummaryArrives(p) ==
  /\ p # plan /\ plan' = p
  /\ clicks < MaxClicks /\ clicks' = clicks + 1
  /\ assets' = [x \in Assets |-> DefaultRows(x, p)]
  /\ aside' = (aside \/ assets' # assets)
  /\ UNCHANGED <<images, dialogs, names, files>>

UploadFinishes(i) ==
  /\ i \in uploads /\ uploads' = uploads \ {i}
  /\ images' = images \cup {i} /\ blobs' = blobs \cup {i} \X Blobs
  /\ UNCHANGED <<assets, plan, dialogs, names, deleting, flight, held, broken, aside, clicks>>

-----------------------------------------------------------------------------
(* Opening and closing.                                                    *)

Click == clicks < MaxClicks /\ clicks' = clicks + 1
Target(x, f, slot) == [asset |-> x, format |-> f, slot |-> slot]

\* The dialog that can be clicked.
Screen   == dialogs = <<None, None, None, None, None, None>>
OnTop(d) == CASE d = "assign"   -> assign # None /\ naming = None /\ confirm = None
              [] d = "multi"    -> multi # None /\ assign = None
              [] d = "material" -> material # None
              [] d = "preview"  -> preview # None /\ assign = None

OpenMultiArtworkDialog(x, f) ==
  /\ Screen /\ f \in Planned(x) \cap Multi
  /\ LET a == assets[x]
         records == IF a.rows[f] # None THEN Framed(a.rows[f])
                    ELSE <<Row(None, Material, plan[x][f])>>
     IN multi' = [asset |-> x, format |-> f, total |-> plan[x][f], records |-> records,
                  opened |-> Frames(records)]
  /\ aside' = (assets[x].rows[f] = None)
  /\ UNCHANGED <<images, assets, plan, material, preview, assign, naming, confirm, names, files, clicks>>

OpenMaterialDialog(x, f) ==
  /\ Screen /\ f \in Planned(x) \ Multi
  /\ LET rows == RowsFor(assets[x], f)
         records == IF rows # <<>> THEN rows ELSE <<Row(None, Material, plan[x][f])>>
     IN material' = [asset |-> x, format |-> f, total |-> plan[x][f], records |-> records,
                     opened |-> Frames(records)]
  /\ aside' = (RowsFor(assets[x], f) = <<>>)
  /\ UNCHANGED <<images, assets, plan, multi, preview, assign, naming, confirm, names, files, clicks>>

\* The creative button of a format with one artwork: its preview, or the choice.
OpenArtworkDialog(x, f) ==
  /\ Screen /\ f \in Planned(x) \ Multi
  /\ IF CreativeImageFor(assets[x], f) # None
     THEN preview' = Target(x, f, None) /\ UNCHANGED assign
     ELSE assign' = Target(x, f, None) /\ UNCHANGED preview
  /\ UNCHANGED <<images, assets, plan, multi, material, naming, confirm, names, files, aside, clicks>>

\* The choice opened from a preview, a row of the rows dialog, or the screen.
OpenAssignArtworkDialog ==
  /\ \/ OnTop("preview") /\ CreativeImageFor(assets[preview.asset], preview.format) \in images
        /\ assign' = preview
     \/ OnTop("multi") /\ \E k \in DOMAIN multi.records :
          assign' = Target(multi.asset, multi.format, k)
     \/ Screen /\ assign' = Target(None, None, None)
  /\ UNCHANGED <<images, assets, plan, multi, material, preview, naming, confirm, names, files, aside, clicks>>

CloseDialog ==
  /\ \/ OnTop("assign") /\ assign' = None /\ UNCHANGED <<multi, material, preview>>
     \/ OnTop("multi") /\ multi' = None /\ UNCHANGED <<assign, material, preview>>
     \/ OnTop("material") /\ material' = None /\ UNCHANGED <<assign, multi, preview>>
     \/ OnTop("preview") /\ preview' = None /\ UNCHANGED <<assign, multi, material>>
  /\ UNCHANGED <<images, assets, plan, naming, confirm, names, files, aside, clicks>>

-----------------------------------------------------------------------------
(* The rows of a format.                                                   *)

\* The records with frames become the rows of the format.
SyncMultiArtworkRecords(records) ==
  /\ multi' = [multi EXCEPT !.records = records] /\ aside' = FALSE
  /\ assets' = [assets EXCEPT ![multi.asset].rows =
       [NormalizeRows(assets[multi.asset]) EXCEPT ![multi.format] = Framed(records)]]

Remaining(d) == IF d.total > Frames(d.records) THEN d.total - Frames(d.records) ELSE 0

\* The frames a record may have beside the others.
MaxForRow(d, k) ==
  LET others == Frames(RemoveAt(d.records, k)) IN IF d.total > others THEN d.total - others ELSE 0

\* Bug of UpdateMultiArtworkRecordFrameCount: what the others use is not counted.
BugUpdateMultiArtworkRecordFrameCount(k, n) ==
  /\ OnTop("multi") /\ Click
  /\ SyncMultiArtworkRecords([multi.records EXCEPT ![k].frames = Min({n, multi.total})])
  /\ UNCHANGED <<images, plan, material, preview, assign, naming, confirm, names, files>>

UpdateMultiArtworkRecordFrameCount(k, n) ==
  /\ OnTop("multi") /\ Click
  /\ SyncMultiArtworkRecords([multi.records EXCEPT ![k].frames = Min({n, MaxForRow(multi, k)})])
  /\ UNCHANGED <<images, plan, material, preview, assign, naming, confirm, names, files>>

UpdateMultiArtworkRecordMaterial(k) ==
  /\ OnTop("multi") /\ Click
  /\ SyncMultiArtworkRecords([multi.records EXCEPT ![k].material = Material])
  /\ UNCHANGED <<images, plan, material, preview, assign, naming, confirm, names, files>>

\* A record of as many frames as the last one, or as are left.
AddMultiArtworkRecord ==
  /\ OnTop("multi") /\ Remaining(multi) > 0 /\ Len(multi.records) < MaxRows /\ Click
  /\ LET left == Remaining(multi)
         n == IF multi.records = <<>> THEN left ELSE Min({Last(multi.records).frames, left})
     IN SyncMultiArtworkRecords(Append(multi.records, Row(None, Material, n)))
  /\ UNCHANGED <<images, plan, material, preview, assign, naming, confirm, names, files>>

\* Bug of RemoveMultiArtworkRecord: the asset keeps the row.
BugRemoveMultiArtworkRecord(k) ==
  /\ OnTop("multi") /\ Click
  /\ multi' = [multi EXCEPT !.records = RemoveAt(@, k)]
  /\ UNCHANGED <<images, assets, plan, material, preview, assign, naming, confirm, names, files, aside>>

RemoveMultiArtworkRecord(k) ==
  /\ OnTop("multi") /\ Click
  /\ SyncMultiArtworkRecords(RemoveAt(multi.records, k))
  /\ UNCHANGED <<images, plan, material, preview, assign, naming, confirm, names, files>>

\* The material dialog has no artworks of its own: a record takes that of the
\* row now at its place, or the one of the format.
SyncMultiMaterialRecords(records) ==
  LET a == assets[material.asset]
      rows == RowsFor(a, material.format)
      At(k) == IF k \in DOMAIN rows THEN rows[k].image ELSE None
      single == CreativeImageFor(a, material.format)
      next == [k \in DOMAIN records |-> [records[k] EXCEPT
                 !.image = IF At(k) # None THEN At(k) ELSE single]]
  IN /\ material' = [material EXCEPT !.records = records] /\ aside' = FALSE
     /\ assets' = [assets EXCEPT ![material.asset].rows =
          [NormalizeRows(a) EXCEPT ![material.format] = Framed(next)]]

UpdateMultiMaterialRecord(k) ==
  /\ OnTop("material") /\ Click
  /\ \/ \E m \in {Material, None} :
          SyncMultiMaterialRecords([material.records EXCEPT ![k].material = m])
     \/ \E n \in 0 .. material.total :
          SyncMultiMaterialRecords([material.records EXCEPT
                                      ![k].frames = Min({n, MaxForRow(material, k)})])
  /\ UNCHANGED <<images, plan, multi, preview, assign, naming, confirm, names, files>>

AddMultiMaterialRecord ==
  /\ OnTop("material") /\ Remaining(material) > 0 /\ Len(material.records) < MaxRows /\ Click
  /\ SyncMultiMaterialRecords(Append(material.records, Row(None, None, Remaining(material))))
  /\ UNCHANGED <<images, plan, multi, preview, assign, naming, confirm, names, files>>

RemoveMultiMaterialRecord(k) ==
  /\ OnTop("material") /\ Len(material.records) > 1 /\ Click
  /\ SyncMultiMaterialRecords(RemoveAt(material.records, k))
  /\ UNCHANGED <<images, plan, multi, preview, assign, naming, confirm, names, files>>

-----------------------------------------------------------------------------
(* Choosing an artwork.                                                    *)

\* The image of a whole format, and of all its rows.
WithFormatImage(a, f, i) ==
  LET ids == [NormalizeCreativeImageIds(a) EXCEPT ![f] = i]
      rows == RowsFor(a, f)
  IN [ids |-> ids, legacy |-> FirstMapped(ids),
      rows |-> IF rows = <<>> THEN NormalizeRows(a)
               ELSE [NormalizeRows(a) EXCEPT ![f] = [k \in DOMAIN rows |-> [rows[k] EXCEPT !.image = i]]]]

\* The click on an image: for a record of the rows dialog, or for the format.
AssignArtworkImageToTarget(i) ==
  /\ OnTop("assign") /\ assign.asset # None /\ i \in images /\ Click
  /\ IF assign.slot # None
     THEN SyncMultiArtworkRecords([multi.records EXCEPT ![assign.slot].image = i])
     ELSE assets' = [assets EXCEPT ![assign.asset] = WithFormatImage(@, assign.format, i)]
          /\ UNCHANGED <<multi, aside>>
  /\ assign' = None /\ preview' = None
  /\ UNCHANGED <<images, plan, material, naming, confirm, names, files>>

RemoveArtworkFromPreview ==
  /\ OnTop("preview") /\ Click
  /\ CreativeImageFor(assets[preview.asset], preview.format) \in images
  /\ assets' = [assets EXCEPT ![preview.asset] = WithFormatImage(@, preview.format, None)]
  /\ preview' = None
  /\ UNCHANGED <<images, plan, multi, material, assign, naming, confirm, names, files, aside>>

Ticked(x, i) ==
  LET a == assets[x]
      fs == ArtworkFormats(x)
      ids == [f \in Fs |-> IF f \in fs THEN i ELSE NormalizeCreativeImageIds(a)[f]]
      Row1(r, k) == IF k = 1 \/ r.image = None THEN [r EXCEPT !.image = i] ELSE r
  IN IF fs = {} THEN [a EXCEPT !.legacy = i]
     ELSE [ids |-> ids, legacy |-> i,
           rows |-> [f \in Fs |-> IF f \in fs /\ RowsFor(a, f) # <<>>
                       THEN [k \in DOMAIN RowsFor(a, f) |-> Row1(RowsFor(a, f)[k], k)]
                       ELSE NormalizeRows(a)[f]]]

\* Bug of Unticked: the rows keep the image.
BugUnticked(x, i) ==
  LET a == assets[x]
      fs == ArtworkFormats(x)
      ids == [f \in Fs |-> IF f \in fs /\ NormalizeCreativeImageIds(a)[f] = i THEN None
                           ELSE NormalizeCreativeImageIds(a)[f]]
  IN IF fs = {} THEN [a EXCEPT !.legacy = IF @ = i THEN None ELSE @]
     ELSE [ids |-> ids, legacy |-> IF a.legacy = i THEN FirstMapped(ids) ELSE a.legacy,
           rows |-> NormalizeRows(a)]

\* Only the formats in use let go of the image.
Unticked(x, i) ==
  LET a == assets[x]
      fs == ArtworkFormats(x)
      ids == [f \in Fs |-> IF f \in fs /\ NormalizeCreativeImageIds(a)[f] = i THEN None
                           ELSE NormalizeCreativeImageIds(a)[f]]
      Without(r) == IF r.image = i THEN [r EXCEPT !.image = None] ELSE r
  IN IF fs = {} THEN [a EXCEPT !.legacy = IF @ = i THEN None ELSE @]
     ELSE [ids |-> ids, legacy |-> IF a.legacy = i THEN FirstMapped(ids) ELSE a.legacy,
           rows |-> [f \in Fs |-> IF f \in fs /\ RowsFor(a, f) # <<>>
                       THEN [k \in DOMAIN RowsFor(a, f) |-> Without(RowsFor(a, f)[k])]
                       ELSE NormalizeRows(a)[f]]]

\* The box of an asset beside an image, ticked when the asset names the image.
SetArtworkAssetAssignment(x, i) ==
  /\ OnTop("assign") /\ i \in images /\ Click
  /\ assets' = [assets EXCEPT ![x] = IF i \in ImagesOf(@) THEN Unticked(x, i) ELSE Ticked(x, i)]
  /\ aside' = TRUE
  /\ UNCHANGED <<images, plan, dialogs, names, files>>

-----------------------------------------------------------------------------
(* Creative names.                                                         *)

CreativeNumbers == DOMAIN names
Offered == {n \in CreativeNumbers : n <= Max({Cardinality(images), 1}) \/ names[n] \in images}

OpenCreativeNames(i) ==
  /\ OnTop("assign") /\ i \in images
  /\ naming' = i
  /\ UNCHANGED <<images, assets, plan, multi, material, preview, assign, confirm, names, files, aside, clicks>>

CloseCreativeNames ==
  /\ naming # None /\ naming' = None
  /\ UNCHANGED <<images, assets, plan, multi, material, preview, assign, confirm, names, files, aside, clicks>>

\* Bug of AssignCreativeName: a chosen name is taken over.
BugAssignCreativeName(i, n) ==
  [m \in CreativeNumbers |-> IF m = n THEN i
                             ELSE IF names[m] = i \/ names[m] \notin images THEN None ELSE names[m]]

\* Names of deleted images are free, those of others refused, the old one is given up.
AssignCreativeName(i, n) ==
  IF n # None /\ names[n] \in images \ {i} THEN names
  ELSE [m \in CreativeNumbers |-> IF m = n THEN i
                                  ELSE IF names[m] = i \/ names[m] \notin images THEN None ELSE names[m]]

SelectCreativeName(n) ==
  /\ naming # None /\ n \in Offered \cup {None} /\ Click
  /\ names' = AssignCreativeName(naming, n)
  /\ naming' = IF n # None /\ names[n] \in images \ {naming} THEN naming ELSE None
  /\ UNCHANGED <<images, assets, plan, multi, material, preview, assign, confirm, files, aside>>

-----------------------------------------------------------------------------
(* Deleting an image.                                                      *)

\* An image some asset names is refused.
HandleDeleteArtwork(i) ==
  /\ OnTop("assign") /\ i \in images \ AssignedArtwork
  /\ confirm' = i
  /\ UNCHANGED <<images, assets, plan, multi, material, preview, assign, naming, names, files, aside, clicks>>

CancelDeleteArtwork ==
  /\ confirm # None /\ deleting = {}
  /\ confirm' = None
  /\ UNCHANGED <<images, assets, plan, multi, material, preview, assign, naming, names, files, aside, clicks>>

\* All files of the image are deleted at once.
ConfirmDeleteArtwork ==
  /\ confirm # None /\ deleting = {} /\ Click
  /\ deleting' = {confirm} \X Blobs
  /\ flight' = flight \cup deleting'
  /\ UNCHANGED <<images, assets, plan, dialogs, names, blobs, held, broken, aside, uploads>>

\* One deletion is done, or finds nothing; with the last one the image goes.
BlobDeleted(b) ==
  /\ b \in flight
  /\ flight' = flight \ {b} /\ blobs' = blobs \ {b} /\ deleting' = deleting \ {b}
  /\ IF deleting = {b}
     THEN /\ images' = images \ {confirm} /\ confirm' = None
          /\ preview' = IF preview # None /\ CreativeImageFor(assets[preview.asset], preview.format) = confirm
                        THEN None ELSE preview
          /\ held' = IF multi # None /\ confirm \in {r.image : r \in ToSet(multi.records)}
                     THEN held \cup {confirm} ELSE held
     ELSE UNCHANGED <<images, confirm, preview, held>>
  /\ UNCHANGED <<assets, plan, multi, material, assign, naming, names, broken, aside, uploads, clicks>>

\* Bug of BlobFails: a failed deletion is taken for a done one.
BugBlobFails(b) ==
  /\ b \in flight /\ broken = {}
  /\ flight' = flight \ {b}
  /\ deleting' = deleting \ {b}
  /\ broken' = broken \cup {b[1]}
  /\ IF deleting = {b} THEN images' = images \ {confirm} /\ confirm' = None
     ELSE UNCHANGED <<images, confirm>>
  /\ UNCHANGED <<assets, plan, multi, material, preview, assign, naming, names, blobs, held, aside, uploads, clicks>>

\* The first failure ends the wait, not the other deletions: the image stays.
BlobFails(b) ==
  /\ b \in flight /\ broken = {}
  /\ flight' = flight \ {b}
  /\ deleting' = IF b \in deleting THEN {} ELSE deleting
  /\ broken' = broken \cup {b[1]}
  /\ UNCHANGED <<images, assets, plan, dialogs, names, blobs, held, aside, uploads, clicks>>

-----------------------------------------------------------------------------
ArtworkInit ==
  /\ images = Images \ Uploading /\ uploads = Uploading
  /\ assets \in Stored /\ plan \in Plans
  /\ multi = None /\ material = None /\ preview = None
  /\ assign = None /\ naming = None /\ confirm = None
  /\ deleting = {} /\ flight = {} /\ blobs = images \X Blobs
  /\ names = [n \in 1 .. Cardinality(Images) |-> None]
  /\ held = {} /\ broken = {} /\ aside = FALSE /\ clicks = 0

ArtworkNext ==
  \/ \E p \in Plans : SummaryArrives(p)
  \/ \E i \in Images : \/ UploadFinishes(i) \/ AssignArtworkImageToTarget(i)
                        \/ OpenCreativeNames(i) \/ HandleDeleteArtwork(i)
                        \/ \E x \in Assets : SetArtworkAssetAssignment(x, i)
  \/ \E x \in Assets, f \in Fs : \/ OpenMultiArtworkDialog(x, f) \/ OpenMaterialDialog(x, f)
                                \/ OpenArtworkDialog(x, f)
  \/ OpenAssignArtworkDialog \/ CloseDialog \/ RemoveArtworkFromPreview
  \/ AddMultiArtworkRecord \/ AddMultiMaterialRecord
  \/ multi # None /\ \E k \in DOMAIN multi.records :
       \/ UpdateMultiArtworkRecordMaterial(k) \/ RemoveMultiArtworkRecord(k)
       \/ \E n \in 0 .. multi.total : UpdateMultiArtworkRecordFrameCount(k, n)
  \/ material # None /\ \E k \in DOMAIN material.records :
       UpdateMultiMaterialRecord(k) \/ RemoveMultiMaterialRecord(k)
  \/ CloseCreativeNames \/ \E n \in CreativeNumbers \cup {None} : SelectCreativeName(n)
  \/ CancelDeleteArtwork \/ ConfirmDeleteArtwork
  \/ \E b \in flight : BlobDeleted(b) \/ BlobFails(b)

ArtworkSpec == ArtworkInit /\ [][ArtworkNext]_vars

-----------------------------------------------------------------------------
(* Properties.                                                             *)

\* Whatever an asset names - per format, in a row, or as its single image - is
\* an image of the campaign: none is deleted that is in use.  The one way
\* around it is an image that an empty row of the open dialog of rows still had,
\* or one unticked underneath it.
NamedImagesAreListed ==
  \A x \in Assets : ImagesOf(assets[x]) \subseteq images \cup held

\* A dialog of rows hands out no more frames than the format has, or had when
\* the dialog was opened, whatever summaries arrive meanwhile.
FramesWithinTotal ==
  \A d \in {multi, material} \ {None} : Frames(d.records) <= Max({d.total, d.opened})

\* What the dialog of rows shows is what the asset has, from its first edit on,
\* until the asset is ticked, or given rows by a summary, beside it; the next
\* edit overwrites that.
RecordsAreRows ==
  /\ (multi # None /\ ~aside) =>
       RowsFor(assets[multi.asset], multi.format) = Framed(multi.records)
  /\ (material # None /\ ~aside) =>
       LET rows == RowsFor(assets[material.asset], material.format)
           recs == Framed(material.records)
       IN /\ Len(rows) = Len(recs)
          /\ \A k \in DOMAIN rows : rows[k].material = recs[k].material /\ rows[k].frames = recs[k].frames

\* The box that is unticked is unticked: the asset no longer names the image,
\* unless a format it does not plan at the moment still does.
UntickedIsGone ==
  [][\A x \in Assets, i \in Images :
       (i \in ImagesOf(assets[x]) /\ assets' # assets /\ SetArtworkAssetAssignment(x, i)) =>
         \/ i \notin ImagesOf(assets'[x])
         \/ \E f \in Fs \ ArtworkFormats(x) :
              \/ NormalizeCreativeImageIds(assets[x])[f] = i
              \/ i \in {r.image : r \in ToSet(RowsFor(assets[x], f))}]_vars

\* A listed image loses its creative name only when its own name is chosen.
NamesAreKept ==
  [][\A i \in images', n \in CreativeNumbers :
       (names[n] = i /\ names'[n] # i) => naming = i]_vars

\* Files and images go together: an image that is no longer listed has no files
\* left in the store, and a listed one has them all, except while its deletion
\* is under way and after one that failed half-way.
FilesOfImages ==
  \A i \in Images \ uploads :
    IF i \in images
    THEN {i} \X Blobs \subseteq blobs \/ i \in broken \/ (i = confirm /\ deleting # {})
    ELSE \A b \in Blobs : <<i, b>> \notin blobs
=============================================================================
