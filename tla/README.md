# FlowIQ in TLA+

FlowIQ is an ordering application for outdoor advertising. A Go API
(`src/apps/api`) keeps campaigns in PostgreSQL and submits them to PrintIQ, the
printer's quoting system; a Next.js web application (`src/apps/web`) is its only
client. This directory holds TLA+ models of it, TLC configurations that check
them on small instances, and proofs that TLAPS checks.

Three things in it are hard, and are what is modelled:

- the submission of a campaign: a sequence of non-repeatable calls to an external
  service, minutes long, that must survive crashes, lost replies, timeouts and
  repeated presses of Submit without producing a quote, a job or an attachment twice;
- the campaign editor: one form, saved by a timer and by a dozen handlers whose
  calls overlap, guarded by a lock that expires, filled in by effects that wait for
  data which arrives in any order;
- large files on their way from a disk or from OneDrive into a campaign: chunks,
  queues, leases and clean-ups.

Contents: [Inventory](#inventory) - [Modules](#modules) - [Runs](#runs) -
[Fairness](#fairness) - [Proofs](#proofs) - [Disagreements with the
documentation](#disagreements-with-the-documentation) - [Behaviour the properties
name as exceptions](#behaviour-the-properties-name-as-exceptions) - [Testing the
properties](#testing-the-properties) - [What is abstracted](#what-is-abstracted) -
[Not modelled](#not-modelled)

Run everything from this directory: `tlc -workers 2 -config SubmissionResume.cfg
MCPrintIQSubmission.tla`, `tlapm PrintIQSubmissionProofs.tla`,
and the same for the other modules whose names end in `Proofs`.

## Inventory

Paths are below `src/apps/`; `QBS` is `web/src/screens/QuoteBuilderScreen.tsx`.

| Component | State it keeps | What is hard | What makes it correct | Modelled in |
|---|---|---|---|---|
| PrintIQ campaign submission (`api/main.go:1310-1520`, `printiq_progress.go`, `printiq_submission.go`) | a `printiq_submission_progress` row per attempt, an advisory lock, the handler's copy of the journal | crash between save, call and save; saves whose confirmation is lost; timeouts that may have succeeded; stale copies written back whole; the lock living in one connection | a quote step is sent once; nothing is sent before it is saved; a recorded market is complete; one quote per market; every attempt can be finished | `PrintIQSubmission` |
| Campaign editor (`QBS`, `web/src/App.tsx`) | the form, what counts as persisted, the calls under way, the lock it believes it has | autosave, explicit saves, submission and artwork at once; answers after the editor is gone | one campaign per editor; no stored edit lost but in named races; a submitted form stays; edits reach the store | `CampaignEditor` |
| Campaign edit locks (`api/campaign_locks.go`) | owner and expiry (2 minutes) per campaign | checked in a transaction of its own, before the mutation it protects | two users never overwrite each other while the lock holds | `CampaignEditor`, `PrintIQSubmission` |
| Campaign store (`api/campaign_store.go`) | `campaigns`, `quotes`, `jobs` | whole forms written over forms; appends ask for no lock | totals, images and status belong to the form | `CampaignEditor`, `PrintIQSubmission`, `ArtworkUploads` (partly) |
| Market plan of the form (`QBS`) | markets and assets, draft, two calculations | two debounced calculations answered in any order; defaults that wait for data; overrides worked out from a stale summary | the summary is the plan's; every line has rows; one market saved leaves the others alone | `MarketPlan` |
| Artwork of the form (`QBS`) | images, and three places of an asset that name one | a dialog that edits a copy; frames capped by a total that shrinks; deletions that fail half way | what is named is listed; frames fit; files exist while listed; an image unticked is gone | `ArtworkAssignments` (partly) |
| Artwork uploads of the browser (`web/src/context/ArtworkUploadContext.tsx`) | queue, batches, polls of imports | files of a batch end in any order, are removed, restored, polled twice | a notice is true; every batch is announced | `ArtworkUploads` |
| OneDrive import (`api/onedrive_import.go`) | `onedrive_artwork_imports`: status, lease; stored objects | a lease that expires under a working process; a failure after the append; clean-up by name | an import ends once; completed means appended, with its files | `OneDriveImport`, `ImportJob` |
| Resumable uploads (`api/resumable_upload.go`, `web/src/services/campaignImageApi.ts`) | a directory of chunk files | a chunk written twice at once, or during assembly | the stored file is the file sent | `ResumableUpload` |
| Settings screens with drafts (six of `web/src/screens`) | drafts, the saved values, one loading flag | two calls share the flag; saves answered late or under another tenant | stored values are the tenant's own; an edit is stored, shown, or given up | `DraftScreens` |
| Settings screens with records (`MappingAdmin`, `UserManagement`, `TenantManagement`, `ShippingSettings`) | a list never read again, a dialog | answers put into a list that has changed since | the list is the table | `RecordScreens` (partly) |
| Calculator (`api/calculator.go`) | rates | distribution of an override, rounding | the counts of the lines add up | `MarketPlan` (partly) |
| Submission summary, legacy guard, delivery jobs, payload builders, PrintIQ client, Type B orders, password reset, blob storage, database, other screens, shared packages | - | - | - | [not modelled](#not-modelled) |

The parts interact through PostgreSQL rows (every replica of the API reads and
writes the same ones), through the advisory lock and the edit locks kept there,
through files in a shared directory and an object store, and through calls to
PrintIQ and Microsoft Graph. In the browser they share the form: the plan decides
which lines the artwork dialogs show, the upload queue and the OneDrive worker
append images to a campaign that may be being edited or submitted.

## Modules

### PrintIQSubmission

One campaign and everything that can happen to it from the moment someone presses
Submit.

| Variable | Code |
|---|---|
| `campaign` | row of `campaigns`: what the fingerprint hashes, the status, whether a summary is stored |
| `editLock` | owner of the `campaign_edit_locks` row |
| `lock` | holder of `pg_try_advisory_lock` (`main.go:1331`) |
| `rows` | `printiq_submission_progress`, at most one unfinished row per campaign (unique index of migration 043) |
| `quotes` | rows of `quotes` inserted for a journal and a market |
| `build` | the deployed API build: two builds may make different payloads for the same step |
| `pc`, `req`, `seen`, `mem`, `pos`, `gone` | one running handler: where it is, its user and test flag, the campaign it read, its copy of the journal, its loop position, whether `r.Context()` is cancelled |
| `sent`, `landed`, `timeouts` | PrintIQ, seen from outside: requests received, requests acted on, timeout replies not yet looked into |
| `faults`, `drops` | budgets of the environment |

A market's calls are numbered: `CreateQuoteWithDelivery`, a `GetPrice` per further
product, a `GetQuoteQuestions` per product, `SaveQuoteQuestions`, a `GetPrice` per
delivery job, `AcceptQuote`, then the uploads. Actions, in the order of the handler:
`Begin`, `AssertEditable`, `Price`, `LoadJournal`, `Supersede`, `CreateJournal`, per
call `AnswerFromJournal` or `MarkPending`, `Send`, `Reply` (`runOnce` with its two
saves; `RetrySaveFails` is the extra save before the one automatic retry of an
upload), per market `Record`. `SetupFails` is every early return before the calls.
Beside them `Edit`, `Append`, `Calculate`, `EditLockEnds`, `MarkSubmitted`,
`ResetStatus`, `Reconcile`, and the environment's `Disconnect`, `Crash`, `DropLock`,
`Deploy`.

- A save rewrites the whole journal from the handler's memory (`Written`), and may
  fail before or after it commits (`SaveFails`): memory and row then differ.
- A failed quote step returns; a failed upload is remembered, the other uploads of
  the market are tried, and the failure is reported afterwards (`Proceed`).
- A success may carry no quote number or keys: it is saved as done and refused each
  time it is replayed.
- A transport or HTTP failure tells nothing of what PrintIQ did; the first explicit
  timeout of an upload in a request becomes `retryable_timeout`.

### CampaignEditor

`tab` is the editor mounted in each tab (form, `persistedSnapshot`, refs such as
`savingCampaign` and `leavingCampaignRef`, the lock it believes it has); `calls` are
the fetches under way, each of them sent, checked against the lock, answered and
handled in steps of its own, alive after the editor that sent it; `store`, `lock`
and `art` are the campaigns, their locks and the artwork batch. The form is the set of
edits it contains and the artwork it lists. Actions: opening (by list, address or as
new), typing, `AutoSave` (the 0.9 s timer), the handlers that save before they act
(submit, purchase order, documents, artwork), leaving with its last save, discarding,
refreshing, the server's check and write, the answers, lock expiry and takeover,
network failures.

### MarketPlan

`markets` and `draft` are `campaignMarkets` and the market in the dialog; `calc` and
`dcalc` the two debounced calculation effects, `stale` the calls whose effect was
cleaned up; `loads` the metadata, addresses, materials and sheet names that arrive in
any order. An event and the effects React flushes after it are one step (`Commit`
and `Restart` order them as the file does). What the dialog does goes through `Redraft`,
which restarts the draft's calculation only. `Distribute`, the distribution of a poster
override over the lines of a market, is the calculator's. `kept` is a history variable: which
addresses the arriving list had no chance to replace, and which the user chose after it.

### ArtworkAssignments

`images` and `assets` are the images of the form and the three places where an asset
names one (per format, as rows of artwork, material and frames, and the single image
of older campaigns); one variable per dialog; `blobs` and `flight` the files in the
store and the deletions under way. `SummaryArrives` is the plan as seen from here.

### ArtworkUploads, OneDriveImport, ImportJob

`ImportJob` is the abstract specification: an import is created once, worked on, and
ends for good; completed means appended. `OneDriveImport` is the workers: claim,
renewal, download, page by page storage, append, completion, `fail()`, the deferred
clean-up, lease expiry, death of a process. `KeepsThePromise` says the workers
implement `ImportJob`. `ArtworkUploads` is the browser, built on `ImportJob` for what
the server does: `queue` and `upload` are the queue of local PDFs and its one worker,
`creating` and `loops` the imports being created and polled, `batches` the counts
whose end is announced, `listing` the restoration of imports at a new session.

### ResumableUpload

One upload, its directory and files (named by the request that created them, so that
a path and an open descriptor can differ), chunk requests that write a half at a
time, assembly chunk by chunk, tabs that share the id and retry.

### DraftScreens, RecordScreens

The ten settings screens. `DraftScreens` has a screen chosen at the start and the
differences between the six as sets of screens (`PerMarket`, `Costs`);
`RecordScreens` likewise. Both have the calls for the tenants and for the data, the
superseded ones, saves answered late, and the database of every tenant.

### Compositions for TLC

`MCEditorParts`, `MCMarketPlan`, `MCWeb` and `MCImports` check several instances, or
several modules that share no state, in one run: a variable (`part`, `component`)
says which of them a behaviour belongs to, and the variables of the others rest.

## Runs

The configuration and the module of each run: `submission_*` and
`doc_uncertain_quote` check `MCPrintIQSubmission` with `SubmissionResume.cfg`,
`SubmissionTest.cfg`, `SubmissionUploads.cfg`, `SubmissionLockLost.cfg`,
`SubmissionLive.cfg` and `DocUncertainQuote.cfg`; `editor` checks `MCEditorParts` with
`EditorParts.cfg`, `editor_live` and `doc_typed_is_saved` check `MCCampaignEditor` with
`EditorLive.cfg` and `DocTypedIsSaved.cfg`; `market_plan`, `web` and `imports` check
`MCMarketPlan`, `MCWeb` and `MCImports` with `MarketPlan.cfg`, `Web.cfg` and
`Imports.cfg`.

| Run | Instance | Checks |
|---|---|---|
| `submission_resume` | 2 markets, 1 upload each, 2 handlers, user and super admin, 2 faults | `JournalInStep` `RecordedIsFinished` `QuoteStepsFinal`: after any two faults and any number of resumptions rows, memory, calls and recorded markets agree |
| `submission_test_mode` | 2 journals, 2 builds, user and super admin, test and real requests, 1 fault | `QuoteStepsSentOnce` `WriteAhead` `SubmitsOnlyRealWholeRuns`: no journal sends a quote step twice or unsaved; only a whole real run submits the campaign |
| `submission_uploads` | 2 products, 1 delivery job, 2 uploads, 2 faults, fair handlers | `TypeOK` `DuplicatesOnlyAfterTimeouts` `RequestsEnd`: an attachment is doubled only by an unlooked-into timeout; every request ends and gives the lock back |
| `submission_lock_lost` | 2 handlers, 2 journals, 2 markets, the lock's connection lost once | `OneQuotePerRecordedMarket` `CompletedCoversAllMarkets`: what the record transaction guarantees without the lock |
| `submission_live` | 1 upload, 2 faults, fair handlers and people | `AcceptedJournalsFinish`: no state of an upload is a dead end once the quotes exist |
| `editor` | three parts: two users and a campaign; a tab with every handler; a tab left, refreshed and opened again, one failure | `TypeOK` `OneCampaignPerEditor` `PersistedIsStored` `StoredEditsDroppedOnlyByRaces` `SubmittedFormStays` `UnsavedEditorsClosedOnPurpose` |
| `editor_live` | one tab, one artwork, 1 failure, fair timers and answers | `EditsReachTheStore` `LeavingEnds` |
| `market_plan` | 2 markets, an old campaign with 2 assets, 3 edits, 1 superseded calculation, 1 failure; beside it 2 tabs, 2 chunks, 3 requests | `SummaryOfThePlan` `RowsOfEveryLine` `AddressesCurrent` `SavingKeepsTheOthers` `FramesOfOneAsset`; `AssembledIsWhole` |
| `web` | artwork: 2 images, 2 formats, 3 stored assets, 4 clicks; import: 1 job, 2 workers, 1 crash, 1 pause, 2 errors, 1 lost confirmation; drafts and records: 2 tenants, 2 markets or records, 1 failure, 3 changes of tenant on the screen of the users | `NamedImagesAreListed` `FramesWithinTotal` `RecordsAreRows` `FilesOfImages` `UntickedIsGone` `NamesAreKept`; `CompletedHaveFiles`; `StoredIsOwn` `EditsAreKept`; `ListIsTheTable` |
| `imports` | 2 imports, 2 workers, 1 crash, 2 errors; uploads of the disk, of OneDrive, and of two users | `ImportsTypeOK` `NoticeIsTrue` `KeepsThePromise` `BatchesAreAnnounced` |
| `doc_uncertain_quote`, `doc_typed_is_saved` | smallest instance that shows it | [see below](#disagreements-with-the-documentation) |

All are exhaustive within their bounds and end in at most three minutes.

Bounds, each a constant of a model, and why they are enough:

- Submission. `NMarkets` 2 gives a journal that is half recorded; `Products` 2 with
  `Deliveries` 1 one call of every kind; `Uploads` 2 a failed upload before and after a
  good one. `MaxFaults` counts crashes, disconnects, failed or unconfirmed saves, and
  calls lost, rejected or timed out: 2 reach a failure during the recovery from
  another. `JournalIDs` bounds the attempts: when used up `CreateJournal` fails as an
  insert error does. `submission_lock_lost` leaves edits by hand out
  (`OnlyRequestsTouchCampaign`); a change of test mode makes a request start afresh.
  The counters `sent`, `landed` and `timeouts` need no bound: each growth costs a fault,
  a journal or a step.
- Editor. `MaxTyped` 2 is an edit before and one after a save was sent, `MaxCalls` 2 two
  calls that overtake each other, `MaxMounts` 2 an editor and its successor. The
  parts of `editor` leave out what the others have (`MCEditorParts` names the
  constants), because together they do not end.
- Market plan. `MaxEdits` 3 opens the dialog, changes and saves; `MaxStale` 1 is one
  calculation that arrives after its successor. The old campaign has the poster count of
  its own and the outdated address that newer ones cannot have.
- Uploads. Three requests are two writers of one chunk and the assembly's chunk
  of the other tab; a chunk has two halves, so that a write can be seen half done.
- Web and imports. Two tenants and one or two changes between them, three on the screen of
  the users: one to see another tenant's list, two to edit a user of a list that stayed,
  while the tenant whose list was loaded is selected again; four clicks reach
  a dialog, two changes in it and what follows; one page and its source object are the
  smallest set of files of which a part can be missing. The two screens with the most
  states (`settings`, `printingCost`) have one move instead of two, the mappings
  one change of tenant.

Symmetry (interchangeable handlers and row identifiers) is used in submission runs
without liveness. Deadlock is checked in the submission runs; in the others the
system may stop, as the counters of edits and clicks are used up
(`CHECK_DEADLOCK FALSE`).

## Fairness

- `HandlersRun` (submission): weak fairness of each handler's next step. Every wait in
  the code ends: a PrintIQ call has a client timeout of 60 s, a save 10 s, the delays
  before uploads are 1 s, 2 s and 30 s and end with the request. What `RequestsEnd`
  rests on is that `again` allows one retry and every other outcome moves on.
- `PeopleKeepTrying` (only `AcceptedJournalsFinish`) is an assumption about people: a
  super admin who submits again and again finds the lock free infinitely often
  (strong fairness of `Begin`), reconciles what the journal leaves uncertain (strong
  fairness of `Reconcile`), and nobody changes the status by hand forever. The property
  then says the code has no state of an upload from which neither can move on.
- Editor (`FairSpec`): weak fairness of each call (a fetch is answered or fails), of
  the autosave timer, of the merge of a batch that is done, and of the upload worker.
  Typing is not fair, and a user who has stopped is not assumed to save.
- Imports: weak fairness of each worker's next step (`claimOneDriveArtworkImport` is
  tried every two seconds, all calls have timeouts) and of the expiry of a lease
  nobody renews; `UploadFairness` of the browser's worker, polls and answers, while the
  page is open and the user signed in.

## Proofs

`PrintIQSubmissionProofs`, for every number of markets, products, deliveries, uploads,
handlers, users, journals and faults:

| Theorem | Statement |
|---|---|
| `TypeCorrect` | `Spec => []TypeOK`, with the lock lost or not. The part that is not bookkeeping: `retryable_timeout` is a state of uploads only, in rows and in memory |
| `StaysInStep` | `MaxDrops = 0 /\ Spec => []JournalInStep` |
| `QuoteStepsOnce` | `MaxDrops = 0 /\ Spec => []QuoteStepsSentOnce` |
| `SavedBeforeSent` | `MaxDrops = 0 /\ Spec => WriteAhead` |
| `FinalStepsStay` | `MaxDrops = 0 /\ Spec => QuoteStepsFinal` |

"A quote step is sent once" is not inductive: it depends on the row, the handler's
memory and PrintIQ agreeing. `JournalInStep` says how:

- `OneRequest`: past `Begin` there is one request, the lock's holder;
- `SentIsSaved`: a call that was sent has left its mark in the row, and
  `AbsentIsBlank`: a row not yet inserted has none;
- `MemoryKnows`: a request knows every mark of its row, so a mark prevents a call
  although `MustCall` reads memory and not the row;
- `QuoteStepsAgree`: a request that goes on has the row's own quote steps in memory.
  This is the key. A save that fails leaves memory and row apart, but for a quote step
  the request then returns; only uploads go on, and only their entries may differ.
  Therefore writing the whole journal back never changes a quote step it was not about;
- `InFlightIsPending` and `FirstSend`: between `MarkPending` and `Reply` the row says
  pending and, for a quote step, the call was not sent before.

`MaxDrops = 0` is needed: with two requests at once `MemoryKnows` and `QuoteStepsAgree`
are false. The lemmas ending in `Type` prove that each action keeps `TypeOK`, those
ending in `InStep` that each keeps `JournalInStep`.

The same module, for the same constants and without `MaxDrops = 0`:

| Theorem | Statement |
|---|---|
| `OneQuoteEach` | `Spec => []OneQuotePerRecordedMarket` |
| `ClosedIsWhole` | `Spec => []CompletedCoversAllMarkets` |
| `OnlyWholeRunsSubmit` | `Spec => SubmitsOnlyRealWholeRuns` |

What is recorded does not rest on the advisory lock: `recordSubmission` locks the row
and looks at it before it writes. `RecordInv` says why that is enough. `Booked` relates
one row to its quotes and to its status; `Loops` says of a request that every market
before its own is recorded in its row, which exists and is a test exactly when the
request is, so that the last market completes the row, for whoever records it.
`RecordNothing` deals with all steps but the committed transaction at once: they neither
close a row nor move a request to another market; `CommitBooks` and `CommitLoops` deal
with the transaction.

With one request at a time, again:

| Theorem | Statement |
|---|---|
| `RecordedIsDone` | `MaxDrops = 0 /\ Spec => []RecordedIsFinished` |
| `DuplicatesAreTimeouts` | `MaxDrops = 0 /\ Spec => []DuplicatesOnlyAfterTimeouts` |

Both relate what PrintIQ did to what the journal says of it. `Honest` does so step by
step: what is done was acted on; what is absent, failed or to be retried was acted on at
most once per timeout; only the first step of a market answers without keys. `Ledger` is
that for a row, `Course` for the memory of a request and the call it is at, which is
counted once more at most between `MarkPending` and `Reply`. `OnCourse` is why a market
that gets recorded is finished: while no attachment of it has failed, the request has
the row's own journal in memory, and every call it has passed was served. With two
requests at once it is false, as a second request writes a stale journal back.

`OneDriveImportProofs`, for every number of imports, workers, pages, crashes and
failures:

| Theorem | Statement |
|---|---|
| `ImportTyped` | `ImportSpec => []TypedInv`: the types, and how many objects a worker counts as stored at each of its steps |
| `FilesStay` | `ImportSpec => []CompletedHaveFiles`, whatever leases, confirmations and statements are lost |
| `Implements` | with `MaxPauses = 0` and `MaxLost = 0`, `ImportSpec => Job0!JobInit /\ [][Job0!JobNext]_(Job0!jobVars)`: the safety part of `KeepsThePromise` |

`FilesInv` strengthens `CompletedHaveFiles` for an import that is not doubted: one
worker is at it (`Alone`), what that worker counts as stored is there (`Kept`), and once
it says completed only the worker that is about to fail it may remain (`Whole`), so no
clean-up can still touch it. `LeaseInv` carries `Implements`: a worker holds the lease of
an open import until it has settled it (`Minds`); it is what makes every `complete` and
`fail`, which in the code look at neither lease nor status, act on an open import. It is
false when leases expire under living workers, and then the refinement fails too.

`ResumableUploadProofs`, for every number of chunks, tabs, requests and restarts:

| Theorem | Statement |
|---|---|
| `UploadTyped` | `ResumableSpec => []UploadTypeOK` |
| `StoredIsWhole` | `ResumableSpec => []AssembledIsWhole` |

A path names a file, a request may hold a descriptor of a file whose path is gone or
names another by now: `Files` says that paths and descriptors are of their chunk,
`Fresh` that what was only sent begins at the beginning. Unless writers or assemblies overlapped,
`Contents` says what is in the files: a chunk that its one writer holds grows half by
half (`InHand`, `Alone`), a chunk under its final name is whole (`Whole`), and the
assembly has appended the chunks before its position, in order and nothing else
(`Appended`). It is the rename after the write that makes `Whole` inductive.

`CampaignEditorProofs`, for every number of tabs, users, campaigns, files, edits, calls,
mounts and failures, and every assignment of users to tabs:

| Theorem | Statement |
|---|---|
| `EditorTyped` | `Spec => []TypeOK`. A call under way has a name of its own, and what it fetches, writes, submits or appends to exists |
| `SubmittedStays` | `Spec => SubmittedFormStays` |
| `ClosedOnPurpose` | `Spec => UnsavedEditorsClosedOnPurpose` |
| `OneCampaignEach` | `Spec => []OneCampaignPerEditor` |
| `EditsDroppedOnlyByRaces` | `Spec => StoredEditsDroppedOnlyByRaces` |
| `PersistedStored` | `Spec => []PersistedIsStored` |

Nothing about one tab is inductive without its calls, since a call outlives the editor
that sent it. `EditorInv` therefore speaks of a screen together with the calls of its
tab (`ScreenOK`): no call is of an editor yet to come; those of the editor shown are
about the campaign it shows; a fresh form has no call that opens a campaign; and, but
for a super admin, an editor that is open is not being opened any more, which is why no
late answer of its own bootstrap closes it. Every step but a creation changes one screen
and the calls of its tab (`ScreenStep`), and leaves the set of campaigns as it is
(`Kept`). `OneCampaignEach` needs `MadeOnce` on top: as long as a tab is orderly (one
call with the form at a time, no lost answer, no super admin), a create is sent before
its editor has made a campaign, and an open editor that has made one without knowing its
id has the answer waiting. A second create would then be a second call with the form.

`EditsDroppedOnlyByRaces` is about what the lock is worth. Each save replaces the whole
form, so `SaveInv` says of every tab whose edits are in the forms it may still write:
those it stored last itself (`Own`), while it has one call with the form at a time;
those another user's tab stored before it came in (`Others`). Between the two stands
`Entitled`: a tab that shows a campaign, has its lock, or has a write under way that was
checked is the only user's at it, unless it is in `taken`. A write is checked before and
apart from the transaction that does it, so the invariant counts the check as being at
work, and every grant of the lock to another user marks whoever is. The creator of a
campaign is at work on it without ever having been given its lock: it is left out of
`Entitled`, and its writes are what `Others` and the property except. `Evolves` is all
the proof knows of a step of a tab: it closes, stays, was saved, loads an answer, mounts
or restarts, and the calls it sends carry the form it shows. `Stored` is `PersistedIsStored`
with the answers that will become the screen's form.

`MarketPlanProofs`, for any markets, catalogues, numbers of posters, weeks and assets, any
stored campaign the editor can have written, and any number of edits, failures and
superseded calculations:

| Theorem | Statement |
|---|---|
| `PlanTyped` | `PlanSpec => []PlanTypeOK`. No id is used that was not handed out, and what is calculated has one line per id |
| `SummaryIsOfThePlan` | `PlanSpec => []SummaryOfThePlan` |
| `LinesHaveRows` | `PlanSpec => []RowsOfEveryLine` |
| `AddressesAreCurrent` | `PlanSpec => []AddressesCurrent` |
| `OthersAreKept` | `PlanSpec => SavingKeepsTheOthers` |
| `FramesStayWhereTheyAre` | `PlanSpec => FramesOfOneAsset` |
| `MarketCountsAddUp` | `PlanSpec => []CountsKept`: a count set for a whole market is what its lines add up to, in the plan and in the dialog |

`PlanInv` is inductive. Its part `CalcInv` says that a calculation which is due or under way
is one of the plan, or the dialog, on screen: only then is its answer heeded, so the answer
settles what is shown. `DistinctInv` says that ids and names occur once, in the plan and
with the market of the dialog. Without it a saved draft could replace two markets, and
`Quantity`, which looks an id up, could give a row the frames of another asset.
`AddressInv` is `AddressesCurrent` for the time before the list comes, and for the dialog,
which the list does not reach. An action that replaces the plan keeps the invariant when
the ids, names and addresses of the new plan are in order (`CommitKeeps`), one that
replaces the draft likewise (`RedraftKeeps`); what is left for each action is to show that.
Material rows change no line (`WithRows` leaves every poster count alone), so the
calculation that adding them starts ends with the same summary and adds no further row.

`MarketCountsAddUp` rests on `CountsAddUp`, which is about `Distribute` alone
(`distributeBreakdownOverride`). The remainders of a market's divisions add up to the
market's total times what the quotients leave over, so what is left over is less than the
number of lines. The ranks by remainder are the numbers below the number of positions, each
once (`RanksFill`), so exactly as many positions as are left over get one more. None of them
is a position without a line: such a position has no remainder, and there are more positions
with one than there is left over.

`ArtworkAssignmentsProofs`, for any images, formats, assets, stored campaigns, summaries
and number of clicks:

| Theorem | Statement |
|---|---|
| `ArtworkHolds` | `ArtworkSpec => []ArtworkInv`, the inductive invariant |
| `NamedStayListed` | `ArtworkSpec => []NamedImagesAreListed` |
| `FramesStayWithin` | `ArtworkSpec => []FramesWithinTotal` |
| `RecordsStayRows` | `ArtworkSpec => []RecordsAreRows` |
| `FilesStayTogether` | `ArtworkSpec => []FilesOfImages` |
| `UntickedStayGone` | `ArtworkSpec => UntickedIsGone` |
| `NamesStay` | `ArtworkSpec => NamesAreKept` |

What an asset names is spread over three fields of three ages: an image per format, a
single image of older campaigns, and rows. `NamedInv` says beside the property what makes
a deletion safe: the open dialog of rows shows images of the campaign, or `held` ones, and
no asset names the image whose deletion waits for its answer. The latter needs `ModalInv`
(what can be open together, and that the target of a choice is a row the dialog has), as
a click that names an image would break it. `FilesInv` says of the files on the way out
whose they are. The rest are lemmas about the operators: what `Framed` keeps of rows, that
`Frames` adds up what each row has, so that one row's change changes the sum by as much,
and what each way of writing an asset adds to `ImagesOf`. `UntickedStayGone` is about
`Unticked` alone, for an asset in any of the three representations.

`ArtworkUploadsProofs`, for any files from the disk and from OneDrive, any users, and any number
of sessions, pages and failures:

| Theorem | Statement |
|---|---|
| `UploadsHold` | `UploadSpec => []UploadInv`, the inductive invariant |
| `UploadsTyped` | `UploadSpec => []UploadTypeOK` |
| `NoticesAreTrue` | `UploadSpec => []NoticeIsTrue` |

A batch is a counter that many callbacks count down, and `NoticeIsTrue` is about the moment it
reaches zero. `BatchOK` says what it counts: the files of the batch something is still under way
for (`Pending`: the queue and its worker, a loop of `enqueueOneDriveFiles`, a polling loop that
reports to the batch), and those that will never be counted off (`astray`). Of the other files
the batch knows the truth (`Fair`), and keeps knowing it since they are `AtEnd`: what happens to
them afterwards was told as a failure (`unclear`), or nothing does. That a file is counted off
once is what the rest is for: `QueueInv` (a file is in the queue once, and not while the worker
has it), `CreatingInv` (no file is in two loops of `enqueueOneDriveFiles`), `LoopInv` (one polling
loop of a file reports, and none while its creation is under way) and `DisjointInv` (open batches
share no file, so the end of a file changes one of them). `NoticeInv` is `NoticeIsTrue` in the
same words. Most steps leave most of this alone; the lemmas `RestsInv`, `LoopsStay` and
`CreatingStays` say when, and those about `RecordBatchCompletion` what it makes of a batch.

`SettingsScreensProofs`, for any tenants, markets, edits, changes, failures and moves:

| Theorem | Statement |
|---|---|
| `DraftsHold` | `DraftSpec => []DraftInv`, the inductive invariant |
| `StoredStaysOwn` | `DraftSpec => []StoredIsOwn` |
| `EditsStay` | `DraftSpec => EditsAreKept` |
| `RecordsHold` | `RecordSpec => []RecordInv`, the inductive invariant |
| `ListStaysTable` | `RecordSpec => []ListIsTheTable` |

Drafts. `OwnInv` is `StoredIsOwn` on its way: whose rows are read, shown and sent, for every
tenant that is not in `blind`. `EditsAreKept` is about a step, and holds of it because of what
every state before it says of an unsaved edit: it differs from the saved value or was given up
(`ShownInv`), so that no screen that looks saved is left with it; while a load is out it is one
that the property excepts, because a load only starts when nothing is dirty or the user
discarded it; while a save is out it is in a call to come, with the value that is on the screen
(`CostSave`), or the one call of the screen sends a snapshot that differs from it only in what
was typed since (`SnapshotSave`). The calls of a cost screen are built by a recursive function
over the markets; `CallsFit` and `Sends` say of it that each call clears only what it or an
earlier one sends (the rows of a market clear the marks of both its calls), and that all that
is touched is sent. `WrittenInv` says that what comes from the database is known: an answer
leaves no edit unsaved that it did not bring.

Records. A list and its table differ while answers are out, so `FollowsInv` says what the list
will be: `Effect` is what the answer of the save makes of a set of records, by the state of the
call, `Less` what that of the deletion does. A step of the service changes the table and, with
the state of the call, `Effect` or `Less` by as much; an answer changes the list and takes
`Effect` or `Less` away. That both may be out together is `AnswersCommute`, which needs
`NumbersInv`: the id a save hands out is in use nowhere, so no deletion can be of it. It holds
under `Tracked`, that the answers are for the tenant shown, and while no load or import is out;
those put the table into the list, which has each id once because the table has. What the
answers make of lists (`ListWithout`, `Replaced`, `Append`, `SetToSeq`) is said of their sets
by lemmas of their own.

Assumptions: those stated in the modules (`PlanAssumption`, `AddressAssumption`,
`StoredAssumption`, `EditorAssumption`, `ImportAssumption`, `UploadAssumption`,
`ResumableAssumption`, `ArtworkAssumption`, `StoredImagesAssumption`, `DraftAssumption`,
`RecordAssumption` and the five of `PrintIQSubmission`): special values differ from ordinary
ones, the tenant of the session is a tenant, sizes are natural numbers, a plan has a market and a
product, chunks are numbered from 1. `AddressAssumption` says that the preferred addresses and
the replacements of outdated ones are read off one list, so no replacement is itself outdated
(`QBS:1975` and `QBS:2279`, both over `marketDeliveryAddresses`). `StoredAssumption` says that a
stored campaign was written by this editor: its ids and the names of its markets occur once.
`StoredImagesAssumption` says that a stored campaign lists the images its assets name, which
`NamedStayListed` shows this screen to keep up; what the exceptions of `NamedImagesAreListed`
let into the store is not opened again.

Where a proof needs induction (what sums over the assets of a market add up to and are bounded
by, what a list is after each of its records) the property is put as a set of numbers and
`FromZero` says that it contains every number: the library's induction theorems take an
operator, which the provers cannot instantiate, while a set is a value like any other.

Every safety property of a passing run is proved, `ImportsTypeOK`, which joins the types of two
modules, as `ImportTyped` and `UploadsTyped`, and the safety part of `KeepsThePromise` as
`Implements`. Only model-checked is liveness, which is beyond the prover: `RequestsEnd`,
`AcceptedJournalsFinish`, `EditsReachTheStore`, `LeavingEnds`, `BatchesAreAnnounced` and the
liveness of `KeepsThePromise`. `UncertainQuoteNotRecreated` and `TypedIsSaved` are false, see
below.

## Disagreements with the documentation

| Run | Said | What happens |
|---|---|---|
| `doc_uncertain_quote` | uncertain quote creation requires engineering reconciliation, keeping pending prevents duplicate jobs (`docs/printiq-submission-recovery.md:47`); changes while a submission is unfinished are rejected (`:17`) | an edit, or a change of test mode, supersedes the journal, pending quote creation included, and the next Submit creates another quote |
| `doc_typed_is_saved` | campaigns are saved automatically, a refresh continues from the same campaign (`docs/business-user-guide.md:32`) | the answer of the create an autosave sent replaces the form; what was typed meanwhile is gone and never saved |

Seen while modelling, without a run of their own: an upload's first timeout is retried
although `docs/printiq-submission-recovery.md:19` says timeouts are not, and a crash
between two timeouts lets the next Submit count again (`printiq_progress.go:122`); a
campaign edited while its submission runs is marked submitted with inputs that were not
sent; two submissions run at once after the advisory lock's session is lost; reopening
the application restores only active imports where `README.md:64` of the repository
says recent ones too; `fresh=1` stays in the address, so a refresh opens an empty form
(`web/src/App.tsx:51`); an autosave sent before an artwork batch was appended removes it
from the store while the screen counts it as persisted (`QBS:1477`).

## Behaviour the properties name as exceptions

Some properties hold but for a race of the code. The race is then a history variable
or a condition of the property, never left out of the model:

- `CampaignEditor`: `taken` (another user took the lock of a tab that does not know;
  the heartbeat is not installed for campaigns opened by id or just created);
  `overlapped` (a tab's two calls with the form at once); two tabs of one user, who share
  the user's lock; and the first save of the editor that created a campaign. The last
  was found by the proof of `EditsDroppedOnlyByRaces`, with three tabs, beyond the
  bounds of the runs: POST `/api/campaigns` takes no lock, so another user can open the
  new campaign, edit, save and leave it before its creator, who has heard nothing of
  it, saves its own form over it. For the same reason `PersistedIsStored` asks the
  other tabs of a creator to be orderly too. The proof of `ClosedOnPurpose` found that
  a handler that leaves (`c.next`) closes the editor even after the failure of another
  handler had told it to stay, when `leavingCampaignRef` is reset already.
- `MarketPlan`: `kept` (what was in the dialog before the address list came is not
  brought up to date by it, `QBS:2233-2304` look at the saved plan only; and an address that
  the user types, which may be an outdated one of a contact with one saved address, stays
  until the campaign is opened again, and is then replaced without a word).
- `ArtworkAssignments`: `aside` (the rows dialog's copy overwrites a tick made outside
  it), `held` (an image deleted while an empty row of the dialog had it), `broken` (a
  deletion that failed half way; files are deleted before the form is saved); the legacy
  image stays on formats the plan has none of, which `UntickedIsGone` excepts. The
  material dialog pairs images with rows by index (`QBS:2709`).
- `OneDriveImport`: `doubted` (two living workers at one import, as progress, completion,
  failure and clean-up look at neither lease nor status; or a completion whose
  confirmation was lost and whose `fail()` failed). A lost confirmation of the append
  fails the import and deletes files of images that are in the campaign: that is why
  `CompletedHaveFiles` speaks of completed imports only.
- `ArtworkUploads`: `unclear` (an append or creation that succeeded without an answer),
  `astray` (files removed, or restored, that are never counted off their batch). A
  creation in flight at a reload is dropped, a stale list answer drops local jobs,
  another user's import is polled forever.
- `ResumableUpload`: `overlap` (two writes of one chunk at once share the temporary
  file).
- `DraftScreens`: `late` (typed during a load or save, overwritten by its answer),
  `dropped` (the screen that saves one market leaves with the edits of the others),
  `overtaken` (an answer lands in another tenant's drafts), `blind` (saved after a failed
  load, while not the tenant's data was shown).
- `RecordScreens`: `adrift` (a change answered under another tenant, a creation that a
  load had seen, an address edited by an upsert and a failed deletion, one deleted while
  it is saved; a user edited from the list of another tenant, which stayed after a failed
  load: the service moves the user to the tenant selected, and the answer does not add it
  to a list that lacks it. The last was found by the attempt to prove `ListIsTheTable`,
  beyond the bounds of the run, which have been widened to reach it).

## Testing the properties

The operators named `Bug...` are mutated forms of the definition that follows them,
each a mistake a change to the code could make: a pending call sent again, a save left
out, a guard dropped, a loop one page too far, a reset forgotten. Each property is
violated when the definition it watches is replaced by one of them, so no property
holds merely by the shape of its model.

## What is abstracted

- Submission. Payloads, fingerprints and replies are kept as far as the protocol tells
  them apart: `Inputs`, `Builds`, six kinds of reply. A success reply means PrintIQ acted;
  an explicit rejection, other than a message with "timeout", that it did not. A
  reconciling super admin looks at the right job after PrintIQ has settled, and tells the
  truth. `Begin` takes the lock and reads the campaign in one step, `Record` includes the
  read just before its transaction, `Calculate` and `Price` read and write at once. The
  legacy guard is assumed to let the submission through. All markets have the same number
  of calls; the campaign is not deleted meanwhile.
- Editor. A form is its set of edits; a save's answer re-reads the row in the step that
  wrote it. An address with neither id nor `fresh`, the heartbeat, sub-campaigns and the
  automation that exports a read-only campaign are left out.
- Market plan. One sheet format stands for nine; the alternating weeks of maintenance
  assets are not told apart; superseded calculations of the draft are dropped. The
  inline list of assets is dead code, a refused save and the placeholder market cannot
  arise. A submitted form is not modelled.
- Artwork. A click and its React updates are one step; dialogs are modal.
  `assignArtworkToFormatSlot` cannot be reached. Codes written on the artwork and the
  guards of submitted and sub-campaigns are left out.
- Uploads. A poll is one step; timers of notices are left out; a PDF chosen again is
  another file. Chunk retries are 3 in the code and a constant here, 2 in the run. One
  upload id: a 404 begins another upload. The order in which imports were created and the
  work directory workers share are not modelled.
- Settings. A field is a row, or the rows saved together. Opening a screen again, a tab
  closed with unsaved drafts, roles, tenants that leave the list, deletions at once and
  rates edited before any market was loaded are left out.

## Not modelled

- Type B orders (`orders.go`): revisioned drafts, one claim, reference numbers and
  e-mail, a workflow of its own.
- The write-back of `calculateCampaign` (`campaign_store.go:872`) as two steps, and
  the deletion of a campaign during its submission (`:995`): listed as hazards without a
  property.
- Market plans and delivery jobs of the API, the progress summary, the payload
  builders, prices of the calculator: pure functions; the submission takes the plan as a
  constant.
- The legacy guard reads log files of campaigns older than the journal.
- The PrintIQ client with its cached token, password reset, sessions: one row or one
  cached value each.
- Blob storage, database and migrations, routing, other screens, shared packages: I/O,
  formatting, or one request and its answer.
