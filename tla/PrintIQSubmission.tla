------------------------- MODULE PrintIQSubmission -------------------------
(***************************************************************************)
(* The submission of one campaign to PrintIQ: handleSubmitCampaign, the    *)
(* journal that lets an interrupted submission resume, the per-market call *)
(* sequence, the record of each finished market, and what runs beside      *)
(* them: edits, reconciliation, status changes, crashes, disconnects.      *)
(*                                                                         *)
(* A request is a handler with a program counter; between two of its steps *)
(* anything else may happen.  PrintIQ is external: only the number of      *)
(* requests it was sent and the number it acted on are kept.               *)
(***************************************************************************)
EXTENDS Integers

CONSTANTS
  Handlers,    \* submit requests that may be in progress, over all API replicas
  Users,       \* signed-in users of the tenant
  SuperAdmins, \* the users whose role is super_admin
  JournalIDs,  \* identifiers of printiq_submission_progress rows
  Inputs,      \* what the fingerprint hashes: form values and purchase order
  Builds,      \* deployed versions of the payload builders
  None,        \* no owner, no journal, no step
  NMarkets,    \* markets of the plan, one quote each
  Products,    \* sheet products of a market
  Deliveries,  \* delivery jobs of a market
  Uploads,     \* attachments of a market: PO, visuals, artworks
  MaxFaults,   \* bound: faults of the environment
  MaxDrops     \* bound: losses of the connection that holds the advisory lock

ASSUME SuperAdminsAssumption == SuperAdmins \subseteq Users
ASSUME NoneAssumption ==
  None \notin Handlers \cup Users \cup JournalIDs \cup Inputs \cup (Nat \X Nat)
ASSUME PlanAssumption ==
  /\ NMarkets \in Nat \ {0} /\ Products \in Nat \ {0}
  /\ Deliveries \in Nat     /\ Uploads \in Nat
ASSUME ValuesAssumption == Inputs # {} /\ Builds # {}
ASSUME BoundsAssumption == MaxFaults \in Nat /\ MaxDrops \in Nat

-----------------------------------------------------------------------------
(* The calls of a market, in order: CreateQuoteWithDelivery, GetPrice for  *)
(* each further product, GetQuoteQuestions for each product,               *)
(* SaveQuoteQuestions, GetPrice for each delivery job, AcceptQuote, then   *)
(* the uploads.                                                            *)

QuoteSteps == 2 * Products + Deliveries + 2
NSteps     == QuoteSteps + Uploads
Markets    == 1..NMarkets
Keys       == Markets \X (1..NSteps)      \* "market:index" in the journal

IsUpload(k)      == k[2] > QuoteSteps
SaveQuestions(k) == k[2] = 2 * Products + 1
\* GetQuoteQuestions, SaveQuoteQuestions and AcceptQuote price no product.
PricesProduct(k) ==
  k[2] <= Products \/ k[2] \in (2 * Products + 2)..(QuoteSteps - 1)

Attempted == {"pending", "done", "failed", "retryable_timeout"}
Replies   == {"none", "good", "keyless", "unusable", "product", "rejected"}

\* printIQSavedStep; reply abstracts Response and Failure: "keyless" is a quote
\* without its first product's key, "unusable" any other success without what
\* the next call needs, "product" the two messages needsFreshSubmission looks
\* for, "rejected" every other failure.
SavedStep == [state : {"none"} \cup Attempted, payload : Builds, reply : Replies]

\* journal.Steps: only an upload can be waiting for its automatic retry.
JournalSteps ==
  {steps \in [Keys -> SavedStep] :
     \A k \in Keys : steps[k].state = "retryable_timeout" => IsUpload(k)}

\* One row of printiq_submission_progress.
Row == [status     : {"absent", "active", "completed"},
        superseded : BOOLEAN,
        inputs     : Inputs,
        test       : BOOLEAN,
        steps      : JournalSteps,
        cur        : Keys \cup {None},
        recorded   : SUBSET Markets]

VARIABLES
  campaign,  \* row of campaigns: inputs, status, whether a summary is stored
  editLock,  \* owner of the campaign_edit_locks row, if any
  lock,      \* holder of the advisory lock of the campaign
  rows,      \* printiq_submission_progress
  quotes,    \* quotes inserted for a journal and market
  build,     \* the deployed build
  pc,        \* where each handler is
  req,       \* its user and test flag
  seen,      \* the campaign as the handler read it
  mem,       \* its in-memory journal
  pos,       \* its loop position and what it knows of the current call
  gone,      \* the browser has disconnected: r.Context() is cancelled
  sent,      \* requests PrintIQ received for a step
  landed,    \* requests PrintIQ acted on
  timeouts,  \* explicit timeout replies since the last confirmed_missing
  faults,
  drops

local    == <<pc, req, seen, mem, pos, gone>>
external == <<sent, landed, timeouts>>
vars == <<campaign, editLock, lock, rows, quotes, build, local, external,
          faults, drops>>

-----------------------------------------------------------------------------
SetupPCs   == {"editable", "price", "load", "supersede", "create"}
RunningPCs == {"run", "send", "reply", "record"}

NoStep(b) == [state |-> "none", payload |-> b, reply |-> "none"]
EmptyRow ==
  [status |-> "absent", superseded |-> FALSE,
   inputs |-> CHOOSE v \in Inputs : TRUE, test |-> FALSE,
   steps |-> [k \in Keys |-> NoStep(CHOOSE b \in Builds : TRUE)],
   cur |-> None, recorded |-> {}]

NoRequest == [user |-> None, test |-> FALSE]
NotSeen   == [inputs |-> None, status |-> None, priced |-> FALSE]
NoJournal == [id |-> None, steps |-> EmptyRow.steps, cur |-> None]
AtStart   == [m |-> 1, i |-> 1, again |-> FALSE, failed |-> FALSE,
              acted |-> FALSE]

Init ==
  /\ campaign \in [inputs : Inputs, status : {"in_progress"}, priced : BOOLEAN]
  /\ editLock = None
  /\ lock = None
  /\ rows = [id \in JournalIDs |-> EmptyRow]
  /\ quotes = [id \in JournalIDs |-> [m \in Markets |-> 0]]
  /\ build \in Builds
  /\ pc = [h \in Handlers |-> "idle"]
  /\ req = [h \in Handlers |-> NoRequest]
  /\ seen = [h \in Handlers |-> NotSeen]
  /\ mem = [h \in Handlers |-> NoJournal]
  /\ pos = [h \in Handlers |-> AtStart]
  /\ gone = [h \in Handlers |-> FALSE]
  /\ sent = [id \in JournalIDs |-> [k \in Keys |-> 0]]
  /\ landed = [id \in JournalIDs |-> [k \in Keys |-> 0]]
  /\ timeouts = [id \in JournalIDs |-> [k \in Keys |-> 0]]
  /\ faults = 0
  /\ drops = 0

Fault == faults < MaxFaults /\ faults' = faults + 1

Submitted       == campaign.status = "submitted"
CanResubmit(u)  == u \in SuperAdmins
Active(id)      == rows[id].status = "active"
At(h)           == <<pos[h].m, pos[h].i>>
Goto(h, l)      == pc' = [pc EXCEPT ![h] = l]

\* Any return of handleSubmitCampaign: the deferred unlock runs (or the
\* connection is closed, which unlocks too) and the request's memory is gone.
Finish(h) ==
  /\ lock' = IF lock = h THEN None ELSE lock
  /\ Goto(h, "idle")
  /\ req'  = [req EXCEPT ![h] = NoRequest]
  /\ seen' = [seen EXCEPT ![h] = NotSeen]
  /\ mem'  = [mem EXCEPT ![h] = NoJournal]
  /\ pos'  = [pos EXCEPT ![h] = AtStart]
  /\ gone' = [gone EXCEPT ![h] = FALSE]

-----------------------------------------------------------------------------
(* Setting a submission up.                                                *)

\* The lock is tried once; a request that does not get it answers 409 and
\* changes nothing, and so does one for a campaign already submitted.
Begin(h, u, test) ==
  /\ pc[h] = "idle"
  /\ lock = None
  /\ test => u \in SuperAdmins
  /\ Submitted => CanResubmit(u)
  /\ lock' = h
  /\ Goto(h, IF Submitted THEN "price" ELSE "editable")
  /\ req' = [req EXCEPT ![h] = [user |-> u, test |-> test]]
  /\ seen' = [seen EXCEPT ![h] = campaign]
  /\ UNCHANGED <<campaign, editLock, rows, quotes, build, mem, pos, gone,
                 external, faults, drops>>

\* assertCampaignEditable: takes or renews the edit lock, in its own
\* transaction, and looks at the campaign's present status.
AssertEditable(h) ==
  /\ pc[h] = "editable" /\ ~gone[h]
  /\ \/ /\ ~Submitted /\ editLock \in {None, req[h].user}
        /\ editLock' = req[h].user
        /\ Goto(h, "price")
        /\ UNCHANGED <<lock, req, seen, mem, pos, gone>>
     \/ /\ Submitted \/ editLock \notin {None, req[h].user}
        /\ Finish(h)
        /\ UNCHANGED editLock
  /\ UNCHANGED <<campaign, rows, quotes, build, external, faults, drops>>

\* A campaign read without a summary is calculated; unless it was submitted,
\* the summary is stored and the campaign read again.
Price(h) ==
  /\ pc[h] = "price" /\ ~gone[h]
  /\ \/ /\ seen[h].priced \/ seen[h].status = "submitted"
        /\ Goto(h, "load")
        /\ UNCHANGED <<campaign, lock, req, seen, mem, pos, gone>>
     \/ /\ ~seen[h].priced /\ seen[h].status # "submitted" /\ ~Submitted
        /\ campaign' = [campaign EXCEPT !.priced = TRUE]
        /\ seen' = [seen EXCEPT ![h].inputs = campaign.inputs,
                                ![h].priced = TRUE]
        /\ Goto(h, "load")
        /\ UNCHANGED <<lock, req, mem, pos, gone>>
     \/ /\ ~seen[h].priced /\ seen[h].status # "submitted" /\ Submitted
        /\ Finish(h)
        /\ UNCHANGED campaign
  /\ UNCHANGED <<editLock, rows, quotes, build, external, faults, drops>>

NeedsFreshSubmission(row, inputs, test) ==
  \/ row.inputs # inputs
  \/ row.test # test
  \/ /\ row.cur # None
     /\ row.steps[row.cur].state = "failed"
     /\ row.steps[row.cur].reply = "product"

\* loadPrintIQJournal and the choice between resuming, restarting and
\* starting.
LoadJournal(h) ==
  /\ pc[h] = "load" /\ ~gone[h]
  /\ \/ \E id \in JournalIDs :
          /\ Active(id)
          /\ IF NeedsFreshSubmission(rows[id], seen[h].inputs, req[h].test)
               THEN /\ Goto(h, "supersede")
                    /\ mem' = [mem EXCEPT ![h].id = id]
               ELSE /\ Goto(h, "run")
                    /\ mem' = [mem EXCEPT ![h] = [id    |-> id,
                                                  steps |-> rows[id].steps,
                                                  cur   |-> rows[id].cur]]
     \/ /\ \A id \in JournalIDs : ~Active(id)
        /\ Goto(h, "create")
        /\ UNCHANGED mem
  /\ UNCHANGED <<campaign, editLock, lock, rows, quotes, build, req, seen,
                 pos, gone, external, faults, drops>>

\* UPDATE ... SET completed=true, Superseded; its error may be an answer
\* lost after the commit.
Supersede(h) ==
  /\ pc[h] = "supersede" /\ ~gone[h]
  /\ rows' = IF Active(mem[h].id)
               THEN [rows EXCEPT ![mem[h].id].status = "completed",
                                 ![mem[h].id].superseded = TRUE]
               ELSE rows
  /\ \/ /\ Goto(h, "create")
        /\ mem' = [mem EXCEPT ![h] = NoJournal]
        /\ UNCHANGED <<lock, req, seen, pos, gone, faults>>
     \/ Fault /\ Finish(h)
  /\ UNCHANGED <<campaign, editLock, quotes, build, external, drops>>

\* createPrintIQJournal: one unfinished row per campaign (unique index).
CreateJournal(h) ==
  /\ pc[h] = "create" /\ ~gone[h]
  /\ \/ \E id \in JournalIDs :
          /\ \A other \in JournalIDs : ~Active(other)
          /\ rows[id].status = "absent"
          /\ rows' = [rows EXCEPT ![id] = [EmptyRow EXCEPT
                        !.status = "active", !.inputs = seen[h].inputs,
                        !.test = req[h].test]]
          /\ \/ /\ mem' = [mem EXCEPT ![h] = [NoJournal EXCEPT !.id = id]]
                /\ Goto(h, "run")
                /\ UNCHANGED <<lock, req, seen, pos, gone, faults>>
             \/ Fault /\ Finish(h)
     \/ /\ \/ \E other \in JournalIDs : Active(other)
           \/ \A id \in JournalIDs : rows[id].status # "absent"
        /\ Finish(h)
        /\ UNCHANGED <<rows, faults>>
  /\ UNCHANGED <<campaign, editLock, quotes, build, external, drops>>

\* A read or write under r.Context() fails, or a plan, file or mapping
\* cannot be built: the handler answers and nothing was changed.
SetupFails(h) ==
  /\ pc[h] \in SetupPCs
  /\ \/ gone[h] /\ UNCHANGED faults
     \/ ~gone[h] /\ Fault
  /\ Finish(h)
  /\ UNCHANGED <<campaign, editLock, rows, quotes, build, external, drops>>

-----------------------------------------------------------------------------
(* Running the calls of a market through the journal.                      *)

\* The whole journal as the handler has it, over the row; the Superseded mark
\* is no field of a journal and does not survive.
Written(m) == [rows EXCEPT ![m.id].steps = m.steps, ![m.id].cur = m.cur,
                           ![m.id].superseded = FALSE]

\* journal.save: UPDATE ... WHERE NOT completed, in a context of its own.
SaveSucceeds(m) == Active(m.id) /\ rows' = Written(m)

\* It fails when no unfinished row is left, when the database is not
\* reached, or when the answer to a committed write is lost.
SaveFails(m) ==
  \/ ~Active(m.id) /\ UNCHANGED <<rows, faults>>
  \/ Active(m.id) /\ Fault /\ rows' \in {rows, Written(m)}

\* Bugs of Proceed: a failed quote step is skipped; a failed upload is not left.
BugSkipsFailedQuote(h, m, ok) ==
  LET last == pos[h].i = NSteps
  IN IF ~ok /\ last
       THEN Finish(h)
       ELSE /\ Goto(h, IF last THEN "record" ELSE "run")
            /\ mem' = [mem EXCEPT ![h] = m]
            /\ pos' = [pos EXCEPT ![h] = [AtStart EXCEPT !.m = pos[h].m,
                         !.i = IF last THEN pos[h].i ELSE pos[h].i + 1]]
            /\ UNCHANGED <<lock, req, seen, gone>>

BugStaysAtFailedUpload(h, m, ok) ==
  LET last == pos[h].i = NSteps
  IN IF ~ok /\ ~IsUpload(At(h))
       THEN Finish(h)
       ELSE /\ Goto(h, IF last /\ ok THEN "record" ELSE "run")
            /\ mem' = [mem EXCEPT ![h] = m]
            /\ pos' = [pos EXCEPT ![h] = [AtStart EXCEPT !.m = pos[h].m,
                         !.i = IF last \/ ~ok THEN pos[h].i ELSE pos[h].i + 1]]
            /\ UNCHANGED <<lock, req, seen, gone>>

\* The answers a market's sequence goes on with.
Usable == {"good", "keyless"}

\* What the market's sequence does with the outcome of the call at At(h): a
\* failed quote step returns, and so does a quote without its first key once
\* every product is priced; a failed upload is remembered, and reported once
\* every other upload of the market was tried.
Proceed(h, m, ok) ==
  LET failed == pos[h].failed \/ ~ok
      last   == pos[h].i = NSteps
      stop   == \/ ~ok /\ ~IsUpload(At(h))
                \/ /\ pos[h].i = Products
                   /\ m.steps[<<pos[h].m, 1>>].reply = "keyless"
                \/ last /\ failed
  IN \/ /\ stop
        /\ Finish(h)
     \/ /\ ~stop
        /\ Goto(h, IF last THEN "record" ELSE "run")
        /\ mem' = [mem EXCEPT ![h] = m]
        /\ pos' = [pos EXCEPT ![h] = [m |-> @.m,
                                      i |-> IF last THEN @.i ELSE @.i + 1,
                                      again |-> FALSE, failed |-> failed,
                                      acted |-> FALSE]]
        /\ UNCHANGED <<lock, req, seen, gone>>

\* Bug: a replayed success is not checked for what the next call needs.
BugReplaysUnusable(h) ==
  LET step == mem[h].steps[At(h)]
  IN /\ pc[h] = "run" /\ step.state # "none"
     /\ \/ step.state = "done" /\ Proceed(h, mem[h], TRUE)
        \/ /\ step.state = "pending" \/ (step.state = "failed" /\ ~IsUpload(At(h)))
           /\ Proceed(h, mem[h], FALSE)
     /\ UNCHANGED <<campaign, editLock, rows, quotes, build, external, faults,
                    drops>>

\* runOnce answers from the journal: a saved success is replayed, and used
\* if it carries what the next call needs; an uncertain call, a failed quote
\* step and a changed payload are refused.
AnswerFromJournal(h) ==
  LET step == mem[h].steps[At(h)]
  IN /\ pc[h] = "run"
     /\ step.state # "none"
     /\ \/ /\ step.payload = build /\ step.state = "done"
           /\ Proceed(h, mem[h], step.reply \in Usable)
        \/ /\ \/ step.payload # build
              \/ step.state = "pending"
              \/ step.state # "done" /\ ~IsUpload(At(h))
           /\ Proceed(h, mem[h], FALSE)
     /\ UNCHANGED <<campaign, editLock, rows, quotes, build, external, faults,
                    drops>>

\* Bugs of MustCall: a call left pending, or failed, is sent again.
BugResendsPending(h) == mem[h].steps[At(h)].state \in {"none", "pending"}
BugResendsFailed(h)  == mem[h].steps[At(h)].state \in {"none", "failed"}

MustCall(h) ==
  LET step == mem[h].steps[At(h)]
  IN \/ step.state = "none"
     \/ /\ IsUpload(At(h))
        /\ step.payload = build
        /\ step.state \in {"failed", "retryable_timeout"}

\* Bug: the attempt is saved, its state is not.
BugMarksNothing(m, k) == [m EXCEPT !.cur = k]

\* A journal in which the call at k is about to be sent.
Marked(m, k) ==
  [m EXCEPT !.steps[k] = [state |-> "pending", payload |-> build,
                          reply |-> "none"],
            !.cur = k]

\* The attempt is saved as pending before it is sent.  Uploads wait first,
\* and the wait ends when the browser is gone.
MarkPending(h) ==
  LET m == Marked(mem[h], At(h))
  IN /\ pc[h] = "run" /\ MustCall(h)
     /\ \/ /\ IsUpload(At(h)) /\ gone[h]
           /\ Proceed(h, mem[h], FALSE)
           /\ UNCHANGED <<rows, faults>>
        \/ /\ ~(IsUpload(At(h)) /\ gone[h])
           /\ SaveSucceeds(m)
           /\ Goto(h, "send")
           /\ mem' = [mem EXCEPT ![h] = m]
           /\ UNCHANGED <<lock, req, seen, pos, gone, faults>>
        \/ /\ ~(IsUpload(At(h)) /\ gone[h])
           /\ SaveFails(m)
           /\ Proceed(h, m, FALSE)
     /\ UNCHANGED <<campaign, editLock, quotes, build, external, drops>>

\* The save of AutoRetry, before the one automatic retry, fails.
RetrySaveFails(h) ==
  /\ pc[h] = "run" /\ pos[h].again
  /\ SaveFails(mem[h])
  /\ Proceed(h, mem[h], FALSE)
  /\ UNCHANGED <<campaign, editLock, quotes, build, external, drops>>

\* call(): PrintIQ receives the request and acts on it, or does not.
Send(h) ==
  /\ pc[h] = "send"
  /\ Goto(h, "reply")
  /\ sent' = [sent EXCEPT ![mem[h].id][At(h)] = @ + 1]
  /\ \/ /\ landed' = [landed EXCEPT ![mem[h].id][At(h)] = @ + 1]
        /\ pos' = [pos EXCEPT ![h].acted = TRUE]
        /\ UNCHANGED faults
     \/ Fault /\ UNCHANGED <<landed, pos>>
  /\ UNCHANGED <<campaign, editLock, lock, rows, quotes, build, req, seen, mem,
                 gone, timeouts, drops>>

\* What can come back for the call at k: a success only if PrintIQ acted, an
\* explicit rejection only if it did not; a message with "timeout" and a
\* transport or HTTP failure tell nothing.
Outcomes(k, acted) ==
  {"timeout", "lost"}
  \cup (IF acted THEN {"good"} ELSE {"rejected"})
  \cup (IF acted /\ ~IsUpload(k) /\ ~SaveQuestions(k) THEN {"unusable"} ELSE {})
  \cup (IF acted /\ k[2] = 1 THEN {"keyless"} ELSE {})
  \cup (IF ~acted /\ PricesProduct(k) THEN {"product"} ELSE {})

\* Bugs of StateAfter: every timeout is retryable; a call whose reply is lost
\* has failed.
BugAnyTimeoutRetryable(k, outcome, again) ==
  CASE outcome \in Usable \cup {"unusable"} -> "done"
    [] outcome \in {"product", "rejected"} -> "failed"
    [] outcome = "timeout"                 -> "retryable_timeout"
    [] OTHER -> "pending"

BugLostIsFailed(k, outcome, again) ==
  CASE outcome \in Usable \cup {"unusable"} -> "done"
    [] outcome \in {"product", "rejected", "lost"} -> "failed"
    [] OTHER -> "pending"

\* runOnce's classification of the outcome.
StateAfter(k, outcome, again) ==
  CASE outcome \in Usable \cup {"unusable"} -> "done"
    [] outcome \in {"product", "rejected"} -> "failed"
    [] outcome = "timeout" /\ IsUpload(k) /\ ~again -> "retryable_timeout"
    [] OTHER -> "pending"

ReplyAfter(state, outcome) ==
  CASE state = "pending"           -> "none"
    [] state = "retryable_timeout" -> "rejected"
    [] OTHER                       -> outcome

\* A journal in which the call at k has this state and reply.
Answered(m, k, state, reply) ==
  [m EXCEPT !.steps[k].state = state, !.steps[k].reply = reply]

\* The reply (or its absence) is classified and saved.  An upload that
\* failed for the first time in this request, explicitly and with that fact
\* saved, is tried once more.
Reply(h) ==
  /\ pc[h] = "reply"
  /\ \E outcome \in Outcomes(At(h), pos[h].acted) :
       LET k     == At(h)
           state == StateAfter(k, outcome, pos[h].again)
           m     == Answered(mem[h], k, state, ReplyAfter(state, outcome))
           lost  == Answered(mem[h], k, "pending", "none")
           retry == /\ IsUpload(k) /\ ~pos[h].again
                    /\ state \in {"failed", "retryable_timeout"}
       IN /\ timeouts' = IF outcome = "timeout"
                           THEN [timeouts EXCEPT ![mem[h].id][k] = @ + 1]
                           ELSE timeouts
          /\ \/ /\ SaveSucceeds(m)
                /\ IF pos[h].acted /\ outcome # "good"
                     THEN Fault ELSE UNCHANGED faults
                /\ \/ ~retry /\ Proceed(h, m, outcome \in Usable)
                   \/ /\ retry
                      /\ Goto(h, "run")
                      /\ mem' = [mem EXCEPT ![h] = m]
                      /\ pos' = [pos EXCEPT ![h].again = TRUE,
                                            ![h].acted = FALSE]
                      /\ UNCHANGED <<lock, req, seen, gone>>
             \/ /\ SaveFails(m)
                /\ Proceed(h, lost, FALSE)
  /\ UNCHANGED <<campaign, editLock, quotes, build, sent, landed, drops>>

-----------------------------------------------------------------------------
(* Recording a finished market: recordSubmission.                          *)

\* Bugs of RecordCommits: a recorded market is recorded again; the journal is
\* closed before its last market; a test submits the campaign.
BugRecordsAgain(h) ==
  LET id == mem[h].id
      m  == pos[h].m
  IN /\ rows' = [rows EXCEPT ![id].recorded = @ \cup {m},
                  ![id].status = IF m = NMarkets THEN "completed" ELSE "active"]
     /\ quotes' = [quotes EXCEPT ![id][m] = @ + 1]
     /\ UNCHANGED campaign

BugClosesEarly(h) ==
  LET id == mem[h].id
      m  == pos[h].m
  IN IF m \in rows[id].recorded
       THEN UNCHANGED <<rows, quotes, campaign>>
       ELSE /\ rows' = [rows EXCEPT ![id].recorded = @ \cup {m},
                                    ![id].status = "completed"]
            /\ quotes' = [quotes EXCEPT ![id][m] = @ + 1]
            /\ UNCHANGED campaign

BugTestSubmits(h) ==
  LET id   == mem[h].id
      m    == pos[h].m
      last == m = NMarkets
  IN IF m \in rows[id].recorded
       THEN UNCHANGED <<rows, quotes, campaign>>
       ELSE /\ rows' = [rows EXCEPT ![id].recorded = @ \cup {m},
                 ![id].status = IF last THEN "completed" ELSE "active"]
            /\ quotes' = [quotes EXCEPT ![id][m] = @ + 1]
            /\ campaign' = IF last THEN [campaign EXCEPT !.status = "submitted"]
                           ELSE campaign

\* One transaction: the market is recorded once, its quote inserted, the
\* journal closed with the last market, and the campaign submitted with it
\* unless this is a test.
RecordCommits(h) ==
  LET id   == mem[h].id
      m    == pos[h].m
      last == m = NMarkets
  IN IF m \in rows[id].recorded
       THEN UNCHANGED <<rows, quotes, campaign>>
       ELSE /\ rows' = [rows EXCEPT
                 ![id].recorded = @ \cup {m},
                 ![id].status   = IF last THEN "completed" ELSE "active"]
            /\ quotes' = [quotes EXCEPT ![id][m] = @ + 1]
            /\ campaign' = IF last /\ ~req[h].test
                             THEN [campaign EXCEPT !.status = "submitted"]
                             ELSE campaign

\* The transaction is refused for a cancelled request, a campaign someone else
\* got submitted, and a row it would reopen beside another unfinished one.
MayRecord(h) ==
  LET id == mem[h].id
  IN /\ ~gone[h]
     /\ Submitted => CanResubmit(req[h].user)
     /\ \/ pos[h].m = NMarkets \/ pos[h].m \in rows[id].recorded
        \/ \A other \in JournalIDs \ {id} : ~Active(other)

Record(h) ==
  /\ pc[h] = "record"
  /\ \/ /\ MayRecord(h)
        /\ RecordCommits(h)
        /\ \/ /\ pos[h].m = NMarkets
              /\ Finish(h)
           \/ /\ pos[h].m < NMarkets
              /\ Goto(h, "run")
              /\ pos' = [pos EXCEPT ![h] = [AtStart EXCEPT !.m = pos[h].m + 1]]
              /\ UNCHANGED <<lock, req, seen, mem, gone>>
        /\ UNCHANGED faults
     \/ /\ MayRecord(h)                    \* an answer lost after the commit
        /\ Fault /\ RecordCommits(h)
        /\ Finish(h)
     \/ /\ \/ ~MayRecord(h) /\ UNCHANGED faults
           \/ MayRecord(h) /\ Fault
        /\ Finish(h)
        /\ UNCHANGED <<rows, quotes, campaign>>
  /\ UNCHANGED <<editLock, build, external, drops>>

-----------------------------------------------------------------------------
(* What happens beside a submission.                                       *)

\* updateCampaign clears the summary, setPurchaseOrder keeps it; both take
\* the edit lock and refuse a submitted campaign.
Edit(u, inputs, keepsSummary) ==
  /\ ~Submitted
  /\ editLock \in {None, u}
  /\ editLock' = u
  /\ campaign' = [campaign EXCEPT !.inputs = inputs,
                                  !.priced = @ /\ keepsSummary]
  /\ UNCHANGED <<lock, rows, quotes, build, local, external, faults, drops>>

\* appendCampaignPrintImages and appendCampaignSupportingDocuments, for a
\* browser or the OneDrive import: no edit lock is asked for.
Append(inputs) ==
  /\ ~Submitted
  /\ campaign' = [campaign EXCEPT !.inputs = inputs]
  /\ UNCHANGED <<editLock, lock, rows, quotes, build, local, external, faults,
                 drops>>

\* handleCalculateCampaign stores a summary.
Calculate(u) ==
  /\ ~Submitted
  /\ editLock \in {None, u}
  /\ editLock' = u
  /\ campaign' = [campaign EXCEPT !.priced = TRUE]
  /\ UNCHANGED <<lock, rows, quotes, build, local, external, faults, drops>>

\* The edit lock is released, or two minutes pass without a renewal.
EditLockEnds ==
  /\ editLock # None
  /\ editLock' = None
  /\ UNCHANGED <<campaign, lock, rows, quotes, build, local, external, faults,
                 drops>>

\* markCampaignSubmitted looks at nothing; resetCampaignStatus is for super
\* admins and submitted campaigns.  Neither asks for a lock.
MarkSubmitted ==
  /\ campaign' = [campaign EXCEPT !.status = "submitted"]
  /\ UNCHANGED <<editLock, lock, rows, quotes, build, local, external, faults,
                 drops>>

ResetStatus ==
  /\ SuperAdmins # {} /\ Submitted
  /\ campaign' = [campaign EXCEPT !.status = "in_progress"]
  /\ UNCHANGED <<editLock, lock, rows, quotes, build, local, external, faults,
                 drops>>

\* What a super admin may settle: an upload whose outcome is uncertain or a
\* failure.  Bug: only one that failed.
BugOnlyFailed(step) == step.state = "failed"
Unsettled(step)     == step.state \in {"pending", "failed"}

\* The row once a super admin has settled the upload k.
Resolved(row, k, state, reply) ==
  [row EXCEPT !.steps[k].state = state, !.steps[k].reply = reply,
              !.superseded = FALSE]

\* resolveUpload, by a super admin who looked at the job in PrintIQ; the
\* endpoint needs the submission's advisory lock for its transaction.
Reconcile(id, k) ==
  /\ SuperAdmins # {} /\ lock = None
  /\ Active(id) /\ IsUpload(k)
  /\ Unsettled(rows[id].steps[k])
  /\ \/ /\ landed[id][k] > 0                            \* confirmed_uploaded
        /\ rows' = [rows EXCEPT ![id] = Resolved(@, k, "done", "good")]
        /\ UNCHANGED timeouts
     \/ /\ landed[id][k] = 0                            \* confirmed_missing
        /\ rows' = [rows EXCEPT ![id] = Resolved(@, k, "failed", "rejected")]
        /\ timeouts' = [timeouts EXCEPT ![id][k] = 0]
  /\ UNCHANGED <<campaign, editLock, lock, quotes, build, local, sent, landed,
                 faults, drops>>

Disconnect(h) ==
  /\ pc[h] # "idle" /\ ~gone[h] /\ Fault
  /\ gone' = [gone EXCEPT ![h] = TRUE]
  /\ UNCHANGED <<campaign, editLock, lock, rows, quotes, build, pc, req, seen,
                 mem, pos, external, drops>>

\* The API process dies; Postgres frees what its connections held.
Crash(h) ==
  /\ pc[h] # "idle" /\ Fault
  /\ Finish(h)
  /\ UNCHANGED <<campaign, editLock, rows, quotes, build, external, drops>>

\* The idle connection holding the advisory lock is lost while the handler,
\* which never looks at it again before it returns, goes on.
DropLock(h) ==
  /\ lock = h /\ drops < MaxDrops
  /\ lock' = None
  /\ drops' = drops + 1
  /\ UNCHANGED <<campaign, editLock, rows, quotes, build, local, external,
                 faults>>

\* Another build of the API is deployed while no request runs.
Deploy ==
  /\ \A h \in Handlers : pc[h] = "idle"
  /\ \E b \in Builds \ {build} : build' = b
  /\ UNCHANGED <<campaign, editLock, lock, rows, quotes, local, external,
                 faults, drops>>

-----------------------------------------------------------------------------
Advance(h) ==
  \/ AssertEditable(h) \/ Price(h) \/ LoadJournal(h) \/ Supersede(h)
  \/ CreateJournal(h) \/ SetupFails(h)
  \/ AnswerFromJournal(h) \/ MarkPending(h) \/ RetrySaveFails(h)
  \/ Send(h) \/ Reply(h) \/ Record(h)

Beside ==
  \/ \E u \in Users, v \in Inputs, keeps \in BOOLEAN : Edit(u, v, keeps)
  \/ \E v \in Inputs : Append(v)
  \/ \E u \in Users : Calculate(u)
  \/ EditLockEnds \/ MarkSubmitted \/ ResetStatus
  \/ \E id \in JournalIDs, k \in Keys : Reconcile(id, k)
  \/ \E h \in Handlers : Disconnect(h) \/ Crash(h) \/ DropLock(h)
  \/ Deploy

Next ==
  \/ \E h \in Handlers, u \in Users, test \in BOOLEAN : Begin(h, u, test)
  \/ \E h \in Handlers : Advance(h)
  \/ Beside

Spec == Init /\ [][Next]_vars

\* A handler keeps going: every call it makes has a time limit (60 s for
\* PrintIQ, 10 s for a save, 1 s and 30 s waits).
HandlersRun == \A h \in Handlers : WF_vars(Advance(h))

\* Someone keeps pressing Submit, a super admin keeps reconciling, and nobody
\* changes the campaign's status by hand forever.
PeopleKeepTrying ==
  /\ \A h \in Handlers, u \in SuperAdmins : SF_vars(Begin(h, u, FALSE))
  /\ \A id \in JournalIDs, k \in Keys : SF_vars(Reconcile(id, k))
  /\ <>[][campaign'.status # campaign.status => rows' # rows]_vars

FairSpec       == Spec /\ HandlersRun
PersistentSpec == FairSpec /\ PeopleKeepTrying

-----------------------------------------------------------------------------
(* Properties.                                                             *)

\* Every variable keeps its type; in the database and in every request's
\* memory, retryable_timeout is a state of uploads only.
DatabaseOK ==
  /\ campaign \in [inputs : Inputs, status : {"in_progress", "submitted"},
                   priced : BOOLEAN]
  /\ editLock \in Users \cup {None}
  /\ lock \in Handlers \cup {None}
  /\ rows \in [JournalIDs -> Row]
  /\ quotes \in [JournalIDs -> [Markets -> Nat]]

Memory  == [id : JournalIDs \cup {None}, steps : JournalSteps,
            cur : Keys \cup {None}]
LoopPos == [m : Markets, i : 1..NSteps, again : BOOLEAN, failed : BOOLEAN,
            acted : BOOLEAN]

RequestsOK ==
  /\ pc \in [Handlers -> {"idle"} \cup SetupPCs \cup RunningPCs]
  /\ req \in [Handlers -> [user : Users \cup {None}, test : BOOLEAN]]
  /\ seen \in [Handlers -> [inputs : Inputs \cup {None},
                            status : {"in_progress", "submitted", None},
                            priced : BOOLEAN]]
  /\ mem \in [Handlers -> Memory]
  /\ pos \in [Handlers -> LoopPos]
  /\ gone \in [Handlers -> BOOLEAN]
  /\ \A h \in Handlers :
       /\ pc[h] # "idle" => req[h].user # None /\ seen[h].inputs # None
       /\ pc[h] \in RunningPCs \cup {"supersede"} => mem[h].id # None

ExternalOK ==
  /\ build \in Builds
  /\ sent \in [JournalIDs -> [Keys -> Nat]]
  /\ landed \in [JournalIDs -> [Keys -> Nat]]
  /\ timeouts \in [JournalIDs -> [Keys -> Nat]]
  /\ faults \in Nat
  /\ drops \in Nat

TypeOK == DatabaseOK /\ RequestsOK /\ ExternalOK

\* No crash, retry, lost answer, second request or resume makes FlowIQ send
\* a quote, pricing, question or acceptance call of a journal twice.
QuoteStepsSentOnce ==
  \A id \in JournalIDs, k \in Keys : ~IsUpload(k) => sent[id][k] <= 1

\* Whenever PrintIQ receives a request, the database already says that its
\* outcome is unknown: a process dying at any point later is noticed.
WriteAhead ==
  [][\A id \in JournalIDs, k \in Keys :
       sent'[id][k] # sent[id][k] => rows[id].steps[k].state = "pending"]_vars

\* What the journal knows of a quote step is final: no stale copy of the
\* journal, written back whole, undoes it.
QuoteStepsFinal ==
  [][\A id \in JournalIDs, k \in Keys :
       ~IsUpload(k) /\ rows[id].steps[k].state \in {"done", "failed"}
         => rows'[id].steps[k] = rows[id].steps[k]]_vars

\* A recorded market is finished: all its calls, attachments included,
\* succeeded with usable answers, and PrintIQ acted on each.
RecordedIsFinished ==
  \A id \in JournalIDs : \A m \in rows[id].recorded : \A i \in 1..NSteps :
    /\ rows[id].steps[<<m, i>>].state = "done"
    /\ rows[id].steps[<<m, i>>].reply = "good"
    /\ landed[id][<<m, i>>] > 0

\* Each market of a journal gets one quote in FlowIQ's database, whatever
\* retries and lost commits happened.
OneQuotePerRecordedMarket ==
  \A id \in JournalIDs, m \in Markets :
    quotes[id][m] = IF m \in rows[id].recorded THEN 1 ELSE 0

\* A journal closed without being superseded covers every market.
CompletedCoversAllMarkets ==
  \A id \in JournalIDs :
    rows[id].status = "completed" /\ ~rows[id].superseded
      => rows[id].recorded = Markets

\* An attachment is on its job more than once only if PrintIQ answered an
\* attempt with an explicit timeout, and once per such answer.
DuplicatesOnlyAfterTimeouts ==
  \A id \in JournalIDs, k \in Keys : landed[id][k] <= 1 + timeouts[id][k]

\* A submission submits the campaign only with the last market of a journal
\* that is no test and has every market recorded.
SubmitsOnlyRealWholeRuns ==
  [][campaign.status # "submitted" /\ campaign'.status = "submitted"
       /\ rows' # rows
     => \E id \in JournalIDs :
          /\ rows'[id] # rows[id] /\ ~rows[id].test
          /\ rows'[id].status = "completed" /\ rows'[id].recorded = Markets]_vars

\* Every submit request is answered and gives the lock back: the retry of an
\* upload cannot go round forever within one request.
RequestsEnd == \A h \in Handlers : pc[h] # "idle" ~> pc[h] = "idle"

\* Once every quote and job of a journal exists, whatever happens to its
\* attachments, submitting again and reconciling finish it: no state of an
\* upload is one that neither Submit nor a super admin can get out of.
AcceptedJournalsFinish ==
  \A id \in JournalIDs :
    (/\ Active(id)
     /\ \A k \in Keys : ~IsUpload(k) => /\ rows[id].steps[k].state = "done"
                                       /\ rows[id].steps[k].reply = "good")
      ~> rows[id].status = "completed"

-----------------------------------------------------------------------------
(* Why it holds while the lock's connection does (MaxDrops = 0).           *)

\* The advisory lock lets one request at a time past Begin.
OneRequest == \A h \in Handlers : pc[h] # "idle" => lock = h

\* A call that was sent has left its mark in the row.
SentIsSaved ==
  \A id \in JournalIDs, k \in Keys :
    sent[id][k] > 0 => rows[id].steps[k].state # "none"

\* A row not yet inserted has no marks.
AbsentIsBlank ==
  \A id \in JournalIDs, k \in Keys :
    rows[id].status = "absent" => rows[id].steps[k].state = "none"

\* A request knows every call that left a mark.
MemoryKnows ==
  \A h \in Handlers, k \in Keys :
    pc[h] \in RunningPCs /\ rows[mem[h].id].steps[k].state # "none"
      => mem[h].steps[k].state # "none"

\* A request whose save of a quote step failed does not go on: those that run
\* have the row's own quote steps in memory.
QuoteStepsAgree ==
  \A h \in Handlers, k \in Keys :
    pc[h] \in RunningPCs /\ ~IsUpload(k)
      => mem[h].steps[k] = rows[mem[h].id].steps[k]

\* A call in flight is pending in the row, and a quote step about to be sent
\* was not sent before.
InFlightIsPending ==
  \A h \in Handlers :
    pc[h] \in {"send", "reply"} => rows[mem[h].id].steps[At(h)].state = "pending"

FirstSend ==
  \A h \in Handlers :
    pc[h] = "send" /\ ~IsUpload(At(h)) => sent[mem[h].id][At(h)] = 0

\* The journal and the calls are in step.  Inductive, and what the proofs of
\* QuoteStepsSentOnce, WriteAhead and QuoteStepsFinal rest on.
CallsMarked ==
  /\ SentIsSaved /\ AbsentIsBlank /\ MemoryKnows /\ QuoteStepsAgree
  /\ InFlightIsPending /\ FirstSend /\ QuoteStepsSentOnce

JournalInStep == TypeOK /\ OneRequest /\ CallsMarked

-----------------------------------------------------------------------------
(* What docs/printiq-submission-recovery.md says, and the code does not do. *)

\* "Keeping a pending state intentionally prevents duplicate jobs": while a
\* quote creation of a market is uncertain, no other one is sent.
UncertainQuoteNotRecreated ==
  \A a, b \in JournalIDs, m \in Markets :
    /\ a # b
    /\ rows[a].superseded
    /\ rows[a].steps[<<m, 1>>].state = "pending"
    /\ sent[a][<<m, 1>>] > 0
    => sent[b][<<m, 1>>] = 0

=============================================================================
