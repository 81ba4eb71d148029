--------------------------- MODULE CampaignEditor ---------------------------
(***************************************************************************)
(* The campaign editor of the browser (QuoteBuilderScreen) together with   *)
(* the handlers of the API it calls: the edit lock, the autosave, the      *)
(* explicit saves, the submission, the artwork that is appended to the     *)
(* campaign while it is being edited, leaving and refreshing the page.     *)
(*                                                                         *)
(* Every fetch is a call with a life of its own: sent, (lock checked,)     *)
(* answered, handled.  A tab may have several calls under way, they reach  *)
(* the server in any order, and a call outlives the editor that sent it.   *)
(*                                                                         *)
(* The form is reduced to what is told apart: the edits it contains, each  *)
(* a token <<tab, n>> typed in that tab, and the artwork it lists.         *)
(***************************************************************************)
EXTENDS Naturals, FiniteSets

CONSTANTS
  Tabs,        \* browser tabs
  Users,       \* signed-in users of the tenant
  UserOf,      \* the user of each tab
  Ids,         \* campaign ids the database may hand out
  Existing,    \* the campaigns that exist at the start
  NoId,        \* campaignId === null
  Nobody,      \* no row in campaign_edit_locks; no tab yet
  Art,         \* the PDFs of one artwork batch
  AdminTabs,   \* tabs of a super admin: the app shell loads the tenant list after mounting
  Handlers,    \* the explicit handlers used: a subset of {"submit", "po", "docs", "art"}
  PastDates,   \* the answers "a date is in the past" may take: a subset of BOOLEAN
  MaxTyped,    \* bound: edits typed per tab
  MaxCalls,    \* bound: calls of one tab under way
  MaxMounts,   \* bound: editors opened per tab
  MaxFaults    \* bound: calls that fail on the network

ASSUME EditorAssumption ==
  /\ UserOf \in [Tabs -> Users]
  /\ NoId \notin Ids /\ Nobody \notin Users /\ Nobody \notin Tabs
  /\ Existing \subseteq Ids /\ AdminTabs \subseteq Tabs
  /\ Handlers \subseteq {"submit", "po", "docs", "art"}
  /\ PastDates \subseteq BOOLEAN /\ PastDates # {}
  /\ {MaxTyped, MaxCalls, MaxMounts, MaxFaults} \subseteq Nat

VARIABLES
  store,      \* campaigns: status, form_data; who created the row and who wrote it last
  lock,       \* campaign_edit_locks: the owner of each campaign's lock
  tab,        \* the editor mounted in each tab: its React state and refs
  calls,      \* the calls under way
  art,        \* the upload queue of the batch: where each PDF stands, and for which campaign
  faults,     \* network failures so far
  taken,      \* history: tabs that worked on a campaign while another user took its lock
  overlapped  \* history: tabs that had two calls carrying the form under way at once

vars == <<store, lock, tab, calls, art, faults, taken, overlapped>>

Token  == Tabs \X (1 .. MaxTyped)
Values == [typed : SUBSET Token, art : SUBSET Art]
Blank  == [typed |-> {}, art |-> {}]

Closed ==
  [at |-> "dashboard", mount |-> 0, id |-> NoId, url |-> NoId, fresh |-> FALSE,
   values |-> Blank, persisted |-> Blank, status |-> "in_progress",
   held |-> FALSE, leaving |-> FALSE, saving |-> FALSE, failed |-> FALSE,
   dialog |-> FALSE, shell |-> FALSE, page |-> 0, typed |-> 0, first |-> 0]

Kinds == {"acquire", "fetch", "release", "create", "update", "submit", "po", "docs"}
Nexts == {"none", "auto", "leave", "saveleave", "submit", "po", "docs", "art", "artleave"}

CallType ==
  [tab : Tabs, n : 1 .. MaxCalls, mount : 0 .. MaxMounts, kind : Kinds, next : Nexts,
   step : {"sent", "checked", "answered"}, id : Ids \cup {NoId},
   values : Values, status : {"in_progress", "submitted"}, ok : BOOLEAN]

TypeOK ==
  /\ store \in [Ids -> [status : {"absent", "in_progress", "submitted"}, values : Values,
                        by : Tabs \cup {Nobody}, maker : (Tabs \cup {Nobody}) \X (0 .. MaxMounts)]]
  /\ lock \in [Ids -> Users \cup {Nobody}]
  /\ tab \in [Tabs ->
       [at : {"dashboard", "opening", "editing"}, mount : 0 .. MaxMounts,
        id : Ids \cup {NoId}, url : Ids \cup {NoId}, fresh : BOOLEAN,
        values : Values, persisted : Values, status : {"in_progress", "submitted"},
        held : BOOLEAN, leaving : BOOLEAN, saving : BOOLEAN, failed : BOOLEAN,
        dialog : BOOLEAN, shell : BOOLEAN, page : 0 .. MaxMounts, typed : 0 .. MaxTyped, 
        first : 0 .. MaxTyped]]
  /\ calls \in SUBSET CallType
  /\ art \in [Art -> [st : {"idle", "queued", "uploading", "completed", "error", "gone"},
                      id : Ids \cup {NoId}, tab : Tabs \cup {Nobody}]]
  /\ faults \in 0 .. MaxFaults
  /\ taken \subseteq Tabs /\ overlapped \subseteq Tabs

Init ==
  /\ store = [i \in Ids |-> [status |-> IF i \in Existing THEN "in_progress" ELSE "absent",
                             values |-> Blank, by |-> Nobody, maker |-> <<Nobody, 0>>]]
  /\ lock = [i \in Ids |-> Nobody]
  /\ tab = [t \in Tabs |-> Closed]
  /\ calls = {}
  /\ art = [a \in Art |-> [st |-> "idle", id |-> NoId, tab |-> Nobody]]
  /\ faults = 0
  /\ taken = {} /\ overlapped = {}

-----------------------------------------------------------------------------
(* Calls.                                                                  *)

MyCalls(t) == {c \in calls : c.tab = t}
\* The editor that sent c is still mounted; it is not, but its page is, so
\* that the code awaiting the answer goes on.
Live(c)    == tab[c.tab].at # "dashboard" /\ c.mount = tab[c.tab].mount
Orphan(c)  == ~Live(c) /\ c.mount >= tab[c.tab].page
HasRoom(t) == Cardinality(MyCalls(t)) < MaxCalls

\* A call that tab t, mounted for the m-th time, adds to the calls under way.
NewCall(cs, t, m, kind, next, id, values) ==
  [tab |-> t, n |-> CHOOSE n \in 1 .. MaxCalls : \A c \in cs : c.tab = t => c.n # n,
   mount |-> m, kind |-> kind, next |-> next,
   step |-> "sent", id |-> id, values |-> values, status |-> "in_progress", ok |-> FALSE]

\* The editor of tab t sends a call.
Send(cs, t, kind, next, id, values) ==
  calls' = cs \cup {NewCall(cs, t, tab[t].mount, kind, next, id, values)}

HasUnsavedChanges(t) == tab[t].at = "editing" /\ tab[t].values # tab[t].persisted

-----------------------------------------------------------------------------
(* Opening the editor.                                                     *)

\* Bug of Boot: the mount is counted twice.
BugBoot(t, m, url, fresh) ==
  [Closed EXCEPT !.at = IF fresh THEN "editing" ELSE "opening", !.mount = m + 1,
                 !.id = url, !.url = url, !.fresh = fresh, !.shell = t \in AdminTabs,
                 !.page = tab[t].page, !.typed = tab[t].typed, !.first = tab[t].typed]

\* What a mount of the editor starts with, for the given address.
Boot(t, m, url, fresh) ==
  [Closed EXCEPT !.at = IF fresh THEN "editing" ELSE "opening", !.mount = m,
                 !.id = url, !.url = url, !.fresh = fresh, !.shell = t \in AdminTabs,
                 !.page = tab[t].page, !.typed = tab[t].typed, !.first = tab[t].typed]

\* The bootstrap effect: a fresh form, or take the lock of the campaign in the
\* address first.  campaignId is set from the address before the lock is held,
\* so the heartbeat effect, which wants both, installs no timer.
Bootstrap(t, m) ==
  /\ tab' = [tab EXCEPT ![t] = m]
  /\ IF m.fresh
     THEN UNCHANGED calls
     ELSE calls' = calls \cup {NewCall(calls, t, m.mount, "acquire", "none", m.url, Blank)}

Open(t) ==
  /\ tab[t].at = "dashboard" /\ tab[t].mount < MaxMounts /\ HasRoom(t)
  /\ \/ \E i \in Ids : /\ store[i].status # "absent"
                       /\ Bootstrap(t, Boot(t, tab[t].mount + 1, i, FALSE))
     \/ Bootstrap(t, Boot(t, tab[t].mount + 1, NoId, TRUE))
  /\ UNCHANGED <<store, lock, art, faults>>

\* The browser is refreshed: nothing of the page survives but its address and
\* the requests already sent.  React runs no clean-up: the lock is not released.
Refresh(t) ==
  /\ tab[t].at = "editing" /\ tab[t].mount < MaxMounts /\ HasRoom(t)
  /\ Bootstrap(t, [Boot(t, tab[t].mount + 1, tab[t].url, tab[t].fresh)
                     EXCEPT !.page = tab[t].mount + 1])
  /\ art' = [a \in Art |-> IF art[a].tab = t THEN [art[a] EXCEPT !.st = "gone"] ELSE art[a]]
  /\ UNCHANGED <<store, lock, faults>>

\* The app shell renders again when its tenant list arrives and passes the
\* editor a new onBack: the bootstrap effect depends on it and runs again.
ShellRenders(t) ==
  /\ tab[t].shell /\ tab[t].at = "editing" /\ HasRoom(t)
  /\ Bootstrap(t, IF tab[t].fresh
                  THEN [Boot(t, tab[t].mount, NoId, TRUE)
                          EXCEPT !.held = tab[t].held, !.first = tab[t].first, !.shell = FALSE]
                  ELSE [tab[t] EXCEPT !.shell = FALSE])
  /\ UNCHANGED <<store, lock, art, faults>>

-----------------------------------------------------------------------------
(* The handlers of the API, as one step per transaction.                   *)

Answer(c, ok, values) ==
  calls' = (calls \ {c}) \cup {[c EXCEPT !.step = "answered", !.ok = ok, !.values = values]}

\* acquireCampaignEditLock: refuses a missing or submitted campaign and one
\* locked by somebody else; otherwise inserts or renews the caller's lock.
CanLock(u, i) ==
  /\ store[i].status = "in_progress"
  /\ lock[i] \in {u, Nobody}

\* Bug of ServeLock: ON CONFLICT DO NOTHING, and the answer does not say so.
BugServeLock(c) ==
  /\ c.step = "sent" /\ c.kind \in {"acquire", "update", "submit", "po"}
  /\ lock' = [lock EXCEPT ![c.id] = IF CanLock(UserOf[c.tab], c.id) THEN UserOf[c.tab] ELSE @]
  /\ IF c.kind = "acquire" THEN Answer(c, TRUE, c.values)
     ELSE calls' = (calls \ {c}) \cup {[c EXCEPT !.step = "checked"]}
  /\ UNCHANGED <<store, tab, art, faults>>

\* POST edit-lock answers at once; assertCampaignEditable takes the lock the
\* same way, in a transaction of its own before the write.
ServeLock(c) ==
  /\ c.step = "sent" /\ c.kind \in {"acquire", "update", "submit", "po"}
  /\ LET u == UserOf[c.tab]
     IN  IF CanLock(u, c.id)
         THEN /\ lock' = [lock EXCEPT ![c.id] = u]
              /\ IF c.kind = "acquire" THEN Answer(c, TRUE, c.values)
                 ELSE calls' = (calls \ {c}) \cup {[c EXCEPT !.step = "checked"]}
         ELSE /\ Answer(c, FALSE, c.values)
              /\ UNCHANGED lock
  /\ UNCHANGED <<store, tab, art, faults>>

\* DELETE edit-lock: the user's lock goes, whichever of the user's tabs asked.
ServeRelease(c) ==
  /\ c.step = "sent" /\ c.kind = "release"
  /\ lock' = [lock EXCEPT ![c.id] = IF @ = UserOf[c.tab] THEN Nobody ELSE @]
  /\ Answer(c, TRUE, c.values)
  /\ UNCHANGED <<store, tab, art, faults>>

\* Two minutes pass without a renewal.
LockExpires(i) ==
  /\ lock[i] # Nobody
  /\ lock' = [lock EXCEPT ![i] = Nobody]
  /\ UNCHANGED <<store, tab, calls, art, faults>>

\* GET campaign, and appendCampaignSupportingDocuments, which leaves what the
\* model keeps of the form alone and answers with the whole stored form.
ServeRead(c) ==
  /\ c.step = "sent" /\ c.kind \in {"fetch", "docs"}
  /\ calls' = (calls \ {c}) \cup
       {[c EXCEPT !.step = "answered", !.values = store[c.id].values,
                  !.status = IF c.kind = "fetch" THEN store[c.id].status ELSE @,
                  !.ok = c.kind = "fetch" \/ store[c.id].status = "in_progress"]}
  /\ UNCHANGED <<store, lock, tab, art, faults>>

\* POST /api/campaigns: a new row, and no lock.
ServeCreate(c) ==
  /\ c.step = "sent" /\ c.kind = "create"
  /\ \E i \in Ids :
       /\ store[i].status = "absent"
       /\ store' = [store EXCEPT ![i] = [status |-> "in_progress", values |-> c.values,
                                         by |-> c.tab, maker |-> <<c.tab, c.mount>>]]
       /\ calls' = (calls \ {c}) \cup {[c EXCEPT !.step = "answered", !.ok = TRUE, !.id = i]}
  /\ UNCHANGED <<lock, tab, art, faults>>

\* Bug of ServeUpdate: the status is not looked at again.
BugServeUpdate(c) ==
  /\ c.step = "checked" /\ c.kind = "update"
  /\ store' = [store EXCEPT ![c.id].values = c.values, ![c.id].by = c.tab]
  /\ Answer(c, TRUE, c.values)
  /\ UNCHANGED <<lock, tab, art, faults>>

\* updateCampaign: the whole form is replaced; only the status is looked at.
ServeUpdate(c) ==
  /\ c.step = "checked" /\ c.kind = "update"
  /\ IF store[c.id].status = "in_progress"
     THEN /\ store' = [store EXCEPT ![c.id].values = c.values, ![c.id].by = c.tab]
          /\ Answer(c, TRUE, c.values)
     ELSE /\ Answer(c, FALSE, c.values)
          /\ UNCHANGED store
  /\ UNCHANGED <<lock, tab, art, faults>>

\* A successful submission ends: the campaign is marked submitted, and the
\* answer carries the form as it is stored now.  A purchase order changes
\* nothing of the form.
ServeSubmit(c) ==
  /\ c.step = "checked" /\ c.kind \in {"submit", "po"}
  /\ IF c.kind = "submit" THEN store' = [store EXCEPT ![c.id].status = "submitted"]
     ELSE UNCHANGED store
  /\ Answer(c, TRUE, store[c.id].values)
  /\ UNCHANGED <<lock, tab, art, faults>>

\* A request that never arrives, or an answer that is lost.
CallFails(c) ==
  /\ faults < MaxFaults
  /\ c.kind # "release"
  /\ c.step # "answered" \/ c.ok
  /\ faults' = faults + 1
  /\ Answer(c, FALSE, c.values)
  /\ UNCHANGED <<store, lock, tab, art>>

-----------------------------------------------------------------------------
(* Opening, continued.                                                     *)

\* The screen of tab t is unmounted: the clean-up releases a held lock.
Unmount(t, m, cs) ==
  /\ tab' = [tab EXCEPT ![t] = [Closed EXCEPT !.mount = m.mount, !.page = m.page, !.typed = m.typed]]
  /\ IF m.held /\ m.id # NoId THEN Send(cs, t, "release", "none", m.id, Blank)
     ELSE calls' = cs

\* Locked: fetch the campaign.  Refused: back to the dashboard.
AcquireAnswered(c) ==
  /\ c.step = "answered" /\ c.kind = "acquire" /\ Live(c)
  /\ IF c.ok
     THEN /\ tab' = [tab EXCEPT ![c.tab].held = TRUE]
          /\ Send(calls \ {c}, c.tab, "fetch", "none", c.id, Blank)
     ELSE Unmount(c.tab, tab[c.tab], calls \ {c})
  /\ UNCHANGED <<store, lock, art, faults>>

\* applyCampaignToScreen: the stored form replaces the form of the screen.
FetchAnswered(c) ==
  /\ c.step = "answered" /\ c.kind = "fetch" /\ Live(c)
  /\ IF c.ok
     THEN /\ tab' = [tab EXCEPT ![c.tab] =
                       [@ EXCEPT !.at = "editing", !.id = c.id, !.status = c.status,
                                 !.values = c.values, !.persisted = c.values]]
          /\ calls' = calls \ {c}
     ELSE Unmount(c.tab, tab[c.tab], calls \ {c})
  /\ UNCHANGED <<store, lock, art, faults>>

-----------------------------------------------------------------------------
(* saveCampaignDraft and what its callers do next.                         *)

\* Enqueueing the chosen PDFs for campaign i.
Enqueue(t, i) ==
  art' = [a \in Art |-> IF art[a].st = "idle" THEN [st |-> "queued", id |-> i, tab |-> t]
                        ELSE art[a]]

\* releaseActiveCampaignLock, awaited, then onBack; nothing is sent for a lock not held.
ReleaseAndLeave(t, m, cs) ==
  IF m.held /\ m.id # NoId
  THEN /\ tab' = [tab EXCEPT ![t] = [m EXCEPT !.held = FALSE]]
       /\ Send(cs, t, "release", "leave", m.id, Blank)
  ELSE Unmount(t, m, cs)

\* The draft is saved as i; m is the tab by then, cs the calls that remain.
Continue(t, next, m, i, cs) ==
  /\ CASE next \in {"leave", "saveleave", "artleave"} ->
            ReleaseAndLeave(t, [m EXCEPT !.dialog = FALSE], cs)
       [] next \in {"submit", "po", "docs"} ->
            tab' = [tab EXCEPT ![t] = m] /\ Send(cs, t, next, "none", i, Blank)
       [] OTHER ->
            tab' = [tab EXCEPT ![t] = m] /\ calls' = cs
  /\ IF next \in {"art", "artleave"} THEN Enqueue(t, i) ELSE UNCHANGED art

\* Nothing is sent when the campaign exists and the form is the persisted one.
SaveDraft(t, next, m) ==
  IF tab[t].id # NoId /\ ~HasUnsavedChanges(t)
  THEN Continue(t, next, m, tab[t].id, calls)
  ELSE /\ tab' = [tab EXCEPT ![t] = [m EXCEPT !.saving = TRUE]]
       /\ Send(calls, t, IF tab[t].id = NoId THEN "create" ELSE "update",
               next, tab[t].id, tab[t].values)
       /\ UNCHANGED art

\* Bug of AfterSave: the screen, not the answer, counts as persisted.
BugPersisted(c) ==
  LET m == [tab[c.tab] EXCEPT !.persisted = tab[c.tab].values, !.failed = FALSE,
                              !.saving = FALSE, !.status = c.status]
  IN  IF c.kind = "create" THEN [m EXCEPT !.id = c.id] ELSE m

\* Bug of AfterSave: the id of the new campaign is not kept.
BugAfterCreate(c) ==
  [tab[c.tab] EXCEPT !.persisted = c.values, !.failed = FALSE, !.saving = FALSE]

\* The answer of a create replaces the form of the screen, that of an update
\* only what counts as persisted.
AfterSave(c) ==
  LET m == [tab[c.tab] EXCEPT !.persisted = c.values, !.failed = FALSE, !.saving = FALSE,
                            !.status = c.status]
  IN  IF c.kind = "create" THEN [m EXCEPT !.id = c.id, !.values = c.values] ELSE m

SaveAnswered(c) ==
  /\ c.step = "answered" /\ c.kind \in {"create", "update"} /\ c.ok /\ Live(c)
  /\ Continue(c.tab, c.next, AfterSave(c), c.id, calls \ {c})
  /\ UNCHANGED <<store, lock, faults>>

\* Bug of AfterFailure: savingCampaign is only reset by the autosave.
BugStillSaving(c) ==
  CASE c.next = "auto"      -> [tab[c.tab] EXCEPT !.saving = FALSE, !.failed = TRUE]
    [] c.next = "leave"     -> [tab[c.tab] EXCEPT !.leaving = FALSE, !.dialog = TRUE]
    [] OTHER                -> tab[c.tab]

\* Bug of AfterFailure: leavingCampaignRef stays set.
BugStillLeaving(c) ==
  LET m == [tab[c.tab] EXCEPT !.saving = FALSE]
  IN  CASE c.next = "auto"  -> [m EXCEPT !.failed = @ \/ m.values = c.values]
        [] c.next = "leave" -> [m EXCEPT !.dialog = TRUE]
        [] OTHER            -> m

\* The catch branch, and what the caller does with null.
AfterFailure(c) ==
  LET m == [tab[c.tab] EXCEPT !.saving = FALSE]
  IN  CASE c.next = "auto"      -> [m EXCEPT !.failed = @ \/ m.values = c.values]
        [] c.next = "leave"     -> [m EXCEPT !.leaving = FALSE, !.dialog = TRUE]
        [] c.next = "saveleave" -> [m EXCEPT !.leaving = FALSE]
        [] OTHER                -> m

SaveRefused(c) ==
  /\ c.step = "answered" /\ c.kind \in {"create", "update"} /\ ~c.ok /\ Live(c)
  /\ IF c.next = "artleave"
     THEN ReleaseAndLeave(c.tab, AfterFailure(c), calls \ {c})
     ELSE /\ tab' = [tab EXCEPT ![c.tab] = AfterFailure(c)]
          /\ calls' = calls \ {c}
  /\ UNCHANGED <<store, lock, art, faults>>

\* Bug of HandlerAnswered: the editor is left although the submission failed.
BugHandlerAnswered(c) ==
  /\ c.step = "answered" /\ c.kind \in {"submit", "po", "docs"} /\ Live(c)
  /\ IF c.kind = "submit" THEN ReleaseAndLeave(c.tab, tab[c.tab], calls \ {c})
     ELSE calls' = calls \ {c} /\ UNCHANGED tab
  /\ UNCHANGED <<store, lock, art, faults>>

\* Supporting documents: the answer replaces the form.  A submission also
\* leaves the editor.  A purchase order only changes what is not modelled.
HandlerAnswered(c) ==
  /\ c.step = "answered" /\ c.kind \in {"submit", "po", "docs"} /\ Live(c)
  /\ LET t == c.tab
         m == [tab[t] EXCEPT !.values = c.values, !.persisted = c.values, !.status = c.status]
     IN  IF c.ok /\ c.kind = "submit"
         THEN ReleaseAndLeave(t, [m EXCEPT !.status = "submitted", !.id = c.id], calls \ {c})
         ELSE /\ tab' = IF c.ok /\ c.kind = "docs" THEN [tab EXCEPT ![t] = m] ELSE tab
              /\ calls' = calls \ {c}
  /\ UNCHANGED <<store, lock, art, faults>>

\* The release was answered: onBack, when a handler waits for it.
ReleaseAnswered(c) ==
  /\ c.step = "answered" /\ c.kind = "release" /\ Live(c)
  /\ IF c.next = "leave" THEN Unmount(c.tab, tab[c.tab], calls \ {c})
     ELSE calls' = calls \ {c} /\ UNCHANGED tab
  /\ UNCHANGED <<store, lock, art, faults>>

\* onBack, called by an editor that is gone: whatever the app shows by then
\* gives way to the dashboard.
LateBack(t, cs) ==
  IF tab[t].at = "dashboard" THEN calls' = cs /\ UNCHANGED tab
  ELSE Unmount(t, tab[t], cs)

\* An answer for an editor that was unmounted: the handler that awaited it goes
\* on, with no screen to change and no lock to release.
OrphanAnswered(c) ==
  /\ c.step = "answered" /\ Orphan(c)
  /\ LET saved == c.ok /\ c.kind \in {"create", "update"}
     IN  /\ CASE saved /\ c.next \in {"submit", "po", "docs"} ->
                   /\ calls' = (calls \ {c}) \cup {NewCall(calls \ {c}, c.tab, c.mount, c.next,
                                                           "none", c.id, Blank)}
                   /\ UNCHANGED tab
              [] \/ saved /\ c.next \in {"leave", "saveleave"}
                 \/ c.kind \in {"create", "update"} /\ c.next = "artleave"
                 \/ c.kind = "release" /\ c.next = "leave"
                 \/ c.kind = "submit" /\ c.ok ->
                   LateBack(c.tab, calls \ {c})
              [] OTHER ->
                   calls' = calls \ {c} /\ UNCHANGED tab
         /\ IF saved /\ c.next \in {"art", "artleave"} THEN Enqueue(c.tab, c.id)
            ELSE UNCHANGED art
  /\ UNCHANGED <<store, lock, faults>>

\* An answer for a page that was refreshed.
AnswerIgnored(c) ==
  /\ c.step = "answered" /\ ~Live(c) /\ ~Orphan(c)
  /\ calls' = calls \ {c}
  /\ UNCHANGED <<store, lock, tab, art, faults>>

-----------------------------------------------------------------------------
(* The user and the timers of the editor.                                  *)

Editing(t) == tab[t].at = "editing" /\ tab[t].status = "in_progress" /\ ~tab[t].dialog

\* An edit; the values whose autosave failed are not the values any more.
Type(t) ==
  /\ Editing(t) /\ tab[t].typed < MaxTyped
  /\ tab' = [tab EXCEPT ![t] = [tab[t] EXCEPT !.typed = @ + 1, !.failed = FALSE,
                                              !.values.typed = @ \cup {<<t, tab[t].typed + 1>>}]]
  /\ UNCHANGED <<store, lock, calls, art, faults>>

\* 900 ms without a change.
AutoSave(t) ==
  /\ tab[t].status = "in_progress" /\ HasUnsavedChanges(t)
  /\ ~tab[t].saving /\ ~tab[t].leaving /\ ~tab[t].failed
  /\ HasRoom(t)
  /\ SaveDraft(t, "auto", tab[t])
  /\ UNCHANGED <<store, lock, faults>>

\* Submit, purchase order, documents, artwork: each saves first, and none of
\* them looks at savingCampaign.
Explicit(t, next) ==
  /\ Editing(t) /\ HasRoom(t) /\ next \in Handlers
  /\ \A c \in MyCalls(t) : Live(c) => ~(next \in {c.next, c.kind})
  /\ next = "art" => \E a \in Art : art[a].st = "idle"
  /\ SaveDraft(t, next, tab[t])
  /\ UNCHANGED <<store, lock, faults>>

\* handleBackToDashboard; the button is disabled while a draft is being saved.
\* Chosen artwork still to be enqueued is waited for, a past date skips the save.
BackToDashboard(t) ==
  /\ Editing(t) /\ ~tab[t].saving /\ ~tab[t].leaving /\ HasRoom(t)
  /\ LET m       == [tab[t] EXCEPT !.leaving = TRUE]
         pending == {c \in MyCalls(t) : Live(c) /\ c.next = "art"}
     IN  IF pending # {}
         THEN /\ calls' = (calls \ pending) \cup {[c EXCEPT !.next = "artleave"] : c \in pending}
              /\ tab' = [tab EXCEPT ![t] = m]
              /\ UNCHANGED art
         ELSE \E past \in PastDates :
                IF past \/ ~HasUnsavedChanges(t)
                THEN ReleaseAndLeave(t, m, calls) /\ UNCHANGED art
                ELSE SaveDraft(t, "leave", m)
  /\ UNCHANGED <<store, lock, faults>>

\* The dialog about unsaved changes: save and leave, discard and leave, stay.
Dialog(t) ==
  /\ tab[t].dialog /\ ~tab[t].saving /\ HasRoom(t)
  /\ LET m == [tab[t] EXCEPT !.leaving = TRUE]
     IN  \/ SaveDraft(t, "saveleave", m)
         \/ ReleaseAndLeave(t, [m EXCEPT !.dialog = FALSE], calls) /\ UNCHANGED art
         \/ tab' = [tab EXCEPT ![t].dialog = FALSE] /\ UNCHANGED <<calls, art>>
  /\ UNCHANGED <<store, lock, faults>>

\* The sidebar or the browser's back button: no save, no question.
NavigateAway(t) ==
  /\ tab[t].at # "dashboard" /\ HasRoom(t)
  /\ Unmount(t, tab[t], calls)
  /\ UNCHANGED <<store, lock, art, faults>>

-----------------------------------------------------------------------------
(* The upload queue of the browser, which outlives the editor.             *)

StartUpload(a) ==
  /\ art[a].st = "queued"
  /\ \A b \in Art : art[b].st # "uploading"
  /\ art' = [art EXCEPT ![a].st = "uploading"]
  /\ UNCHANGED <<store, lock, tab, calls, faults>>

\* appendCampaignPrintImages: under the row's lock, whoever holds the edit lock.
FinishUpload(a) ==
  /\ art[a].st = "uploading"
  /\ IF store[art[a].id].status = "in_progress"
     THEN /\ store' = [store EXCEPT ![art[a].id].values.art = @ \cup {a}]
          /\ art' = [art EXCEPT ![a].st = "completed"]
     ELSE /\ art' = [art EXCEPT ![a].st = "error"]
          /\ UNCHANGED store
  /\ UNCHANGED <<lock, tab, calls, faults>>

RemoveQueued(a) ==
  /\ art[a].st = "queued" /\ tab[art[a].tab].id = art[a].id
  /\ art' = [art EXCEPT ![a].st = "gone"]
  /\ UNCHANGED <<store, lock, tab, calls, faults>>

\* The batch is merged into the screen and into what counts as persisted once
\* every one of its jobs has ended.
MergeBatch(t) ==
  LET done == {a \in Art : art[a].st = "completed"}
  IN  /\ tab[t].id # NoId
      /\ Art # {}
      /\ \A a \in Art : art[a].st \in {"completed", "error"} /\ art[a].tab = t
                                                             /\ art[a].id = tab[t].id
      /\ tab' = [tab EXCEPT ![t] = [tab[t] EXCEPT !.values.art = @ \cup done,
                                                  !.persisted.art = @ \cup done]]
      /\ art' = [a \in Art |-> [art[a] EXCEPT !.st = "gone"]]
      /\ UNCHANGED <<store, lock, calls, faults>>

-----------------------------------------------------------------------------
\* The calls of t that carry the form, in either direction.
FormCalls(cs, t) ==
  {c \in cs : c.tab = t /\ c.kind \in {"fetch", "create", "update", "submit", "docs"}}

\* Tab t shows campaign i or was given its lock, or a write of t to i is under way.
WorksOn(t, i) ==
  \/ tab[t].id = i /\ (tab[t].at = "editing" \/ tab[t].held)
  \/ \E c \in MyCalls(t) :
       /\ c.id = i
       /\ \/ c.kind \in {"update", "submit"}
          \/ c.kind = "acquire" /\ c.ok

Note ==
  /\ overlapped' = overlapped \cup {t \in Tabs : Cardinality(FormCalls(calls', t)) > 1}
  /\ taken' = taken \cup {t \in Tabs : \E i \in Ids : /\ lock'[i] \notin {lock[i], Nobody}
                                                      /\ lock'[i] # UserOf[t]
                                                      /\ WorksOn(t, i)}

Serve(c) ==
  ServeLock(c) \/ ServeRelease(c) \/ ServeRead(c) \/ ServeCreate(c) \/ ServeUpdate(c) \/ ServeSubmit(c)

Answered(c) ==
  \/ AcquireAnswered(c) \/ FetchAnswered(c) \/ SaveAnswered(c) \/ SaveRefused(c)
  \/ HandlerAnswered(c) \/ ReleaseAnswered(c) \/ OrphanAnswered(c) \/ AnswerIgnored(c)

User(t) ==
  \/ Open(t) \/ Refresh(t) \/ Type(t) \/ BackToDashboard(t) \/ Dialog(t) \/ NavigateAway(t)
  \/ \E next \in Handlers : Explicit(t, next)

Worker(a) == StartUpload(a) \/ FinishUpload(a)

Next ==
  /\ \/ \E t \in Tabs : User(t) \/ AutoSave(t) \/ ShellRenders(t) \/ MergeBatch(t)
     \/ \E c \in calls : Serve(c) \/ Answered(c) \/ CallFails(c)
     \/ \E i \in Ids : LockExpires(i)
     \/ \E a \in Art : Worker(a) \/ RemoveQueued(a)
  /\ Note

\* Requests are answered, answers are handled, timers fire, uploads go on.
\* Nothing is assumed of the user, of the lock's expiry, or of the network.
Fairness ==
  /\ \A t \in Tabs : \A n \in 1 .. MaxCalls :
       WF_vars((\E c \in MyCalls(t) : c.n = n /\ (Serve(c) \/ Answered(c))) /\ Note)
  /\ \A t \in Tabs : WF_vars((AutoSave(t) \/ MergeBatch(t)) /\ Note)
  /\ WF_vars((\E a \in Art : Worker(a)) /\ Note)

Spec == Init /\ [][Next]_vars
FairSpec == Spec /\ Fairness

-----------------------------------------------------------------------------
(* Properties.                                                             *)

\* The whole form is replaced on every save, and only the edit lock stands
\* between two users.  A save drops stored edits only when one of the last two
\* tabs that wrote the campaign had it taken from it by another user while at
\* work on it; when it is the previous writer's own save and that tab had two
\* calls with the form under way at once; when both tabs have one user; or when
\* it is the first save of the editor that created the campaign: POST
\* /api/campaigns takes no lock, so that another user can open, edit, save and
\* leave the new campaign before its creator hears of it.
StoredEditsDroppedOnlyByRaces ==
  [][\A i \in Ids : ~(store[i].values.typed \subseteq store'[i].values.typed) =>
       LET by  == store'[i].by
           was == store[i].by
       IN  \/ by \in taken \/ was \in taken
           \/ was = by /\ by \in overlapped
           \/ was # by /\ UserOf[was] = UserOf[by]
           \/ \E c \in MyCalls(by) : /\ c.kind = "update" /\ c.step = "checked" /\ c.id = i
                                     /\ store[i].maker = <<by, c.mount>>
                                     /\ c.values = store'[i].values]_vars

\* Once a campaign is submitted its stored form never changes again, whatever
\* saves, appends and checks of the lock were under way when it was submitted.
SubmittedFormStays ==
  [][\A i \in Ids : store[i].status = "submitted" =>
       store'[i].status = "submitted" /\ store'[i].values = store[i].values]_vars

\* One editor creates one campaign, unless two of its creates were under way
\* together, an answer was lost, or the app shell restarted the fresh form.
OneCampaignPerEditor ==
  \A i, j \in Ids :
    /\ store[i].status # "absent" /\ store[j].status # "absent"
    /\ i # j /\ store[i].maker = store[j].maker /\ store[i].maker[1] # Nobody
    => LET t == store[i].maker[1]
       IN  t \in overlapped \/ t \in AdminTabs \/ faults > 0

\* What the screen takes for persisted is in the store, as long as the tab has
\* had its calls one at a time, nobody lost a campaign at work and the tab
\* shares its user with no other tab.  An editor that believes otherwise shows
\* a saved form that is not.  The editor that created the campaign holds no
\* lock at first: it can be answered with edits of another tab, so that the
\* other tabs must have been as orderly.
PersistedIsStored ==
  \A t \in Tabs :
    /\ tab[t].at = "editing" /\ tab[t].id # NoId
    /\ t \notin overlapped /\ taken = {}
    /\ \A s \in Tabs \ {t} : UserOf[s] # UserOf[t]
    /\ tab[t].fresh => overlapped = {} /\ \A r, s \in Tabs : UserOf[r] = UserOf[s] => r = s
    => tab[t].persisted.typed \subseteq store[tab[t].id].values.typed

\* The promise of the user guide, for the edits of the editor that is open:
\* with nothing unsaved, nothing under way and no failure, they are stored.
TypedIsSaved ==
  \A t \in Tabs :
    /\ tab[t].at = "editing" /\ tab[t].id # NoId /\ faults = 0
    /\ MyCalls(t) = {} /\ ~HasUnsavedChanges(t)
    => \A n \in (tab[t].first + 1) .. tab[t].typed :
         <<t, n>> \in store[tab[t].id].values.typed

\* An editor with unsaved edits is only closed by a handler that leaves, by the
\* user's navigation, by a submission that ends, by the restart of a super
\* admin's bootstrap, or by an earlier editor of the page calling onBack late.
\* A handler that leaves may have been told to stay by the failure of another.
UnsavedEditorsClosedOnPurpose ==
  [][\A t \in Tabs :
       HasUnsavedChanges(t) /\ tab'[t].at = "dashboard"
       => \/ tab[t].leaving \/ NavigateAway(t) \/ t \in AdminTabs
          \/ \E c \in MyCalls(t) :
               \/ Orphan(c)
               \/ c.kind = "submit" /\ c.ok
               \/ c.next \in {"leave", "saveleave", "artleave"}]_vars

\* While the editor of a stored campaign stays open, an edit typed in it
\* reaches the store, or the screen has reported that it could not be saved.
EditsReachTheStore ==
  \A t \in Tabs : \A n \in 1 .. MaxTyped :
    tab[t].at = "editing" /\ ~tab[t].fresh /\ <<t, n>> \in tab[t].values.typed
      ~> \/ \E i \in Ids : <<t, n>> \in store[i].values.typed
         \/ tab[t].at # "editing" \/ tab[t].failed \/ tab[t].dialog

\* A handler that leaves the editor does leave it, or asks about the changes.
LeavingEnds ==
  \A t \in Tabs : tab[t].leaving ~> ~tab[t].leaving
=============================================================================
