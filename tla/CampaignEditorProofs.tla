------------------------ MODULE CampaignEditorProofs ------------------------
(***************************************************************************)
(* The inductive invariant of CampaignEditor, its types, and the theorems  *)
(* that rest on it: the form of a submitted campaign stays, editors with   *)
(* unsaved edits are closed on purpose, an editor creates one campaign,    *)
(* which saves drop stored edits, and what is persisted.                   *)
(*                                                                         *)
(* That a call can be sent, and that what it names exists, depends on the  *)
(* screen that sends it, and what an answer may do to a screen depends on  *)
(* which editor of the tab sent the call.  EditorInv says of every screen, *)
(* with the calls of its tab, that they fit (ScreenOK), of the tables that *)
(* they have their types, of the marks that a tab without one has had one  *)
(* call with the form at a time, and of every campaign that the editor     *)
(* that created it was opened.                                             *)
(*                                                                         *)
(* Every step but a creation changes one screen and the calls of one tab   *)
(* (ScreenStep), and the tables without creating a campaign (Kept): the    *)
(* lemmas show this of one action after the other.                         *)
(***************************************************************************)
EXTENDS CampaignEditor, FiniteSetTheorems, TLAPS

-----------------------------------------------------------------------------
(* The screens and the calls.                                              *)

TabType ==
  [at : {"dashboard", "opening", "editing"}, mount : 0 .. MaxMounts,
   id : Ids \cup {NoId}, url : Ids \cup {NoId}, fresh : BOOLEAN,
   values : Values, persisted : Values, status : {"in_progress", "submitted"},
   held : BOOLEAN, leaving : BOOLEAN, saving : BOOLEAN, failed : BOOLEAN,
   dialog : BOOLEAN, shell : BOOLEAN, page : 0 .. MaxMounts, typed : 0 .. MaxTyped,
   first : 0 .. MaxTyped]

\* The campaigns that exist.  Screens and calls are about those: K stands for
\* them where the state does not matter.
Used == {i \in Ids : store[i].status # "absent"}

\* A screen r of tab t: the dashboard has no campaign, an editor opened on an
\* address stays with the campaign of its address, a fresh form holds no lock.
TabFine(K, t, r) ==
  /\ r \in TabType
  /\ r.page <= r.mount
  /\ {r.id, r.url} \subseteq K \cup {NoId}
  /\ r.at = "dashboard" => r.id = NoId /\ ~r.held /\ ~r.dialog /\ ~r.shell
  /\ r.at # "dashboard" /\ ~r.fresh => r.url \in K /\ r.id = r.url
  /\ r.at = "opening" => ~r.fresh
  /\ r.fresh => r.url = NoId /\ ~r.held
  /\ r.shell => t \in AdminTabs

\* A call names a campaign, but for a create that was not granted; only what
\* needs the lock is checked for it.
CallFine(K, c) ==
  /\ c \in CallType
  /\ c.id \in K \cup {NoId}
  /\ c.kind # "create" => c.id \in K
  /\ c.kind = "create" => c.step # "checked" /\ (c.ok => c.id \in K)
  /\ c.step = "checked" => c.kind \in {"update", "submit", "po"}
  /\ c.ok => c.step = "answered"

\* A call c and the screen r of its tab: no call is of an editor yet to come,
\* and the calls of the editor shown are about the campaign it shows.
CallFits(c, r) ==
  /\ c.mount <= r.mount
  /\ r.at # "dashboard" /\ c.mount = r.mount =>
       /\ c.kind \in {"acquire", "fetch"} => ~r.fresh
       /\ ~r.fresh => c.kind # "create" /\ c.id = r.id

\* The editor that screen r of tab t shows is being opened by the calls Boots(t, r, cs).
Boots(t, r, cs) ==
  {c \in cs : /\ c.tab = t /\ c.kind \in {"acquire", "fetch"}
              /\ r.at # "dashboard" /\ c.mount = r.mount}

\* Screen r of tab t and the calls cs: the calls of one tab can be told apart,
\* and, but for a super admin, whose app shell restarts it, an editor that is
\* open has no bootstrap under way and one that is opening has one at most.
ScreenOK(K, t, r, cs) ==
  /\ TabFine(K, t, r)
  /\ \A c \in cs : c.tab = t => CallFine(K, c) /\ CallFits(c, r)
  /\ \A c, d \in cs : c.tab = t /\ d.tab = t /\ c.n = d.n => c = d
  /\ t \notin AdminTabs =>
       \A c, d \in Boots(t, r, cs) : r.at = "opening" /\ c = d

ScreensOK(K) ==
  /\ tab \in [Tabs -> TabType]
  /\ calls \subseteq CallType
  /\ \A t \in Tabs : ScreenOK(K, t, tab[t], calls)

StoreType ==
  [status : {"absent", "in_progress", "submitted"}, values : Values,
   by : Tabs \cup {Nobody}, maker : (Tabs \cup {Nobody}) \X (0 .. MaxMounts)]

ArtType ==
  [st : {"idle", "queued", "uploading", "completed", "error", "gone"},
   id : Ids \cup {NoId}, tab : Tabs \cup {Nobody}]

\* What is on the server, and the queue: a job of the queue has a campaign.
TablesOK ==
  /\ store \in [Ids -> StoreType]
  /\ lock \in [Ids -> Users \cup {Nobody}]
  /\ art \in [Art -> ArtType]
  /\ \A a \in Art :
       art[a].st \in {"queued", "uploading"} => art[a].id \in Ids /\ art[a].tab \in Tabs

MarksOK ==
  /\ faults \in 0 .. MaxFaults
  /\ taken \subseteq Tabs /\ overlapped \subseteq Tabs
  /\ \A t \in Tabs \ overlapped : \A c, d \in FormCalls(calls, t) : c = d

\* A campaign was created by an editor that was opened.
MakersOK ==
  \A i \in Ids : \A t \in Tabs : store[i].maker[1] = t => store[i].maker[2] <= tab[t].mount

EditorInv == ScreensOK(Used) /\ TablesOK /\ MarksOK /\ MakersOK

-----------------------------------------------------------------------------
(* Screens and calls, whatever the state.                                  *)

\* The bounds are numbers.
LEMMA Bounds == MaxTyped \in Nat /\ MaxCalls \in Nat /\ MaxMounts \in Nat /\ MaxFaults \in Nat
BY EditorAssumption

\* The dashboard is a screen.
LEMMA ClosedType == Closed \in TabType
<1>1. 0 \in 0 .. MaxMounts /\ 0 \in 0 .. MaxTyped
  BY Bounds
<1>2. Blank \in Values
  BY DEF Blank, Values
<1> QED BY <1>1, <1>2 DEF Closed, TabType

\* Fewer calls fit the screen as well.
LEMMA FewerCalls ==
  ASSUME NEW K \in SUBSET Ids, NEW t, NEW r, NEW cs, ScreenOK(K, t, r, cs), NEW ds \in SUBSET cs
  PROVE  ScreenOK(K, t, r, ds)
BY DEF ScreenOK, Boots

\* A screen that stays with its editor and its campaign, or gives way to the dashboard.
LEMMA OtherScreen ==
  ASSUME NEW K \in SUBSET Ids, NEW t, NEW r, NEW cs, ScreenOK(K, t, r, cs), NEW s,
         TabFine(K, t, s),
         s.mount = r.mount,
         s.at # "dashboard" => s.at = r.at /\ s.fresh = r.fresh /\ (s.fresh \/ s.id = r.id)
  PROVE  ScreenOK(K, t, s, cs)
BY DEF ScreenOK, Boots, CallFits

\* A screen of a later editor: no call is of that editor.
LEMMA LaterScreen ==
  ASSUME NEW K \in SUBSET Ids, NEW t, NEW r, NEW cs, ScreenOK(K, t, r, cs),
         cs \subseteq CallType, NEW s, TabFine(K, t, s),
         r.mount \in 0 .. MaxMounts, MaxMounts \in Nat, s.mount = r.mount + 1
  PROVE  ScreenOK(K, t, s, cs) /\ \A c \in cs : c.tab = t => c.mount # s.mount
<1> /\ \A c \in cs : c.tab = t => c.mount \in Nat /\ c.mount < s.mount
    /\ r.mount \in Nat
  BY DEF ScreenOK, CallFits, CallType
<1> QED BY DEF ScreenOK, Boots, CallFits

\* One more call of the tab.
LEMMA OneMoreCall ==
  ASSUME NEW K \in SUBSET Ids, NEW t, NEW r, NEW cs, ScreenOK(K, t, r, cs),
         NEW c, CallFine(K, c), CallFits(c, r), c.tab = t, 
         \A d \in cs : d.tab = t => d.n # c.n,
         \/ c.kind \notin {"acquire", "fetch"} \/ t \in AdminTabs
         \/ (r.at = "opening" /\ Boots(t, r, cs) = {})
  PROVE  ScreenOK(K, t, r, cs \cup {c})
<1>1. CASE c.kind \notin {"acquire", "fetch"} \/ t \in AdminTabs
  BY <1>1 DEF ScreenOK, Boots
<1>2. CASE r.at = "opening" /\ Boots(t, r, cs) = {}
  BY <1>2 DEF ScreenOK, Boots
<1> QED BY <1>1, <1>2

\* A call d in place of the call c of the same kind and editor.
LEMMA OtherCall ==
  ASSUME NEW K \in SUBSET Ids, NEW t, NEW r, NEW cs, ScreenOK(K, t, r, cs), NEW c \in cs,
         c.tab = t,
         NEW d, CallFine(K, d), CallFits(d, r), d.tab = t, d.n = c.n, d.mount = c.mount,
         d.kind \in {"acquire", "fetch"} => c.kind \in {"acquire", "fetch"}
  PROVE  ScreenOK(K, t, r, (cs \ {c}) \cup {d})
BY DEF ScreenOK, Boots

\* A tab with room for a call has a name for it.
LEMMA FreeName ==
  ASSUME NEW K \in SUBSET Ids, ScreensOK(K), NEW t \in Tabs, HasRoom(t)
  PROVE  \E n \in 1 .. MaxCalls : \A c \in calls : c.tab = t => c.n # n
<1> SUFFICES ASSUME \A n \in 1 .. MaxCalls : \E c \in MyCalls(t) : c.n = n
             PROVE  FALSE
  BY DEF MyCalls
<1> DEFINE f == [c \in MyCalls(t) |-> c.n]
<1>1. \A c, d \in MyCalls(t) : c.n = d.n => c = d
  BY DEF ScreensOK, ScreenOK, MyCalls
<1>2. f \in [MyCalls(t) -> 1 .. MaxCalls]
  BY DEF ScreensOK, MyCalls, CallType
<1>3. f \in Injection(MyCalls(t), 1 .. MaxCalls) /\ f \in Surjection(MyCalls(t), 1 .. MaxCalls)
  BY <1>1, <1>2 DEF Injection, IsInjective, Surjection
<1>4. /\ MaxCalls \in Nat
      /\ IsFiniteSet(1 .. MaxCalls) /\ Cardinality(1 .. MaxCalls) = MaxCalls
  <2>1. MaxCalls \in Nat
    BY Bounds
  <2>2. IsFiniteSet(1 .. MaxCalls)
        /\ Cardinality(1 .. MaxCalls) = IF 1 > MaxCalls THEN 0 ELSE MaxCalls - 1 + 1
    BY <2>1, FS_Interval
  <2> QED BY <2>1, <2>2
<1>5. IsFiniteSet(MyCalls(t)) /\ Cardinality(1 .. MaxCalls) <= Cardinality(MyCalls(t))
  BY <1>3, <1>4, FS_Injection, FS_Surjection
<1>6. Cardinality(MyCalls(t)) \in Nat
  BY <1>5, FS_CardinalityType
<1> QED BY <1>4, <1>5, <1>6 DEF HasRoom

\* The calls of a tab are finite in number.
LEMMA CallsFinite ==
  ASSUME NEW K \in SUBSET Ids, NEW t, NEW r, NEW cs, cs \subseteq CallType, ScreenOK(K, t, r, cs)
  PROVE  IsFiniteSet({c \in cs : c.tab = t})
<1> DEFINE mine == {c \in cs : c.tab = t}
           f == [c \in mine |-> c.n]
<1>1. \A c, d \in mine : c.n = d.n => c = d
  BY DEF ScreenOK
<1>2. f \in [mine -> 1 .. MaxCalls]
  BY DEF CallType
<1>3. f \in Injection(mine, 1 .. MaxCalls)
  BY <1>1, <1>2 DEF Injection, IsInjective
<1>4. IsFiniteSet(1 .. MaxCalls)
  BY Bounds, FS_Interval
<1> QED BY <1>3, <1>4, FS_Injection

\* The name of a call that is taken out is free.
LEMMA FreedName ==
  ASSUME NEW K \in SUBSET Ids, ScreensOK(K), NEW c \in calls
  PROVE  /\ c.tab \in Tabs
         /\ \E n \in 1 .. MaxCalls : \A d \in calls \ {c} : d.tab = c.tab => d.n # n
BY DEF ScreensOK, ScreenOK, CallType

\* c is a call that its tab can send besides the calls cs.
Sendable(K, cs, c, t, m, kind, next, i, values) ==
  /\ CallFine(K, c)
  /\ c.tab = t /\ c.mount = m /\ c.kind = kind /\ c.id = i /\ c.next = next
  /\ c.step = "sent" /\ c.values = values /\ ~c.ok
  /\ \A d \in cs : d.tab = t => d.n # c.n

\* A tab that has a name for a call can send it.
LEMMA NewCallType ==
  ASSUME NEW K \in SUBSET Ids, NEW cs, NEW t \in Tabs, NEW k \in 1 .. MaxCalls,
         \A d \in cs : d.tab = t => d.n # k,
         NEW m \in 0 .. MaxMounts, NEW kind \in Kinds, NEW next \in Nexts,
         NEW i \in K \cup {NoId}, NEW values \in Values,
         kind # "create" => i \in K,
         NEW c, c = NewCall(cs, t, m, kind, next, i, values)
  PROVE  Sendable(K, cs, c, t, m, kind, next, i, values)
<1> DEFINE n == CHOOSE n \in 1 .. MaxCalls : \A d \in cs : d.tab = t => d.n # n
<1>1. n \in 1 .. MaxCalls /\ \A d \in cs : d.tab = t => d.n # n
  OBVIOUS
<1> QED BY <1>1 DEF NewCall, CallFine, CallType, Sendable

-----------------------------------------------------------------------------
(* Screens that the steps leave behind.                                    *)

\* The mount of an editor is a screen of the tab.
LEMMA BootFine ==
  ASSUME NEW K \in SUBSET Ids, ScreensOK(K), NEW t \in Tabs, NEW m \in 0 .. MaxMounts,
         tab[t].page <= m,
         NEW url \in K \cup {NoId}, NEW fresh \in BOOLEAN,
         fresh <=> url = NoId
  PROVE  /\ TabFine(K, t, Boot(t, m, url, fresh))
         /\ TabFine(K, t, [Boot(t, m, url, fresh) EXCEPT !.page = m])
<1> USE EditorAssumption
<1>1. tab[t] \in TabType
  BY DEF ScreensOK
<1>2. Boot(t, m, url, fresh) \in TabType
  <2>1. /\ (IF fresh THEN "editing" ELSE "opening") \in {"dashboard", "opening", "editing"}
        /\ url \in Ids \cup {NoId} /\ (t \in AdminTabs) \in BOOLEAN
        /\ tab[t].page \in 0 .. MaxMounts /\ tab[t].typed \in 0 .. MaxTyped
    BY <1>1 DEF TabType
  <2> QED BY ZenonT(30), <2>1, ClosedType DEF Boot, TabType
<1>3. [Boot(t, m, url, fresh) EXCEPT !.page = m] \in TabType
  BY <1>2 DEF TabType
<1>4. m <= m
  BY DEF TabType
<1> QED BY ZenonT(30), <1>2, <1>3, <1>4 DEF TabFine, Boot, Closed

\* Leaving an editor leaves the dashboard.
LEMMA ClosedFine ==
  ASSUME NEW K \in SUBSET Ids, NEW t \in Tabs, NEW m, TabFine(K, t, m)
  PROVE  TabFine(K, t, [Closed EXCEPT !.mount = m.mount, !.page = m.page, !.typed = m.typed])
<1> USE EditorAssumption
<1>1. [Closed EXCEPT !.mount = m.mount, !.page = m.page, !.typed = m.typed] \in TabType
  BY ClosedType DEF TabFine, TabType
<1> QED BY <1>1 DEF TabFine, Closed

\* What the handlers set of an open editor leaves it a screen of the same editor.
LEMMA MarkedFine ==
  ASSUME NEW K \in SUBSET Ids, NEW t \in Tabs, NEW r, TabFine(K, t, r), NEW b \in BOOLEAN
  PROVE  /\ TabFine(K, t, [r EXCEPT !.held = FALSE])
         /\ ~r.fresh /\ r.at # "dashboard" => TabFine(K, t, [r EXCEPT !.held = TRUE])
         /\ TabFine(K, t, [r EXCEPT !.dialog = FALSE])
         /\ r.at = "editing" => TabFine(K, t, [r EXCEPT !.dialog = TRUE])
         /\ TabFine(K, t, [r EXCEPT !.leaving = b])
         /\ TabFine(K, t, [r EXCEPT !.saving = b])
         /\ TabFine(K, t, [r EXCEPT !.failed = b])
         /\ TabFine(K, t, [r EXCEPT !.shell = FALSE])
<1>1. r \in TabType
  BY DEF TabFine
<1>2. /\ [r EXCEPT !.held = FALSE] \in TabType
      /\ [r EXCEPT !.held = TRUE] \in TabType
      /\ [r EXCEPT !.dialog = FALSE] \in TabType
      /\ [r EXCEPT !.dialog = TRUE] \in TabType
      /\ [r EXCEPT !.leaving = b] \in TabType
      /\ [r EXCEPT !.saving = b] \in TabType
      /\ [r EXCEPT !.failed = b] \in TabType
      /\ [r EXCEPT !.shell = FALSE] \in TabType
  BY <1>1 DEF TabType
<1> HIDE <1>1
<1> QED BY <1>2 DEF TabFine, TabType

\* A form in place of another.
LEMMA FormFine ==
  ASSUME NEW K \in SUBSET Ids, NEW t \in Tabs, NEW r, TabFine(K, t, r), NEW v \in Values,
         NEW p \in Values,
         NEW st \in {"in_progress", "submitted"}
  PROVE  /\ TabFine(K, t, [r EXCEPT !.values = v])
         /\ TabFine(K, t, [r EXCEPT !.persisted = p])
         /\ TabFine(K, t, [r EXCEPT !.status = st])
         /\ TabFine(K, t, [r EXCEPT !.values = v, !.persisted = p, !.status = st])
<1>1. r \in TabType
  BY DEF TabFine
<1>2. /\ [r EXCEPT !.values = v] \in TabType
      /\ [r EXCEPT !.persisted = p] \in TabType
      /\ [r EXCEPT !.status = st] \in TabType
      /\ [r EXCEPT !.values = v, !.persisted = p, !.status = st] \in TabType
  BY <1>1 DEF TabType
<1> HIDE <1>1
<1> QED BY <1>2 DEF TabFine, TabType

-----------------------------------------------------------------------------
(* A step of one tab.                                                      *)

\* A step changes the screen of tab t and the calls of t, and nothing of other tabs.
ScreenStep(K, t) ==
  /\ tab' \in [Tabs -> TabType]
  /\ \A s \in Tabs \ {t} : tab'[s] = tab[s]
  /\ calls' \subseteq CallType
  /\ \A c : c.tab # t => (c \in calls' <=> c \in calls)
  /\ ScreenOK(K, t, tab'[t], calls')
  /\ tab[t].mount <= tab'[t].mount

\* Such a step leaves every screen and its calls in order.
LEMMA ScreenSteps ==
  ASSUME NEW K \in SUBSET Ids, ScreensOK(K), NEW t \in Tabs, ScreenStep(K, t)
  PROVE  ScreensOK(K)' /\ \A s \in Tabs : tab[s].mount <= tab'[s].mount
<1>1. ASSUME NEW s \in Tabs \ {t}
      PROVE  ScreenOK(K, s, tab'[s], calls')
  <2>1. ScreenOK(K, s, tab'[s], calls)
    BY DEF ScreensOK, ScreenStep
  <2> QED BY <2>1 DEF ScreenStep, ScreenOK, Boots
<1>2. \A s \in Tabs : ScreenOK(K, s, tab'[s], calls')
  BY <1>1 DEF ScreenStep
<1>3. \A s \in Tabs : tab[s].mount <= tab[s].mount
  BY EditorAssumption DEF ScreensOK, TabType
<1> QED BY <1>2, <1>3 DEF ScreensOK, ScreenStep

\* cs are calls under way, those of other tabs among them, and t may send one more.
CallsLeft(t, cs) ==
  /\ cs \subseteq calls
  /\ \A c \in calls : c.tab # t => c \in cs
  /\ \E n \in 1 .. MaxCalls : \A c \in cs : c.tab = t => c.n # n

\* How a screen is set and calls of its tab are kept and added.
LEMMA SetScreen ==
  ASSUME NEW K \in SUBSET Ids, ScreensOK(K), NEW t \in Tabs, NEW m, tab' = [tab EXCEPT ![t] = m],
         ScreenOK(K, t, m, calls'), tab[t].mount <= m.mount,
         \A c \in calls : c.tab # t => c \in calls',
         \A c \in calls' : c \in calls \/ (c \in CallType /\ c.tab = t)
  PROVE  ScreenStep(K, t) /\ tab'[t] = m
<1>1. m \in TabType
  BY DEF ScreenOK, TabFine
<1> QED BY <1>1 DEF ScreenStep, ScreensOK

\* Mounts are numbers.
LEMMA MountsAreNumbers ==
  ASSUME NEW K \in SUBSET Ids, ScreensOK(K), NEW t \in Tabs
  PROVE  tab[t].mount \in 0 .. MaxMounts /\ tab[t].mount \in Nat
         /\ tab[t].mount <= tab[t].mount /\ MaxMounts \in Nat
BY EditorAssumption DEF ScreensOK, TabType

\* Unmounting.
LEMMA UnmountStep ==
  ASSUME NEW K \in SUBSET Ids, ScreensOK(K), NEW t \in Tabs, NEW m, TabFine(K, t, m),
         m.mount = tab[t].mount,
         NEW cs, CallsLeft(t, cs), Unmount(t, m, cs)
  PROVE  ScreenStep(K, t) /\ tab'[t].at = "dashboard"
<1> DEFINE d == [Closed EXCEPT !.mount = m.mount, !.page = m.page, !.typed = m.typed]
           c == NewCall(cs, t, tab[t].mount, "release", "none", m.id, Blank)
<1>1. TabFine(K, t, d) /\ d.mount = tab[t].mount /\ d.at = "dashboard"
  BY ClosedFine DEF Closed
<1>2. ScreenOK(K, t, d, cs)
  BY <1>1, FewerCalls, OtherScreen DEF ScreensOK, CallsLeft
<1>3. tab' = [tab EXCEPT ![t] = d] /\ tab[t].mount <= d.mount
  BY <1>1, MountsAreNumbers DEF Unmount
<1>4. CASE m.held /\ m.id # NoId
  <2>1. m.id \in K /\ Blank \in Values /\ "release" \in Kinds /\ "none" \in Nexts
        /\ tab[t].mount \in 0 .. MaxMounts
    BY <1>4, MountsAreNumbers DEF TabFine, TabType, Blank, Values, Kinds, Nexts
  <2>2. /\ CallFine(K, c) /\ c.tab = t /\ c.mount = tab[t].mount /\ c.kind = "release"
        /\ \A e \in cs : e.tab = t => e.n # c.n
    <3>1. c = NewCall(cs, t, tab[t].mount, "release", "none", m.id, Blank)
      OBVIOUS
    <3> HIDE DEF c
    <3>2. PICK k \in 1 .. MaxCalls : \A e \in cs : e.tab = t => e.n # k
      BY DEF CallsLeft
    <3>3. m.id \in K \cup {NoId} /\ ("release" # "create" => m.id \in K)
      BY <2>1
    <3>4. Sendable(K, cs, c, t, tab[t].mount, "release", "none", m.id, Blank)
      BY <2>1, <3>1, <3>2, <3>3, NewCallType
    <3> QED BY <3>4 DEF Sendable
  <2>3. ScreenOK(K, t, d, cs \cup {c})
    <3>1. CallFits(c, d)
      BY <1>1, <2>2, MountsAreNumbers DEF CallFits
    <3> HIDE DEF c, d
    <3> QED BY <1>2, <2>2, <3>1, OneMoreCall
  <2>4. calls' = cs \cup {c}
    BY <1>4 DEF Unmount, Send
  <2> HIDE DEF c, d
  <2>5. /\ \A e \in calls : e.tab # t => e \in calls'
        /\ \A e \in calls' : e \in calls \/ (e \in CallType /\ e.tab = t)
    BY <2>2, <2>4 DEF CallsLeft, CallFine
  <2>6. ScreenOK(K, t, d, calls')
    BY <2>3, <2>4
  <2> QED BY <1>1, <1>3, <2>5, <2>6, SetScreen
<1>5. CASE ~(m.held /\ m.id # NoId)
  <2>1. calls' = cs \cup {}
    BY <1>5 DEF Unmount
  <2>2. ScreenOK(K, t, d, cs \cup {})
    BY <1>2
  <2> HIDE DEF d
  <2> QED BY <1>1, <1>3, <2>1, <2>2, SetScreen DEF CallsLeft
<1> QED BY <1>4, <1>5

\* A call of the editor shown, sent by it.
LEMMA SendStep ==
  ASSUME NEW K \in SUBSET Ids, ScreensOK(K), NEW t \in Tabs, NEW m, NEW cs, CallsLeft(t, cs),
         ScreenOK(K, t, m, cs),
         m.mount = tab[t].mount, tab' = [tab EXCEPT ![t] = m],
         NEW kind \in Kinds \ {"acquire", "fetch"}, NEW next \in Nexts,
         NEW i \in K \cup {NoId}, NEW values \in Values,
         kind # "create" => i \in K,
         m.at # "dashboard" /\ ~m.fresh => kind # "create" /\ i = m.id,
         Send(cs, t, kind, next, i, values)
  PROVE  ScreenStep(K, t) /\ tab'[t] = m
<1> DEFINE c == NewCall(cs, t, tab[t].mount, kind, next, i, values)
<1>1. /\ CallFine(K, c) /\ c.tab = t /\ c.mount = tab[t].mount /\ c.kind = kind /\ c.id = i
      /\ \A e \in cs : e.tab = t => e.n # c.n
  <2>1. c = NewCall(cs, t, tab[t].mount, kind, next, i, values)
    OBVIOUS
  <2> HIDE DEF c
  <2>2. PICK k \in 1 .. MaxCalls : \A e \in cs : e.tab = t => e.n # k
    BY DEF CallsLeft
  <2>3. tab[t].mount \in 0 .. MaxMounts
    BY MountsAreNumbers
  <2>4. Sendable(K, cs, c, t, tab[t].mount, kind, next, i, values)
    BY <2>1, <2>2, <2>3, NewCallType
  <2> QED BY <2>4 DEF Sendable
<1>2. calls' = cs \cup {c}
  BY DEF Send
<1> HIDE DEF c
<1>3. CallFits(c, m)
  BY <1>1, MountsAreNumbers DEF CallFits
<1>4. ScreenOK(K, t, m, cs \cup {c})
  BY <1>1, <1>3, OneMoreCall
<1>5. /\ \A e \in calls : e.tab # t => e \in calls'
      /\ \A e \in calls' : e \in calls \/ (e \in CallType /\ e.tab = t)
  BY <1>1, <1>2 DEF CallsLeft, CallFine
<1>6. ScreenOK(K, t, m, calls') /\ tab[t].mount <= m.mount
  BY <1>2, <1>4, MountsAreNumbers
<1> QED BY <1>5, <1>6, SetScreen

\* A screen is set and no call is sent.
LEMMA QuietStep ==
  ASSUME NEW K \in SUBSET Ids, ScreensOK(K), NEW t \in Tabs, NEW m, NEW cs, CallsLeft(t, cs),
         ScreenOK(K, t, m, cs),
         m.mount = tab[t].mount, tab' = [tab EXCEPT ![t] = m], calls' = cs
  PROVE  ScreenStep(K, t) /\ tab'[t] = m
<1>1. calls' = cs \cup {} /\ ScreenOK(K, t, m, cs \cup {})
  OBVIOUS
<1> QED BY <1>1, MountsAreNumbers, SetScreen DEF CallsLeft

\* Releasing the lock and leaving.
LEMMA LeaveStep ==
  ASSUME NEW K \in SUBSET Ids, ScreensOK(K), NEW t \in Tabs, NEW m, NEW cs, CallsLeft(t, cs),
         ScreenOK(K, t, m, cs),
         m.mount = tab[t].mount, ReleaseAndLeave(t, m, cs)
  PROVE  ScreenStep(K, t)
<1>0. TabFine(K, t, m)
  BY DEF ScreenOK
<1>1. CASE m.held /\ m.id # NoId
  <2> DEFINE r == [m EXCEPT !.held = FALSE]
  <2>1. TabFine(K, t, r)
    BY <1>0, MarkedFine
  <2>2. r.mount = m.mount /\ r.at = m.at /\ r.fresh = m.fresh /\ r.id = m.id
    BY <1>0 DEF TabFine, TabType
  <2>3. ScreenOK(K, t, r, cs)
    <3> HIDE DEF r
    <3> QED BY <2>1, <2>2, OtherScreen
  <2>4. m.id \in K /\ Blank \in Values /\ "release" \in Kinds \ {"acquire", "fetch"}
        /\ "leave" \in Nexts
    BY <1>0, <1>1 DEF TabFine, TabType, Blank, Values, Kinds, Nexts
  <2>5. tab' = [tab EXCEPT ![t] = r] /\ Send(cs, t, "release", "leave", m.id, Blank)
    BY <1>1 DEF ReleaseAndLeave
  <2> HIDE DEF r
  <2> QED BY <2>2, <2>3, <2>4, <2>5, SendStep
<1>2. CASE ~(m.held /\ m.id # NoId)
  BY <1>0, <1>2, UnmountStep DEF ReleaseAndLeave
<1> QED BY <1>1, <1>2

\* What the callers of saveCampaignDraft do once the draft is saved.
LEMMA ContinueStep ==
  ASSUME NEW K \in SUBSET Ids, ScreensOK(K), NEW t \in Tabs, NEW m, NEW cs, CallsLeft(t, cs),
         ScreenOK(K, t, m, cs),
         m.mount = tab[t].mount, NEW next \in Nexts, NEW i \in K,
         m.at # "dashboard" /\ ~m.fresh => i = m.id,
         Continue(t, next, m, i, cs)
  PROVE  ScreenStep(K, t)
<1>1. CASE next \in {"leave", "saveleave", "artleave"}
  <2> DEFINE r == [m EXCEPT !.dialog = FALSE]
  <2>0. TabFine(K, t, m)
    BY DEF ScreenOK
  <2>1. TabFine(K, t, r)
    BY <2>0, MarkedFine
  <2>2. r.mount = m.mount /\ r.at = m.at /\ r.fresh = m.fresh /\ r.id = m.id
    BY <2>0 DEF TabFine, TabType
  <2>3. ReleaseAndLeave(t, r, cs)
    BY <1>1 DEF Continue
  <2> HIDE DEF r
  <2>4. ScreenOK(K, t, r, cs)
    BY <2>1, <2>2, OtherScreen
  <2> QED BY <2>2, <2>3, <2>4, LeaveStep
<1>2. CASE next \in {"submit", "po", "docs"}
  <2>1. tab' = [tab EXCEPT ![t] = m] /\ Send(cs, t, next, "none", i, Blank)
    BY <1>2 DEF Continue
  <2>2. Blank \in Values /\ next \in Kinds \ {"acquire", "fetch", "create"} /\ "none" \in Nexts
    BY <1>2 DEF Blank, Values, Kinds, Nexts
  <2> QED BY <2>1, <2>2, SendStep
<1>3. CASE next \notin {"leave", "saveleave", "artleave", "submit", "po", "docs"}
  BY <1>3, QuietStep DEF Continue
<1> QED BY <1>1, <1>2, <1>3

\* saveCampaignDraft, called by an open editor.
LEMMA SaveStep ==
  ASSUME NEW K \in SUBSET Ids, ScreensOK(K), NEW t \in Tabs, HasRoom(t), tab[t].at # "dashboard",
         NEW m, TabFine(K, t, m), m.mount = tab[t].mount, m.at = tab[t].at,
         m.fresh = tab[t].fresh, m.id = tab[t].id,
         NEW next \in Nexts, SaveDraft(t, next, m)
  PROVE  ScreenStep(K, t)
<1>0. CallsLeft(t, calls)
  BY FreeName DEF CallsLeft
<1>1. TabFine(K, t, tab[t]) /\ tab[t] \in TabType
  BY DEF ScreensOK, ScreenOK
<1>2. ScreenOK(K, t, m, calls)
  BY OtherScreen DEF ScreensOK
<1>3. CASE tab[t].id # NoId /\ ~HasUnsavedChanges(t)
  <2>1. tab[t].id \in K /\ Continue(t, next, m, tab[t].id, calls)
    BY <1>1, <1>3 DEF SaveDraft, TabType, TabFine
  <2> QED BY <1>0, <1>2, <2>1, ContinueStep
<1>4. CASE ~(tab[t].id # NoId /\ ~HasUnsavedChanges(t))
  <2> DEFINE r    == [m EXCEPT !.saving = TRUE]
             kind == IF tab[t].id = NoId THEN "create" ELSE "update"
  <2>1. TabFine(K, t, r)
    BY MarkedFine
  <2>2. r.mount = m.mount /\ r.at = m.at /\ r.fresh = m.fresh /\ r.id = m.id
    BY DEF TabFine, TabType
  <2>3. tab' = [tab EXCEPT ![t] = r] /\ Send(calls, t, kind, next, tab[t].id, tab[t].values)
    BY <1>4 DEF SaveDraft
  <2>4. tab[t].id \in K \cup {NoId} /\ tab[t].values \in Values
        /\ kind \in Kinds \ {"acquire", "fetch"}
    BY <1>1 DEF TabType, TabFine, Kinds
  <2>5. kind # "create" => tab[t].id \in K
    BY <1>1 DEF TabFine
  <2>6. ~tab[t].fresh => kind # "create"
    BY <1>1, EditorAssumption DEF TabFine
  <2> HIDE DEF r, kind
  <2>7. ScreenOK(K, t, r, calls)
    BY <1>2, <2>1, <2>2, OtherScreen
  <2>8. /\ r.mount = tab[t].mount
        /\ r.at # "dashboard" /\ ~r.fresh => kind # "create" /\ tab[t].id = r.id
    BY <2>2, <2>6
  <2>9. PICK i, values, k : i = tab[t].id /\ values = tab[t].values /\ k = kind
    OBVIOUS
  <2>10. Send(calls, t, k, next, i, values)
    BY <2>3, <2>9 DEF Send
  <2>11. /\ i \in K \cup {NoId} /\ values \in Values /\ k \in Kinds \ {"acquire", "fetch"}
         /\ k # "create" => i \in K
         /\ r.at # "dashboard" /\ ~r.fresh => k # "create" /\ i = r.id
         /\ r.mount = tab[t].mount /\ tab' = [tab EXCEPT ![t] = r]
    BY <2>3, <2>4, <2>5, <2>8, <2>9
  <2> QED BY <1>0, <2>7, <2>10, <2>11, SendStep
<1> QED BY <1>3, <1>4

-----------------------------------------------------------------------------
(* Every step is a step of one tab.                                        *)

\* A mount of the editor of t, the next one or the same again.
LEMMA BootstrapStep ==
  ASSUME NEW K \in SUBSET Ids, ScreensOK(K), NEW t \in Tabs, HasRoom(t), NEW m,
         ScreenOK(K, t, m, calls), m.at # "dashboard",
         tab[t].mount <= m.mount, Bootstrap(t, m),
         t \in AdminTabs \/ m.fresh \/ (m.at = "opening" /\ Boots(t, m, calls) = {})
  PROVE  ScreenStep(K, t)
<1>0. CallsLeft(t, calls)
  BY FreeName DEF CallsLeft
<1>1. TabFine(K, t, m) /\ tab' = [tab EXCEPT ![t] = m]
  BY DEF ScreenOK, Bootstrap
<1>2. CASE m.fresh
  <2>1. calls' = calls \cup {} /\ ScreenOK(K, t, m, calls \cup {})
    BY <1>2 DEF Bootstrap
  <2> QED BY <1>1, <2>1, SetScreen
<1>3. CASE ~m.fresh
  <2> DEFINE c == NewCall(calls, t, m.mount, "acquire", "none", m.url, Blank)
  <2>1. /\ m.mount \in 0 .. MaxMounts /\ m.url \in K /\ m.id = m.url
        /\ Blank \in Values /\ "acquire" \in Kinds /\ "none" \in Nexts
    BY <1>1, <1>3 DEF TabFine, TabType, Blank, Values, Kinds, Nexts
  <2>2. /\ CallFine(K, c) /\ c.tab = t /\ c.mount = m.mount /\ c.kind = "acquire" /\ c.id = m.url
        /\ \A e \in calls : e.tab = t => e.n # c.n
    <3>1. c = NewCall(calls, t, m.mount, "acquire", "none", m.url, Blank)
      OBVIOUS
    <3> HIDE DEF c
    <3>2. PICK k \in 1 .. MaxCalls : \A e \in calls : e.tab = t => e.n # k
      BY <1>0 DEF CallsLeft
    <3>3. m.url \in K \cup {NoId} /\ ("acquire" # "create" => m.url \in K)
      BY <2>1
    <3>4. Sendable(K, calls, c, t, m.mount, "acquire", "none", m.url, Blank)
      BY <2>1, <3>1, <3>2, <3>3, NewCallType
    <3> QED BY <3>4 DEF Sendable
  <2>3. calls' = calls \cup {c}
    BY <1>3 DEF Bootstrap
  <2> HIDE DEF c
  <2>4. CallFits(c, m)
    BY <1>3, <2>1, <2>2, MountsAreNumbers DEF CallFits
  <2>5. ScreenOK(K, t, m, calls \cup {c})
    BY <1>3, <2>2, <2>4, OneMoreCall
  <2> QED BY <1>1, <2>2, <2>3, <2>5, SetScreen DEF CallFine
<1> QED BY <1>2, <1>3

\* Opening and refreshing the editor, and the restart of a super admin's.
LEMMA OpenScreen ==
  ASSUME ScreensOK(Used), NEW K \in SUBSET Ids, K = Used, NEW t \in Tabs, Open(t)
  PROVE  ScreenStep(K, t)
<1> USE EditorAssumption
<1> DEFINE m == tab[t].mount + 1
<1>0. ScreensOK(K) /\ TabFine(K, t, tab[t]) /\ tab[t] \in TabType
      /\ ScreenOK(K, t, tab[t], calls) /\ calls \subseteq CallType
  BY DEF ScreensOK, ScreenOK
<1>1. m \in 0 .. MaxMounts /\ tab[t].page <= m /\ tab[t].mount <= m
      /\ tab[t].mount \in 0 .. MaxMounts /\ MaxMounts \in Nat
  BY <1>0 DEF Open, TabFine, TabType
<1>2. ASSUME NEW i \in K, Bootstrap(t, Boot(t, m, i, FALSE))
      PROVE  ScreenStep(K, t)
  <2> DEFINE r == Boot(t, m, i, FALSE)
  <2>1. TabFine(K, t, r)
    BY <1>0, <1>1, BootFine
  <2>2. r.mount = m /\ r.at = "opening" /\ ~r.fresh
    BY DEF Boot, Closed
  <2>3. Bootstrap(t, r) /\ HasRoom(t)
    BY <1>2 DEF Open
  <2> HIDE DEF r
  <2>4. ScreenOK(K, t, r, calls) /\ \A c \in calls : c.tab = t => c.mount # r.mount
    BY <1>0, <1>1, <2>1, <2>2, LaterScreen
  <2>5. Boots(t, r, calls) = {}
    BY <2>4 DEF Boots
  <2>6. r.at # "dashboard" /\ tab[t].mount <= r.mount
    BY <1>1, <2>2
  <2>7. t \in AdminTabs \/ r.fresh \/ (r.at = "opening" /\ Boots(t, r, calls) = {})
    BY <2>2, <2>5
  <2> QED BY <1>0, <2>3, <2>4, <2>6, <2>7, BootstrapStep
<1>3. ASSUME Bootstrap(t, Boot(t, m, NoId, TRUE))
      PROVE  ScreenStep(K, t)
  <2> DEFINE r == Boot(t, m, NoId, TRUE)
  <2>1. TabFine(K, t, r)
    BY <1>0, <1>1, BootFine
  <2>2. r.mount = m /\ r.at = "editing" /\ r.fresh
    BY DEF Boot, Closed
  <2>3. Bootstrap(t, r) /\ HasRoom(t)
    BY <1>3 DEF Open
  <2> HIDE DEF r
  <2>4. ScreenOK(K, t, r, calls)
    BY <1>0, <1>1, <2>1, <2>2, LaterScreen
  <2>6. r.at # "dashboard" /\ tab[t].mount <= r.mount
    BY <1>1, <2>2
  <2>7. t \in AdminTabs \/ r.fresh \/ (r.at = "opening" /\ Boots(t, r, calls) = {})
    BY <2>2
  <2> QED BY <1>0, <2>3, <2>4, <2>6, <2>7, BootstrapStep
<1>4. \/ \E i \in K : Bootstrap(t, Boot(t, m, i, FALSE))
      \/ Bootstrap(t, Boot(t, m, NoId, TRUE))
  BY DEF Open, Used
<1> QED BY <1>2, <1>3, <1>4

\* Refreshing the page: the editor is mounted once more on the address.
LEMMA RefreshScreen ==
  ASSUME NEW K \in SUBSET Ids, ScreensOK(K), NEW t \in Tabs, Refresh(t)
  PROVE  ScreenStep(K, t)
<1> USE EditorAssumption
<1> DEFINE m == tab[t].mount + 1
           r == [Boot(t, m, tab[t].url, tab[t].fresh) EXCEPT !.page = m]
<1>0. TabFine(K, t, tab[t]) /\ tab[t] \in TabType /\ ScreenOK(K, t, tab[t], calls)
      /\ calls \subseteq CallType
  BY DEF ScreensOK, ScreenOK
<1>1. m \in 0 .. MaxMounts /\ tab[t].page <= m /\ tab[t].mount <= m
      /\ tab[t].mount \in 0 .. MaxMounts /\ MaxMounts \in Nat
  BY <1>0 DEF Refresh, TabFine, TabType
<1>2. /\ tab[t].url \in K \cup {NoId} /\ tab[t].fresh \in BOOLEAN
      /\ tab[t].fresh <=> tab[t].url = NoId
  BY <1>0 DEF TabFine, TabType, Refresh
<1>3. TabFine(K, t, r)
  BY <1>0, <1>1, <1>2, BootFine
<1>4. r.mount = m /\ r.at # "dashboard" /\ (r.fresh \/ r.at = "opening")
  BY DEF Boot, Closed
<1>5. Bootstrap(t, r) /\ HasRoom(t)
  BY DEF Refresh
<1> HIDE DEF r
<1>6. ScreenOK(K, t, r, calls) /\ \A c \in calls : c.tab = t => c.mount # r.mount
  BY ZenonT(30), <1>0, <1>1, <1>3, <1>4, LaterScreen
<1>7. Boots(t, r, calls) = {}
  BY <1>6 DEF Boots
<1> QED BY <1>1, <1>4, <1>5, <1>6, <1>7, BootstrapStep

\* The restart of a super admin's bootstrap: of a fresh form, or of the campaign shown.
LEMMA ShellScreen ==
  ASSUME NEW K \in SUBSET Ids, ScreensOK(K), NEW t \in Tabs, ShellRenders(t)
  PROVE  ScreenStep(K, t) /\ t \in AdminTabs
<1> USE EditorAssumption
<1>0. TabFine(K, t, tab[t]) /\ tab[t] \in TabType /\ ScreenOK(K, t, tab[t], calls)
      /\ calls \subseteq CallType
  BY DEF ScreensOK, ScreenOK
<1>1. t \in AdminTabs /\ tab[t].at = "editing" /\ HasRoom(t)
  BY <1>0 DEF ShellRenders, TabFine
<1>2. CASE tab[t].fresh
  <2> DEFINE b == Boot(t, tab[t].mount, NoId, TRUE)
             r == [b EXCEPT !.held = tab[t].held, !.first = tab[t].first, !.shell = FALSE]
  <2>1. TabFine(K, t, b)
    <3>1. /\ tab[t].mount \in 0 .. MaxMounts /\ tab[t].page <= tab[t].mount
          /\ NoId \in K \cup {NoId} /\ (TRUE <=> NoId = NoId)
      BY <1>0 DEF TabFine, TabType
    <3> QED BY <3>1, BootFine
  <2>2. ~tab[t].held /\ tab[t].held \in BOOLEAN /\ tab[t].first \in 0 .. MaxTyped /\ b \in TabType
    BY <1>0, <1>2, <2>1 DEF TabFine, TabType
  <2>3. b.mount = tab[t].mount /\ b.at = "editing" /\ b.fresh
    BY DEF Boot, Closed
  <2>4. Bootstrap(t, r)
    BY <1>2 DEF ShellRenders
  <2> HIDE DEF b
  <2>5. r \in TabType
    BY <2>2 DEF TabType
  <2>6. TabFine(K, t, r) /\ r.mount = tab[t].mount /\ r.at = "editing" /\ r.fresh
    BY <2>1, <2>2, <2>3, <2>5 DEF TabFine, TabType
  <2> HIDE DEF r
  <2>7. ScreenOK(K, t, r, calls)
    BY <1>0, <1>1, <1>2, <2>6, OtherScreen
  <2>8. r.at # "dashboard" /\ tab[t].mount <= r.mount
    BY <2>6, MountsAreNumbers
  <2> QED BY <1>1, <2>4, <2>7, <2>8, BootstrapStep, Zenon
<1>3. CASE ~tab[t].fresh
  <2> DEFINE r == [tab[t] EXCEPT !.shell = FALSE]
  <2>1. TabFine(K, t, r)
    BY <1>0, MarkedFine
  <2>2. r.mount = tab[t].mount /\ r.at = "editing" /\ r.fresh = tab[t].fresh /\ r.id = tab[t].id
    BY <1>0, <1>1 DEF TabType
  <2>3. Bootstrap(t, r)
    BY <1>3 DEF ShellRenders
  <2> HIDE DEF r
  <2>4. ScreenOK(K, t, r, calls)
    BY <1>0, <1>1, <2>1, <2>2, OtherScreen
  <2>5. r.at # "dashboard" /\ tab[t].mount <= r.mount
    BY <2>2, MountsAreNumbers
  <2> QED BY <1>1, <2>3, <2>4, <2>5, BootstrapStep, Zenon
<1> QED BY <1>1, <1>2, <1>3

\* What the user and the timers do.
LEMMA TypeScreen ==
  ASSUME NEW K \in SUBSET Ids, ScreensOK(K), NEW t \in Tabs, Type(t)
  PROVE  ScreenStep(K, t)
<1> USE EditorAssumption
<1> DEFINE e == <<t, tab[t].typed + 1>>
           r == [tab[t] EXCEPT !.typed = @ + 1, !.failed = FALSE, !.values.typed = @ \cup {e}]
<1>0. TabFine(K, t, tab[t]) /\ tab[t] \in TabType /\ ScreenOK(K, t, tab[t], calls)
  BY DEF ScreensOK, ScreenOK
<1>1. tab[t].typed + 1 \in 0 .. MaxTyped /\ e \in Token
  BY <1>0 DEF Type, Token, TabType
<1>2. tab[t].values.typed \cup {e} \in SUBSET Token
  BY <1>0, <1>1 DEF TabType, Values
<1>3. tab' = [tab EXCEPT ![t] = r] /\ calls' = calls
  <2>1. tab' = [tab EXCEPT ![t] = r]
    BY DEF Type
  <2>2. calls' = calls
    BY DEF Type
  <2> QED BY <2>1, <2>2
<1> HIDE DEF e
<1>4. r \in TabType
  BY <1>0, <1>1, <1>2 DEF TabType, Values
<1>5. TabFine(K, t, r) /\ r.mount = tab[t].mount /\ r.at = tab[t].at
      /\ r.fresh = tab[t].fresh /\ r.id = tab[t].id
  BY <1>0, <1>4 DEF TabFine, TabType
<1> HIDE DEF r
<1>6. ScreenOK(K, t, r, calls)
  BY <1>0, <1>5, OtherScreen
<1> QED BY <1>3, <1>5, <1>6, SetScreen, MountsAreNumbers

\* The batch that is merged into the screen.
LEMMA MergeScreen ==
  ASSUME NEW K \in SUBSET Ids, ScreensOK(K), NEW t \in Tabs, MergeBatch(t)
  PROVE  ScreenStep(K, t)
<1> DEFINE done == {a \in Art : art[a].st = "completed"}
           r == [tab[t] EXCEPT !.values.art = @ \cup done, !.persisted.art = @ \cup done]
<1>0. TabFine(K, t, tab[t]) /\ tab[t] \in TabType /\ ScreenOK(K, t, tab[t], calls)
  BY DEF ScreensOK, ScreenOK
<1>1. /\ tab[t].values.art \cup done \in SUBSET Art
      /\ tab[t].persisted.art \cup done \in SUBSET Art
  BY <1>0 DEF TabType, Values
<1>2. tab' = [tab EXCEPT ![t] = r] /\ calls' = calls
  <2>1. tab' = [tab EXCEPT ![t] = r]
    BY DEF MergeBatch
  <2>2. calls' = calls
    BY DEF MergeBatch
  <2> QED BY <2>1, <2>2
<1> HIDE DEF done
<1>4. r \in TabType
  BY <1>0, <1>1 DEF TabType, Values
<1>5. TabFine(K, t, r) /\ r.mount = tab[t].mount /\ r.at = tab[t].at
      /\ r.fresh = tab[t].fresh /\ r.id = tab[t].id
  BY <1>0, <1>4 DEF TabFine, TabType
<1> HIDE DEF r
<1>6. ScreenOK(K, t, r, calls)
  BY <1>0, <1>5, OtherScreen
<1> QED BY <1>2, <1>5, <1>6, SetScreen, MountsAreNumbers

\* The autosave and the explicit handlers.
LEMMA SavingScreen ==
  ASSUME NEW K \in SUBSET Ids, ScreensOK(K), NEW t \in Tabs,
         AutoSave(t) \/ \E next \in Handlers : Explicit(t, next)
  PROVE  ScreenStep(K, t)
<1>0. TabFine(K, t, tab[t])
  BY DEF ScreensOK, ScreenOK
<1>1. PICK next \in Nexts : SaveDraft(t, next, tab[t]) /\ HasRoom(t) /\ tab[t].at # "dashboard"
  BY EditorAssumption DEF AutoSave, Explicit, Editing, HasUnsavedChanges, Nexts
<1> QED BY <1>0, <1>1, SaveStep

\* Leaving by the sidebar or the back button.
LEMMA NavigateScreen ==
  ASSUME NEW K \in SUBSET Ids, ScreensOK(K), NEW t \in Tabs, NavigateAway(t)
  PROVE  ScreenStep(K, t)
<1>0. TabFine(K, t, tab[t])
  BY DEF ScreensOK, ScreenOK
<1>1. CallsLeft(t, calls)
  BY FreeName DEF CallsLeft, NavigateAway
<1> QED BY <1>0, <1>1, UnmountStep DEF NavigateAway

\* The three answers of the dialog.
LEMMA DialogScreen ==
  ASSUME NEW K \in SUBSET Ids, ScreensOK(K), NEW t \in Tabs, Dialog(t)
  PROVE  ScreenStep(K, t)
<1> DEFINE m == [tab[t] EXCEPT !.leaving = TRUE]
           r == [m EXCEPT !.dialog = FALSE]
           s == [tab[t] EXCEPT !.dialog = FALSE]
<1>0. TabFine(K, t, tab[t]) /\ tab[t] \in TabType /\ ScreenOK(K, t, tab[t], calls)
  BY DEF ScreensOK, ScreenOK
<1>1. TabFine(K, t, m) /\ TabFine(K, t, r) /\ TabFine(K, t, s)
  BY <1>0, MarkedFine
<1>2. /\ m.mount = tab[t].mount /\ m.at = tab[t].at /\ m.fresh = tab[t].fresh /\ m.id = tab[t].id
      /\ r.mount = tab[t].mount /\ r.at = tab[t].at /\ r.fresh = tab[t].fresh /\ r.id = tab[t].id
      /\ s.mount = tab[t].mount /\ s.at = tab[t].at /\ s.fresh = tab[t].fresh /\ s.id = tab[t].id
  BY <1>0 DEF TabType
<1>3. CallsLeft(t, calls) /\ HasRoom(t) /\ tab[t].at # "dashboard"
  BY <1>0, FreeName DEF CallsLeft, Dialog, TabFine
<1>4. \/ SaveDraft(t, "saveleave", m)
      \/ ReleaseAndLeave(t, r, calls)
      \/ tab' = [tab EXCEPT ![t] = s] /\ calls' = calls
  BY DEF Dialog
<1> HIDE DEF m, r, s
<1>5. ScreenOK(K, t, r, calls) /\ ScreenOK(K, t, s, calls)
  BY <1>0, <1>1, <1>2, OtherScreen
<1>6. "saveleave" \in Nexts
  BY DEF Nexts
<1> QED BY <1>1, <1>2, <1>3, <1>4, <1>5, <1>6, SaveStep, LeaveStep, QuietStep

\* The calls of batches still to be enqueued are told to leave afterwards.
LEMMA BackScreen ==
  ASSUME NEW K \in SUBSET Ids, ScreensOK(K), NEW t \in Tabs, BackToDashboard(t)
  PROVE  ScreenStep(K, t)
<1> DEFINE m == [tab[t] EXCEPT !.leaving = TRUE]
           pending == {c \in MyCalls(t) : Live(c) /\ c.next = "art"}
           told == {[c EXCEPT !.next = "artleave"] : c \in pending}
<1>0. TabFine(K, t, tab[t]) /\ tab[t] \in TabType /\ ScreenOK(K, t, tab[t], calls)
  BY DEF ScreensOK, ScreenOK
<1>1. TabFine(K, t, m)
  BY <1>0, MarkedFine
<1>2. m.mount = tab[t].mount /\ m.at = tab[t].at /\ m.fresh = tab[t].fresh /\ m.id = tab[t].id
  BY <1>0 DEF TabType
<1>3. CallsLeft(t, calls) /\ HasRoom(t) /\ tab[t].at # "dashboard"
  BY FreeName DEF CallsLeft, BackToDashboard, Editing
<1>4. \/ calls' = (calls \ pending) \cup told /\ tab' = [tab EXCEPT ![t] = m]
      \/ ReleaseAndLeave(t, m, calls)
      \/ SaveDraft(t, "leave", m)
  BY DEF BackToDashboard
<1>5. ASSUME calls' = (calls \ pending) \cup told, tab' = [tab EXCEPT ![t] = m]
      PROVE  ScreenStep(K, t)
  <2>1. ASSUME NEW d \in told
        PROVE  \E c \in pending : /\ d \in CallType /\ CallFine(K, d)
                                  /\ d.tab = t /\ d.tab = c.tab /\ d.n = c.n /\ d.mount = c.mount
                                  /\ d.kind = c.kind /\ d.id = c.id
                                  /\ d = [c EXCEPT !.next = "artleave"]
    <3>1. PICK c \in pending : d = [c EXCEPT !.next = "artleave"]
      OBVIOUS
    <3>2. c \in CallType /\ CallFine(K, c) /\ c.tab = t
      BY <1>0 DEF ScreensOK, ScreenOK, MyCalls
    <3>3. d \in CallType
      BY <3>1, <3>2 DEF CallType, Nexts
    <3> QED BY <3>1, <3>2, <3>3 DEF CallFine, CallType
  <2>2. pending \subseteq calls /\ \A c \in pending : c.tab = t
    BY DEF MyCalls
  <2> HIDE DEF m, pending, told
  <2>3. ScreenOK(K, t, m, calls)
    BY <1>0, <1>1, <1>2, OtherScreen
  <2>4. \A d \in told : CallFine(K, d) /\ CallFits(d, m)
    <3> TAKE d \in told
    <3>1. PICK c \in pending : /\ CallFine(K, d) /\ d.tab = t
                               /\ d.mount = c.mount /\ d.kind = c.kind /\ d.id = c.id
      BY <2>1
    <3>2. CallFits(c, m)
      BY <2>2, <2>3 DEF ScreenOK
    <3> QED BY <3>1, <3>2 DEF CallFits
  <2>5. ScreenOK(K, t, m, (calls \ pending) \cup told)
    <3> DEFINE ds == (calls \ pending) \cup told
    <3>0. \A d \in ds : \E c \in calls : /\ d.tab = c.tab /\ d.n = c.n /\ d.mount = c.mount /\ d.kind = c.kind
                                         /\ (d \in calls \ pending /\ d = c) \/ (c \in pending /\ d = [c EXCEPT !.next = "artleave"])
      BY <2>1, <2>2
    <3>1. \A c \in ds : c.tab = t => CallFine(K, c) /\ CallFits(c, m)
      BY <2>3, <2>4 DEF ScreenOK
    <3>2. ASSUME NEW d \in ds, NEW e \in ds, d.tab = t, e.tab = t, d.n = e.n
          PROVE  d = e
      <4>1. PICK c \in calls : /\ d.tab = c.tab /\ d.n = c.n
                               /\ (d \in calls \ pending /\ d = c) \/ (c \in pending /\ d = [c EXCEPT !.next = "artleave"])
        BY <3>0
      <4>2. PICK b \in calls : /\ e.tab = b.tab /\ e.n = b.n
                               /\ (e \in calls \ pending /\ e = b) \/ (b \in pending /\ e = [b EXCEPT !.next = "artleave"])
        BY <3>0
      <4>3. b = c
        BY <2>3, <3>2, <4>1, <4>2 DEF ScreenOK
      <4> QED BY <4>1, <4>2, <4>3
    <3>3. ASSUME t \notin AdminTabs, NEW d \in Boots(t, m, ds), NEW e \in Boots(t, m, ds)
          PROVE  m.at = "opening" /\ d = e
      <4>0. d \in ds /\ e \in ds
        BY DEF Boots
      <4>1. PICK c \in calls : d.tab = c.tab /\ d.n = c.n /\ d.mount = c.mount /\ d.kind = c.kind
        BY <3>0, <4>0
      <4>2. PICK b \in calls : e.tab = b.tab /\ e.n = b.n /\ e.mount = b.mount /\ e.kind = b.kind
        BY <3>0, <4>0
      <4>3. c \in Boots(t, m, calls) /\ b \in Boots(t, m, calls)
        BY <4>1, <4>2 DEF Boots
      <4>4. m.at = "opening" /\ b = c
        BY <2>3, <3>3, <4>3 DEF ScreenOK
      <4>5. d.tab = t /\ e.tab = t
        BY DEF Boots
      <4> QED BY <3>2, <4>0, <4>1, <4>2, <4>4, <4>5
    <3> QED BY <1>1, <3>1, <3>2, <3>3 DEF ScreenOK
  <2>6. /\ calls \ pending \in SUBSET calls
        /\ \A c \in calls : c.tab # t => c \in calls \ pending
        /\ \A c \in told : c \in CallType /\ c.tab = t
    BY <2>1, <2>2
  <2> QED BY <1>2, <1>5, <2>5, <2>6, SetScreen, MountsAreNumbers
<1> HIDE DEF m, pending, told
<1>6. ScreenOK(K, t, m, calls)
  BY <1>0, <1>1, <1>2, OtherScreen
<1>7. "leave" \in Nexts
  BY DEF Nexts
<1> QED BY <1>1, <1>2, <1>3, <1>4, <1>5, <1>6, <1>7, SaveStep, LeaveStep

-----------------------------------------------------------------------------
(* The server's steps, and the answers.                                    *)

\* Only the calls of t change.
LEMMA StillScreen ==
  ASSUME NEW K \in SUBSET Ids, ScreensOK(K), NEW t \in Tabs, tab' = tab,
         ScreenOK(K, t, tab[t], calls'),
         \A c \in calls : c.tab # t => c \in calls',
         \A c \in calls' : c \in calls \/ (c \in CallType /\ c.tab = t)
  PROVE  ScreenStep(K, t)
BY MountsAreNumbers DEF ScreenStep, ScreensOK

\* What an answer, or the check of the lock, makes of a call.
LEMMA AnswerFine ==
  ASSUME NEW K \in SUBSET Ids, NEW c, CallFine(K, c), NEW b \in BOOLEAN, NEW v \in Values,
         NEW st \in {"in_progress", "submitted"}, c.kind = "create" /\ b => c.id \in K
  PROVE  /\ CallFine(K, [c EXCEPT !.step = "answered", !.ok = b, !.values = v])
         /\ CallFine(K, [c EXCEPT !.step = "answered", !.values = v, !.status = st, !.ok = b])
         /\ c.kind \in {"update", "submit", "po"} /\ ~c.ok => CallFine(K, [c EXCEPT !.step = "checked"])
<1>1. c \in CallType
  BY DEF CallFine
<1>2. /\ [c EXCEPT !.step = "answered", !.ok = b, !.values = v] \in CallType
      /\ [c EXCEPT !.step = "answered", !.values = v, !.status = st, !.ok = b] \in CallType
      /\ [c EXCEPT !.step = "checked"] \in CallType
  BY <1>1 DEF CallType
<1> HIDE <1>1
<1> QED BY <1>2 DEF CallFine, CallType

\* A call moves on, and nothing else of screens and calls.
LEMMA CallMoves ==
  ASSUME NEW K \in SUBSET Ids, ScreensOK(K), NEW c \in calls, tab' = tab,
         NEW d, CallFine(K, d), d.tab = c.tab, d.n = c.n, d.mount = c.mount, d.kind = c.kind,
         d.id = c.id \/ c.kind = "create",
         calls' = (calls \ {c}) \cup {d}
  PROVE  c.tab \in Tabs /\ ScreenStep(K, c.tab)
<1>1. c.tab \in Tabs /\ ScreenOK(K, c.tab, tab[c.tab], calls)
  BY DEF ScreensOK, CallType
<1>2. CallFits(d, tab[c.tab])
  BY <1>1 DEF ScreenOK, CallFits
<1>3. ScreenOK(K, c.tab, tab[c.tab], (calls \ {c}) \cup {d})
  BY <1>1, <1>2, OtherCall
<1>4. d \in CallType
  BY DEF CallFine
<1> QED BY <1>1, <1>3, <1>4, StillScreen

\* A call is answered with values v.
LEMMA AnswerMoves ==
  ASSUME NEW K \in SUBSET Ids, ScreensOK(K), NEW c \in calls, tab' = tab,
         NEW b \in BOOLEAN, NEW v \in Values, Answer(c, b, v),
         c.kind = "create" /\ b => c.id \in K
  PROVE  c.tab \in Tabs /\ ScreenStep(K, c.tab)
<1> DEFINE d == [c EXCEPT !.step = "answered", !.ok = b, !.values = v]
<1>1. c \in CallType /\ CallFine(K, c)
  BY DEF ScreensOK, ScreenOK, CallType
<1>2. CallFine(K, d)
  BY <1>1, AnswerFine
<1>3. d.tab = c.tab /\ d.n = c.n /\ d.mount = c.mount /\ d.kind = c.kind /\ d.id = c.id
  BY <1>1 DEF CallType
<1>4. calls' = (calls \ {c}) \cup {d}
  BY DEF Answer
<1> HIDE DEF d
<1> QED BY <1>2, <1>3, <1>4, CallMoves

\* The check of the lock.
LEMMA LockMoves ==
  ASSUME NEW K \in SUBSET Ids, ScreensOK(K), NEW c \in calls, ServeLock(c)
  PROVE  c.tab \in Tabs /\ ScreenStep(K, c.tab)
<1>1. c \in CallType /\ CallFine(K, c) /\ c.values \in Values
  BY DEF ScreensOK, ScreenOK, CallType
<1>2. tab' = tab /\ c.step = "sent" /\ c.kind \in {"acquire", "update", "submit", "po"}
  BY DEF ServeLock
<1>3. \/ Answer(c, TRUE, c.values)
      \/ Answer(c, FALSE, c.values)
      \/ c.kind # "acquire" /\ calls' = (calls \ {c}) \cup {[c EXCEPT !.step = "checked"]}
  BY DEF ServeLock
<1>4. ASSUME c.kind # "acquire", calls' = (calls \ {c}) \cup {[c EXCEPT !.step = "checked"]}
      PROVE  c.tab \in Tabs /\ ScreenStep(K, c.tab)
  <2> DEFINE d == [c EXCEPT !.step = "checked"]
  <2>1. CallFine(K, d)
    <3>1. ~c.ok /\ TRUE \in BOOLEAN /\ "submitted" \in {"in_progress", "submitted"}
      BY <1>1, <1>2 DEF CallFine
    <3> QED BY <1>1, <1>2, <1>4, <3>1, AnswerFine
  <2>2. d.tab = c.tab /\ d.n = c.n /\ d.mount = c.mount /\ d.kind = c.kind /\ d.id = c.id
    BY <1>1 DEF CallType
  <2>3. calls' = (calls \ {c}) \cup {d}
    BY <1>4
  <2> HIDE DEF d
  <2> QED BY <1>2, <2>1, <2>2, <2>3, CallMoves
<1>5. c.kind # "create"
  BY <1>2
<1> QED BY <1>1, <1>2, <1>3, <1>4, <1>5, AnswerMoves

\* The reads of a campaign: what is fetched exists.
LEMMA ReadMoves ==
  ASSUME TablesOK, ScreensOK(Used), NEW K \in SUBSET Ids, K = Used, NEW c \in calls, ServeRead(c)
  PROVE  c.tab \in Tabs /\ ScreenStep(K, c.tab)
<1> DEFINE v  == store[c.id].values
           st == IF c.kind = "fetch" THEN store[c.id].status ELSE c.status
           b  == c.kind = "fetch" \/ store[c.id].status = "in_progress"
           d  == [c EXCEPT !.step = "answered", !.values = v, !.status = st, !.ok = b]
<1>0. ScreensOK(K)
  OBVIOUS
<1>1. c \in CallType /\ CallFine(K, c)
  BY <1>0 DEF ScreensOK, ScreenOK, CallType
<1>2. tab' = tab /\ c.kind \in {"fetch", "docs"} /\ c.id \in K /\ c.id \in Ids
  BY <1>1 DEF ServeRead, CallFine
<1>3. v \in Values /\ st \in {"in_progress", "submitted"} /\ b \in BOOLEAN
  BY <1>1, <1>2 DEF TablesOK, StoreType, Used, CallType
<1>4. calls' = (calls \ {c}) \cup {d}
  BY DEF ServeRead
<1>5. d.tab = c.tab /\ d.n = c.n /\ d.mount = c.mount /\ d.kind = c.kind /\ d.id = c.id
  BY <1>1 DEF CallType
<1> HIDE DEF v, st, b
<1>6. CallFine(K, d)
  BY <1>1, <1>2, <1>3, AnswerFine
<1> HIDE DEF d
<1> QED BY <1>0, <1>2, <1>4, <1>5, <1>6, CallMoves

\* A new campaign: K is what exists afterwards.
LEMMA CreateMoves ==
  ASSUME TablesOK, ScreensOK(Used), NEW c \in calls, ServeCreate(c)
  PROVE  \E i \in Ids :
           /\ store[i].status = "absent" /\ c.kind = "create" /\ c.step = "sent"
           /\ c.tab \in Tabs
           /\ store' = [store EXCEPT ![i] = [status |-> "in_progress", values |-> c.values,
                                             by |-> c.tab, maker |-> <<c.tab, c.mount>>]]
           /\ calls' = (calls \ {c}) \cup {[c EXCEPT !.step = "answered", !.ok = TRUE, !.id = i]}
           /\ \A K \in SUBSET Ids : K = Used \cup {i} => ScreensOK(K) /\ ScreenStep(K, c.tab)
<1>1. PICK i \in Ids :
           /\ store[i].status = "absent"
           /\ store' = [store EXCEPT ![i] = [status |-> "in_progress", values |-> c.values,
                                             by |-> c.tab, maker |-> <<c.tab, c.mount>>]]
           /\ calls' = (calls \ {c}) \cup {[c EXCEPT !.step = "answered", !.ok = TRUE, !.id = i]}
  BY DEF ServeCreate
<1>2. c.kind = "create" /\ c.step = "sent" /\ tab' = tab /\ c \in CallType /\ c.tab \in Tabs
  BY DEF ServeCreate, ScreensOK, CallType
<1>3. ASSUME NEW K \in SUBSET Ids, K = Used \cup {i}
      PROVE  ScreensOK(K) /\ ScreenStep(K, c.tab)
  <2> DEFINE d == [c EXCEPT !.step = "answered", !.ok = TRUE, !.id = i]
  <2>1. ScreensOK(K)
    BY <1>3 DEF ScreensOK, ScreenOK, TabFine, CallFine
  <2>2. d \in CallType /\ d.tab = c.tab /\ d.n = c.n /\ d.mount = c.mount /\ d.kind = c.kind
        /\ d.id = i
        /\ d.step = "answered"
    BY <1>2 DEF CallType
  <2>3. calls' = (calls \ {c}) \cup {d}
    BY <1>1
  <2> HIDE DEF d
  <2>4. CallFine(K, d)
    BY <1>2, <1>3, <2>2 DEF CallFine
  <2> QED BY <1>2, <2>1, <2>2, <2>3, <2>4, CallMoves
<1> QED BY <1>1, <1>2, <1>3

\* The other steps of the server, and a call that is lost.
LEMMA ServerMoves ==
  ASSUME TablesOK, NEW K \in SUBSET Ids, ScreensOK(K), NEW c \in calls,
         ServeRelease(c) \/ ServeUpdate(c) \/ ServeSubmit(c) \/ CallFails(c)
  PROVE  c.tab \in Tabs /\ ScreenStep(K, c.tab)
<1>1. c \in CallType /\ CallFine(K, c) /\ c.values \in Values
  BY DEF ScreensOK, ScreenOK, CallType
<1>2. CASE ServeRelease(c)
  <2>1. tab' = tab /\ Answer(c, TRUE, c.values) /\ c.kind # "create"
    BY <1>2 DEF ServeRelease
  <2> QED BY <1>1, <2>1, AnswerMoves
<1>3. CASE ServeUpdate(c)
  <2>1. tab' = tab /\ (Answer(c, TRUE, c.values) \/ Answer(c, FALSE, c.values)) /\ c.kind # "create"
    BY <1>3 DEF ServeUpdate
  <2> QED BY <1>1, <2>1, AnswerMoves
<1>4. CASE ServeSubmit(c)
  <2>1. tab' = tab /\ Answer(c, TRUE, store[c.id].values) /\ c.kind # "create" /\ c.id \in Ids
    BY <1>1, <1>4 DEF ServeSubmit, CallFine
  <2>2. PICK v \in Values : v = store[c.id].values
    BY <2>1 DEF TablesOK, StoreType
  <2>3. Answer(c, TRUE, v)
    BY <2>1, <2>2 DEF Answer
  <2> QED BY <2>1, <2>2, <2>3, AnswerMoves
<1>5. CASE CallFails(c)
  <2>1. tab' = tab /\ Answer(c, FALSE, c.values)
    BY <1>5 DEF CallFails
  <2> QED BY <1>1, <2>1, AnswerMoves
<1> QED BY <1>2, <1>3, <1>4, <1>5

\* What is known of a call whose answer the mounted editor handles.
LEMMA Handled ==
  ASSUME NEW K \in SUBSET Ids, ScreensOK(K), NEW c \in calls
  PROVE  /\ c.tab \in Tabs /\ c \in CallType /\ CallFine(K, c) /\ CallFits(c, tab[c.tab])
         /\ TabFine(K, c.tab, tab[c.tab]) /\ tab[c.tab] \in TabType
         /\ CallsLeft(c.tab, calls \ {c})
         /\ ScreenOK(K, c.tab, tab[c.tab], calls \ {c})
         /\ Live(c) <=> tab[c.tab].at # "dashboard" /\ c.mount = tab[c.tab].mount
<1>1. c.tab \in Tabs /\ c \in CallType
  BY DEF ScreensOK, CallType
<1>2. CallsLeft(c.tab, calls \ {c})
  BY FreedName DEF CallsLeft
<1>3. ScreenOK(K, c.tab, tab[c.tab], calls \ {c})
  BY <1>1, FewerCalls DEF ScreensOK
<1> QED BY <1>1, <1>2, <1>3 DEF ScreensOK, ScreenOK, Live

\* The lock was answered: fetch the campaign, or leave.
LEMMA AcquireScreen ==
  ASSUME NEW K \in SUBSET Ids, ScreensOK(K), NEW c \in calls, AcquireAnswered(c)
  PROVE  c.tab \in Tabs /\ ScreenStep(K, c.tab)
<1> DEFINE t  == c.tab
           cs == calls \ {c}
           m  == [tab[t] EXCEPT !.held = TRUE]
           d  == NewCall(cs, t, tab[t].mount, "fetch", "none", c.id, Blank)
<1>1. /\ t \in Tabs /\ c \in CallType /\ CallFine(K, c) /\ CallFits(c, tab[t])
      /\ TabFine(K, t, tab[t]) /\ tab[t] \in TabType
      /\ CallsLeft(t, cs) /\ ScreenOK(K, t, tab[t], cs)
      /\ tab[t].at # "dashboard" /\ c.mount = tab[t].mount /\ c.kind = "acquire"
  BY Handled DEF AcquireAnswered
<1>2. CASE ~c.ok
  <2>1. Unmount(t, tab[t], cs)
    BY <1>2 DEF AcquireAnswered
  <2> HIDE DEF t, cs, m, d
  <2>2. PICK r : r = tab[t]
    OBVIOUS
  <2>3. Unmount(t, r, cs) /\ TabFine(K, t, r) /\ r.mount = tab[t].mount
    BY <1>1, <2>1, <2>2 DEF Unmount
  <2>4. ScreenStep(K, t)
    BY <1>1, <2>3, UnmountStep
  <2> QED BY <1>1, <2>4 DEF t
<1>3. CASE c.ok
  <2>1. ~tab[t].fresh /\ c.id = tab[t].id /\ c.id \in K
    BY <1>1, EditorAssumption DEF CallFits, CallFine
  <2>2. TabFine(K, t, m)
    BY <1>1, <2>1, MarkedFine
  <2>3. m.mount = tab[t].mount /\ m.at = tab[t].at /\ m.fresh = tab[t].fresh /\ m.id = tab[t].id
    BY <1>1 DEF TabType
  <2>4. tab' = [tab EXCEPT ![t] = m] /\ calls' = cs \cup {d}
    BY <1>3 DEF AcquireAnswered, Send
  <2>5. Sendable(K, cs, d, t, tab[t].mount, "fetch", "none", c.id, Blank)
    <3>1. d = NewCall(cs, t, tab[t].mount, "fetch", "none", c.id, Blank)
      OBVIOUS
    <3> HIDE DEF d
    <3>2. PICK k \in 1 .. MaxCalls : \A e \in cs : e.tab = t => e.n # k
      BY <1>1 DEF CallsLeft
    <3>3. /\ c.id \in K \cup {NoId} /\ ("fetch" # "create" => c.id \in K)
          /\ "fetch" \in Kinds /\ "none" \in Nexts /\ Blank \in Values
             /\ tab[t].mount \in 0 .. MaxMounts
      BY <1>1, <2>1 DEF Kinds, Nexts, Blank, Values, TabType
    <3> HIDE DEF t, cs
    <3> QED BY <1>1, <3>1, <3>2, <3>3, NewCallType
  <2>6. t \in AdminTabs \/ (tab[t].at = "opening" /\ Boots(t, tab[t], cs) = {})
    <3>1. ScreenOK(K, t, tab[t], calls) /\ c \in Boots(t, tab[t], calls)
      BY <1>1 DEF ScreensOK, Boots
    <3> QED BY <3>1 DEF ScreenOK, Boots
  <2>7. Boots(t, m, cs) = Boots(t, tab[t], cs)
    BY <2>3 DEF Boots
  <2>8. cs \subseteq calls /\ \A e \in calls : e.tab # t => e \in cs
    OBVIOUS
  <2> HIDE DEF t, cs, m, d
  <2>9. ScreenOK(K, t, m, cs)
    BY <1>1, <2>2, <2>3, OtherScreen
  <2>10. CallFits(d, m) /\ CallFine(K, d) /\ d.tab = t /\ (\A e \in cs : e.tab = t => e.n # d.n)
    BY <1>1, <2>1, <2>3, <2>5, MountsAreNumbers DEF Sendable, CallFits
  <2>11. ScreenOK(K, t, m, cs \cup {d})
    BY <2>3, <2>6, <2>7, <2>9, <2>10, OneMoreCall
  <2>12. /\ \A e \in calls : e.tab # t => e \in calls'
         /\ \A e \in calls' : e \in calls \/ (e \in CallType /\ e.tab = t)
    BY <2>4, <2>8, <2>10 DEF CallFine
  <2>13. ScreenOK(K, t, m, calls') /\ tab[t].mount <= m.mount
    BY <1>1, <2>3, <2>4, <2>11, MountsAreNumbers
  <2>14. ScreenStep(K, t)
    BY <1>1, <2>4, <2>12, <2>13, SetScreen
  <2> QED BY <1>1, <2>14 DEF t
<1> QED BY <1>2, <1>3

\* The campaign was answered: its form is shown, or the editor is left.
LEMMA FetchScreen ==
  ASSUME NEW K \in SUBSET Ids, ScreensOK(K), NEW c \in calls, FetchAnswered(c)
  PROVE  c.tab \in Tabs /\ ScreenStep(K, c.tab)
<1> DEFINE t  == c.tab
           cs == calls \ {c}
           m  == [tab[t] EXCEPT !.at = "editing", !.id = c.id, !.status = c.status,
                                !.values = c.values, !.persisted = c.values]
<1>1. /\ t \in Tabs /\ c \in CallType /\ CallFine(K, c) /\ CallFits(c, tab[t])
      /\ TabFine(K, t, tab[t]) /\ tab[t] \in TabType
      /\ CallsLeft(t, cs) /\ ScreenOK(K, t, tab[t], cs)
      /\ tab[t].at # "dashboard" /\ c.mount = tab[t].mount /\ c.kind = "fetch"
  BY Handled DEF FetchAnswered
<1>2. CASE ~c.ok
  <2>1. Unmount(t, tab[t], cs)
    BY <1>2 DEF FetchAnswered
  <2> HIDE DEF t, cs, m
  <2>2. PICK r : r = tab[t]
    OBVIOUS
  <2>3. Unmount(t, r, cs) /\ TabFine(K, t, r) /\ r.mount = tab[t].mount
    BY <1>1, <2>1, <2>2 DEF Unmount
  <2>4. ScreenStep(K, t)
    BY <1>1, <2>3, UnmountStep
  <2> QED BY <1>1, <2>4 DEF t
<1>3. CASE c.ok
  <2>1. ~tab[t].fresh /\ c.id = tab[t].id /\ c.id \in K
    BY <1>1, EditorAssumption DEF CallFits, CallFine
  <2>2. m \in TabType
    BY <1>1 DEF TabType, CallType
  <2>3. m.mount = tab[t].mount /\ m.at = "editing" /\ m.fresh = tab[t].fresh
        /\ m.id = tab[t].id /\ TabFine(K, t, m)
    BY <1>1, <2>1, <2>2 DEF TabFine, TabType
  <2>4. tab' = [tab EXCEPT ![t] = m] /\ calls' = cs
    BY <1>3 DEF FetchAnswered
  <2>5. t \notin AdminTabs => Boots(t, m, cs) = {}
    <3>1. ScreenOK(K, t, tab[t], calls) /\ c \in Boots(t, tab[t], calls)
      BY <1>1 DEF ScreensOK, Boots
    <3>2. Boots(t, m, cs) \subseteq Boots(t, tab[t], calls) \ {c}
      BY <1>1, <2>3 DEF Boots
    <3> QED BY <3>1, <3>2 DEF ScreenOK
  <2> HIDE DEF t, cs, m
  <2>6. ScreenOK(K, t, m, cs)
    BY <1>1, <2>1, <2>3, <2>5 DEF ScreenOK, CallFits
  <2>7. ScreenStep(K, t)
    BY <1>1, <2>3, <2>4, <2>6, QuietStep
  <2> QED BY <1>1, <2>7 DEF t
<1> QED BY <1>2, <1>3

\* The screen after a save.
LEMMA AfterSaveFine ==
  ASSUME NEW K \in SUBSET Ids, NEW c \in CallType, CallFine(K, c), c.ok, 
         TabFine(K, c.tab, tab[c.tab]), CallFits(c, tab[c.tab]),
         tab[c.tab].at # "dashboard", c.mount = tab[c.tab].mount
  PROVE  LET r == tab[c.tab]
         IN  /\ TabFine(K, c.tab, AfterSave(c))
             /\ AfterSave(c).mount = r.mount /\ AfterSave(c).at = r.at
                /\ AfterSave(c).fresh = r.fresh
             /\ AfterSave(c).fresh \/ AfterSave(c).id = r.id
             /\ ~r.fresh => c.id = AfterSave(c).id
<1> DEFINE r == tab[c.tab]
           m == [r EXCEPT !.persisted = c.values, !.failed = FALSE, !.saving = FALSE, !.status = c.status]
           n == [m EXCEPT !.id = c.id, !.values = c.values]
<1>1. r \in TabType
  BY DEF TabFine
<1>2. m \in TabType
  BY <1>1 DEF TabType, CallType
<1>3. n \in TabType
  BY <1>2 DEF TabType, CallType
<1>4. AfterSave(c) = IF c.kind = "create" THEN n ELSE m
  BY DEF AfterSave
<1>5. CASE c.kind = "create"
  <2>1. r.fresh /\ c.id \in K
    BY <1>5 DEF CallFits, CallFine
  <2>2. /\ n.mount = r.mount /\ n.at = r.at /\ n.fresh = r.fresh /\ n.id = c.id /\ n.url = r.url
        /\ n.page = r.page /\ n.held = r.held /\ n.dialog = r.dialog /\ n.shell = r.shell
    BY <1>1 DEF TabType
  <2> HIDE DEF n, r
  <2>3. TabFine(K, c.tab, n)
    BY <1>3, <2>1, <2>2 DEF TabFine, r
  <2> QED BY <1>4, <1>5, <2>1, <2>2, <2>3 DEF r
<1>6. CASE c.kind # "create"
  <2>1. TabFine(K, c.tab, m) /\ m.mount = r.mount /\ m.at = r.at /\ m.fresh = r.fresh
        /\ m.id = r.id
    BY <1>1, <1>2 DEF TabFine, TabType
  <2>2. ~r.fresh => c.id = r.id
    BY DEF CallFits
  <2> QED BY <1>4, <1>6, <2>1, <2>2
<1> QED BY <1>5, <1>6

\* A draft was saved.
LEMMA SaveScreen ==
  ASSUME NEW K \in SUBSET Ids, ScreensOK(K), NEW c \in calls, SaveAnswered(c)
  PROVE  c.tab \in Tabs /\ ScreenStep(K, c.tab)
<1> DEFINE cs == calls \ {c}
<1>1. /\ c.tab \in Tabs /\ c \in CallType /\ CallFine(K, c) /\ CallFits(c, tab[c.tab])
      /\ TabFine(K, c.tab, tab[c.tab]) /\ tab[c.tab] \in TabType
      /\ CallsLeft(c.tab, cs) /\ ScreenOK(K, c.tab, tab[c.tab], cs)
      /\ tab[c.tab].at # "dashboard" /\ c.mount = tab[c.tab].mount /\ c.ok
      /\ c.kind \in {"create", "update"}
  BY Handled DEF SaveAnswered
<1>2. PICK m : m = AfterSave(c)
  OBVIOUS
<1>3. /\ TabFine(K, c.tab, m) /\ m.mount = tab[c.tab].mount /\ m.at = tab[c.tab].at
         /\ m.fresh = tab[c.tab].fresh
      /\ m.fresh \/ m.id = tab[c.tab].id
      /\ ~m.fresh => c.id = m.id
  BY <1>1, <1>2, AfterSaveFine
<1>4. ScreenOK(K, c.tab, m, cs)
  BY <1>1, <1>3, OtherScreen
<1>5. c.id \in K /\ c.next \in Nexts
  BY <1>1 DEF CallFine, CallType
<1>6. Continue(c.tab, c.next, m, c.id, cs)
  BY <1>2 DEF SaveAnswered, Continue, ReleaseAndLeave, Unmount, Send
<1> HIDE DEF cs
<1>7. ScreenStep(K, c.tab)
  BY <1>1, <1>3, <1>4, <1>5, <1>6, ContinueStep
<1> QED BY <1>1, <1>7

\* The screen after a save that failed.
LEMMA AfterFailureFine ==
  ASSUME NEW K \in SUBSET Ids, NEW c \in CallType,
         TabFine(K, c.tab, tab[c.tab]), tab[c.tab].at # "dashboard"
  PROVE  LET r == tab[c.tab]
         IN  /\ TabFine(K, c.tab, AfterFailure(c))
             /\ AfterFailure(c).mount = r.mount /\ AfterFailure(c).at = r.at
             /\ AfterFailure(c).fresh = r.fresh /\ AfterFailure(c).id = r.id
<1> DEFINE r == tab[c.tab]
           m == [r EXCEPT !.saving = FALSE]
           a == [m EXCEPT !.failed = @ \/ m.values = c.values]
           l == [m EXCEPT !.leaving = FALSE, !.dialog = TRUE]
           s == [m EXCEPT !.leaving = FALSE]
<1>1. r \in TabType
  BY DEF TabFine
<1>2. m \in TabType
  BY <1>1 DEF TabType
<1>3. a \in TabType /\ l \in TabType /\ s \in TabType
  BY ZenonT(30), <1>2 DEF TabType
<1>4. AfterFailure(c) \in {m, a, l, s}
  BY DEF AfterFailure
<1>5. /\ m.mount = r.mount /\ m.at = r.at /\ m.fresh = r.fresh /\ m.id = r.id
      /\ a.mount = r.mount /\ a.at = r.at /\ a.fresh = r.fresh /\ a.id = r.id
      /\ l.mount = r.mount /\ l.at = r.at /\ l.fresh = r.fresh /\ l.id = r.id
      /\ s.mount = r.mount /\ s.at = r.at /\ s.fresh = r.fresh /\ s.id = r.id
  BY <1>1 DEF TabType
<1>6. /\ m.url = r.url /\ m.page = r.page /\ m.held = r.held /\ m.dialog = r.dialog
         /\ m.shell = r.shell
      /\ a.url = r.url /\ a.page = r.page /\ a.held = r.held /\ a.dialog = r.dialog
         /\ a.shell = r.shell
      /\ l.url = r.url /\ l.page = r.page /\ l.held = r.held /\ l.shell = r.shell
      /\ s.url = r.url /\ s.page = r.page /\ s.held = r.held /\ s.dialog = r.dialog
         /\ s.shell = r.shell
  BY <1>1 DEF TabType
<1>7. TabFine(K, c.tab, r) /\ r.at # "dashboard"
  OBVIOUS
<1> HIDE DEF r, m, a, l, s
<1>8. TabFine(K, c.tab, m) /\ TabFine(K, c.tab, a)
  BY <1>2, <1>3, <1>5, <1>6, <1>7 DEF TabFine
<1>9. TabFine(K, c.tab, l) /\ TabFine(K, c.tab, s)
  BY <1>2, <1>3, <1>5, <1>6, <1>7 DEF TabFine
<1> QED BY <1>4, <1>5, <1>8, <1>9 DEF r

\* A draft was not saved.
LEMMA RefusedScreen ==
  ASSUME NEW K \in SUBSET Ids, ScreensOK(K), NEW c \in calls, SaveRefused(c)
  PROVE  c.tab \in Tabs /\ ScreenStep(K, c.tab)
<1> DEFINE cs == calls \ {c}
<1>1. /\ c.tab \in Tabs /\ c \in CallType
      /\ TabFine(K, c.tab, tab[c.tab])
      /\ CallsLeft(c.tab, cs) /\ ScreenOK(K, c.tab, tab[c.tab], cs)
      /\ tab[c.tab].at # "dashboard"
  BY Handled DEF SaveRefused
<1>2. PICK m : m = AfterFailure(c)
  OBVIOUS
<1>3. /\ TabFine(K, c.tab, m) /\ m.mount = tab[c.tab].mount /\ m.at = tab[c.tab].at
         /\ m.fresh = tab[c.tab].fresh
      /\ m.id = tab[c.tab].id
  BY <1>1, <1>2, AfterFailureFine
<1>4. ScreenOK(K, c.tab, m, cs)
  BY <1>1, <1>3, OtherScreen
<1>5. \/ ReleaseAndLeave(c.tab, m, cs)
      \/ tab' = [tab EXCEPT ![c.tab] = m] /\ calls' = cs
  BY <1>2 DEF SaveRefused, ReleaseAndLeave, Unmount, Send
<1> HIDE DEF cs
<1> QED BY <1>1, <1>3, <1>4, <1>5, LeaveStep, QuietStep

\* A submission, a purchase order or documents were answered.
LEMMA HandlerScreen ==
  ASSUME NEW K \in SUBSET Ids, ScreensOK(K), NEW c \in calls, HandlerAnswered(c)
  PROVE  c.tab \in Tabs /\ ScreenStep(K, c.tab)
<1> DEFINE cs == calls \ {c}
           m  == [tab[c.tab] EXCEPT !.values = c.values, !.persisted = c.values, !.status = c.status]
           s  == [m EXCEPT !.status = "submitted", !.id = c.id]
<1>1. /\ c.tab \in Tabs /\ c \in CallType /\ CallFine(K, c) /\ CallFits(c, tab[c.tab])
      /\ TabFine(K, c.tab, tab[c.tab]) /\ tab[c.tab] \in TabType
      /\ CallsLeft(c.tab, cs) /\ ScreenOK(K, c.tab, tab[c.tab], cs)
      /\ tab[c.tab].at # "dashboard" /\ c.mount = tab[c.tab].mount
      /\ c.kind \in {"submit", "po", "docs"}
  BY Handled DEF HandlerAnswered
<1>2. /\ m.mount = tab[c.tab].mount /\ m.at = tab[c.tab].at /\ m.fresh = tab[c.tab].fresh
         /\ m.id = tab[c.tab].id
      /\ TabFine(K, c.tab, m)
  BY <1>1, FormFine DEF TabType, CallType
<1>3. m \in TabType
  BY <1>2 DEF TabFine
<1>4. c.id \in K /\ (~tab[c.tab].fresh => c.id = tab[c.tab].id)
  BY <1>1 DEF CallFine, CallFits
<1>5. \/ ReleaseAndLeave(c.tab, s, cs)
      \/ tab' = [tab EXCEPT ![c.tab] = m] /\ calls' = cs
      \/ tab' = tab /\ calls' = cs
  BY DEF HandlerAnswered
<1> HIDE DEF cs, m
<1>6. s \in TabType
  BY <1>3, <1>4 DEF TabType
<1>7. /\ s.mount = m.mount /\ s.at = m.at /\ s.fresh = m.fresh /\ s.id = c.id /\ s.url = m.url
      /\ s.page = m.page /\ s.held = m.held /\ s.dialog = m.dialog /\ s.shell = m.shell
  BY <1>3 DEF TabType
<1> HIDE DEF s
<1>8. TabFine(K, c.tab, s)
  BY <1>1, <1>2, <1>4, <1>6, <1>7 DEF TabFine
<1>9. ScreenOK(K, c.tab, s, cs) /\ s.mount = tab[c.tab].mount
  BY <1>1, <1>2, <1>4, <1>7, <1>8, OtherScreen
<1>10. ScreenOK(K, c.tab, m, cs)
  BY <1>1, <1>2, OtherScreen
<1>11. ASSUME tab' = tab, calls' = cs
       PROVE  ScreenStep(K, c.tab)
  BY <1>1, <1>11, StillScreen DEF CallsLeft
<1> QED BY <1>1, <1>2, <1>5, <1>9, <1>10, <1>11, LeaveStep, QuietStep

\* The release was answered.
LEMMA ReleaseScreen ==
  ASSUME NEW K \in SUBSET Ids, ScreensOK(K), NEW c \in calls,
         ReleaseAnswered(c) \/ AnswerIgnored(c)
  PROVE  c.tab \in Tabs /\ ScreenStep(K, c.tab)
<1> DEFINE cs == calls \ {c}
<1>1. /\ c.tab \in Tabs /\ TabFine(K, c.tab, tab[c.tab])
      /\ CallsLeft(c.tab, cs) /\ ScreenOK(K, c.tab, tab[c.tab], cs)
  BY Handled
<1>2. Unmount(c.tab, tab[c.tab], cs) \/ (tab' = tab /\ calls' = cs)
  BY DEF ReleaseAnswered, AnswerIgnored
<1>3. PICK r : r = tab[c.tab]
  OBVIOUS
<1>4. Unmount(c.tab, r, cs) \/ (tab' = tab /\ calls' = cs)
  BY <1>2, <1>3 DEF Unmount
<1> HIDE DEF cs
<1>5. ASSUME tab' = tab, calls' = cs
      PROVE  ScreenStep(K, c.tab)
  BY <1>1, <1>5, StillScreen DEF CallsLeft
<1> QED BY <1>1, <1>3, <1>4, <1>5, UnmountStep

\* An answer that no mounted editor handles.
LEMMA OrphanScreen ==
  ASSUME NEW K \in SUBSET Ids, ScreensOK(K), NEW c \in calls, OrphanAnswered(c)
  PROVE  c.tab \in Tabs /\ ScreenStep(K, c.tab)
<1> DEFINE cs    == calls \ {c}
           saved == c.ok /\ c.kind \in {"create", "update"}
           d     == NewCall(cs, c.tab, c.mount, c.next, "none", c.id, Blank)
<1>1. /\ c.tab \in Tabs /\ c \in CallType /\ CallFine(K, c) /\ CallFits(c, tab[c.tab])
      /\ TabFine(K, c.tab, tab[c.tab])
      /\ CallsLeft(c.tab, cs) /\ ScreenOK(K, c.tab, tab[c.tab], cs)
      /\ ~(tab[c.tab].at # "dashboard" /\ c.mount = tab[c.tab].mount)
  BY Handled DEF OrphanAnswered, Orphan
<1>2. \/ saved /\ c.next \in {"submit", "po", "docs"} /\ tab' = tab /\ calls' = cs \cup {d}
      \/ Unmount(c.tab, tab[c.tab], cs)
      \/ tab' = tab /\ calls' = cs
  BY DEF OrphanAnswered, LateBack
<1>3. ASSUME saved, c.next \in {"submit", "po", "docs"}, tab' = tab, calls' = cs \cup {d}
      PROVE  ScreenStep(K, c.tab)
  <2>1. Sendable(K, cs, d, c.tab, c.mount, c.next, "none", c.id, Blank)
    <3>1. d = NewCall(cs, c.tab, c.mount, c.next, "none", c.id, Blank)
      OBVIOUS
    <3> HIDE DEF d
    <3>2. PICK k \in 1 .. MaxCalls : \A e \in cs : e.tab = c.tab => e.n # k
      BY <1>1 DEF CallsLeft
    <3>3. /\ c.id \in K \cup {NoId} /\ (c.next # "create" => c.id \in K)
          /\ c.next \in Kinds /\ "none" \in Nexts /\ Blank \in Values
             /\ c.mount \in 0 .. MaxMounts
      BY <1>1, <1>3 DEF Kinds, Nexts, Blank, Values, CallType, CallFine
    <3> HIDE DEF cs
    <3> QED BY <1>1, <3>1, <3>2, <3>3, NewCallType
  <2> HIDE DEF d, cs
  <2>2. /\ CallFine(K, d) /\ CallFits(d, tab[c.tab]) /\ d.tab = c.tab
        /\ d.kind \notin {"acquire", "fetch"}
        /\ \A e \in cs : e.tab = c.tab => e.n # d.n
    BY <1>1, <1>3, <2>1 DEF Sendable, CallFits
  <2>3. ScreenOK(K, c.tab, tab[c.tab], cs \cup {d})
    BY <1>1, <2>2, OneMoreCall
  <2>4. /\ \A e \in calls : e.tab # c.tab => e \in calls'
        /\ \A e \in calls' : e \in calls \/ (e \in CallType /\ e.tab = c.tab)
    BY <1>1, <1>3, <2>2 DEF CallsLeft, CallFine
  <2>5. ScreenOK(K, c.tab, tab[c.tab], calls')
    BY <1>3, <2>3
  <2> QED BY <1>1, <1>3, <2>4, <2>5, StillScreen
<1>4. PICK r : r = tab[c.tab]
  OBVIOUS
<1>5. Unmount(c.tab, tab[c.tab], cs) => Unmount(c.tab, r, cs)
  BY <1>4 DEF Unmount
<1> HIDE DEF cs, d
<1>6. ASSUME tab' = tab, calls' = cs
      PROVE  ScreenStep(K, c.tab)
  BY <1>1, <1>6, StillScreen DEF CallsLeft
<1> QED BY <1>1, <1>2, <1>3, <1>4, <1>5, <1>6, UnmountStep

-----------------------------------------------------------------------------
(* The tables, and the invariant.                                          *)

\* A step creates no campaign and changes no creator.
Kept ==
  \A i \in Ids : /\ store'[i].maker = store[i].maker
                 /\ store'[i].status = "absent" <=> store[i].status = "absent"

\* A step that leaves the server alone and at most enqueues a batch.
Quiet ==
  /\ store' = store /\ lock' = lock /\ faults' = faults
  /\ art' = art \/ \E t \in Tabs, i \in Ids : Enqueue(t, i)

\* Such a step keeps the tables in order.
LEMMA QuietTables ==
  ASSUME TablesOK, Quiet
  PROVE  TablesOK' /\ Kept
<1>1. CASE art' = art
  BY <1>1 DEF TablesOK, Quiet, Kept
<1>2. ASSUME NEW t \in Tabs, NEW i \in Ids, Enqueue(t, i)
      PROVE  TablesOK' /\ Kept
  <2>1. [st |-> "queued", id |-> i, tab |-> t] \in ArtType
    BY DEF ArtType
  <2>2. \A a \in Art : art'[a] = art[a] \/ art'[a] = [st |-> "queued", id |-> i, tab |-> t]
    BY <1>2 DEF Enqueue
  <2>3. art' \in [Art -> ArtType]
    BY <1>2, <2>1 DEF Enqueue, TablesOK
  <2> QED BY <2>2, <2>3 DEF TablesOK, Quiet, Kept
<1> QED BY <1>1, <1>2 DEF Quiet

\* What becomes of the batch when a draft is saved.
LEMMA SaveQuiet ==
  ASSUME NEW t \in Tabs, NEW next, NEW m, NEW K \in SUBSET Ids, TabFine(K, t, tab[t]),
         SaveDraft(t, next, m), UNCHANGED <<store, lock, faults>>
  PROVE  Quiet
<1>1. art' = art \/ (tab[t].id # NoId /\ Enqueue(t, tab[t].id))
  BY DEF SaveDraft, Continue
<1>2. CASE tab[t].id # NoId /\ Enqueue(t, tab[t].id)
  <2>1. PICK i \in Ids : i = tab[t].id
    BY <1>2 DEF TabFine
  <2>2. Enqueue(t, i)
    BY <1>2, <2>1 DEF Enqueue
  <2> QED BY <2>2 DEF Quiet
<1> QED BY <1>1, <1>2 DEF Quiet

\* The user and the timers.
LEMMA UserQuiet ==
  ASSUME ScreensOK(Used), NEW t \in Tabs,
         \/ Open(t) \/ Type(t) \/ BackToDashboard(t) \/ Dialog(t) \/ NavigateAway(t)
         \/ (\E next \in Handlers : Explicit(t, next)) \/ AutoSave(t) \/ ShellRenders(t)
  PROVE  Quiet
<1>1. Used \in SUBSET Ids /\ TabFine(Used, t, tab[t])
  BY DEF ScreensOK, ScreenOK, Used
<1>2. CASE Open(t) \/ Type(t) \/ NavigateAway(t) \/ ShellRenders(t)
  BY <1>2 DEF Open, Type, NavigateAway, ShellRenders, Quiet
<1>3. CASE BackToDashboard(t)
  <2>1. UNCHANGED <<store, lock, faults>>
    BY <1>3 DEF BackToDashboard
  <2>2. art' = art \/ \E m : SaveDraft(t, "leave", m)
    BY <1>3 DEF BackToDashboard
  <2> QED BY <1>1, <2>1, <2>2, SaveQuiet DEF Quiet
<1>4. CASE Dialog(t)
  <2>1. UNCHANGED <<store, lock, faults>>
    BY <1>4 DEF Dialog
  <2>2. art' = art \/ \E m : SaveDraft(t, "saveleave", m)
    BY <1>4 DEF Dialog
  <2> QED BY <1>1, <2>1, <2>2, SaveQuiet DEF Quiet
<1>5. CASE AutoSave(t) \/ \E next \in Handlers : Explicit(t, next)
  <2>1. UNCHANGED <<store, lock, faults>>
    BY <1>5 DEF AutoSave, Explicit
  <2>2. \E next : SaveDraft(t, next, tab[t])
    BY <1>5 DEF AutoSave, Explicit
  <2>3. PICK next, m : SaveDraft(t, next, m)
    BY <2>2
  <2> QED BY <1>1, <2>1, <2>3, SaveQuiet
<1> QED BY <1>2, <1>3, <1>4, <1>5

\* The handlers of answers.
LEMMA AnsweredQuiet ==
  ASSUME ScreensOK(Used), NEW c \in calls, Answered(c)
  PROVE  Quiet
<1>1. Used \in SUBSET Ids
  BY DEF Used
<1>2. c \in CallType /\ c.tab \in Tabs /\ CallFine(Used, c)
  BY <1>1, Handled
<1>3. CASE SaveAnswered(c)
  <2>1. c.id \in Ids
    BY <1>1, <1>2, <1>3 DEF SaveAnswered, CallFine
  <2>2. art' = art \/ Enqueue(c.tab, c.id)
    BY <1>3 DEF SaveAnswered, Continue
  <2>3. PICK t \in Tabs, i \in Ids : t = c.tab /\ i = c.id
    BY <1>2, <2>1
  <2>4. art' = art \/ Enqueue(t, i)
    BY <2>2, <2>3 DEF Enqueue
  <2> QED BY <1>3, <2>4 DEF Quiet, SaveAnswered
<1>4. CASE OrphanAnswered(c)
  <2>1. CASE c.ok /\ c.kind \in {"create", "update"}
    <3>1. c.id \in Ids
      BY <1>1, <1>2, <2>1 DEF CallFine
    <3>2. art' = art \/ Enqueue(c.tab, c.id)
      BY <1>4 DEF OrphanAnswered
    <3>3. PICK t \in Tabs, i \in Ids : t = c.tab /\ i = c.id
      BY <1>2, <3>1
    <3>4. art' = art \/ Enqueue(t, i)
      BY <3>2, <3>3 DEF Enqueue
    <3> QED BY <1>4, <3>4 DEF Quiet, OrphanAnswered
  <2>2. CASE ~(c.ok /\ c.kind \in {"create", "update"})
    BY <1>4, <2>2 DEF OrphanAnswered, Quiet
  <2> QED BY <2>1, <2>2
<1>5. CASE /\ ~SaveAnswered(c) /\ ~OrphanAnswered(c)
  BY <1>5 DEF Answered, AcquireAnswered, FetchAnswered, SaveRefused, HandlerAnswered,
     ReleaseAnswered,
              AnswerIgnored, Quiet
<1> QED BY <1>3, <1>4, <1>5

\* What the server does, short of a new campaign.
LEMMA ServeTables ==
  ASSUME TablesOK, ScreensOK(Used), NEW c \in calls,
         \/ ServeLock(c) \/ ServeRelease(c) \/ ServeRead(c)
         \/ ServeUpdate(c) \/ ServeSubmit(c) \/ CallFails(c)
  PROVE  TablesOK' /\ Kept
<1>1. c \in CallType /\ CallFine(Used, c) /\ UserOf[c.tab] \in Users
  BY Handled, EditorAssumption DEF Used
<1>2. CASE ServeLock(c) \/ ServeRelease(c) \/ ServeRead(c) \/ CallFails(c)
  <2>1. lock' \in [Ids -> Users \cup {Nobody}]
    BY <1>1, <1>2 DEF ServeLock, ServeRelease, ServeRead, CallFails, TablesOK
  <2>2. store' = store /\ art' = art
    BY <1>2 DEF ServeLock, ServeRelease, ServeRead, CallFails
  <2> QED BY <2>1, <2>2 DEF TablesOK, Kept
<1>3. CASE ServeUpdate(c)
  <2>1. c.id \in Ids /\ c.values \in Values /\ c.tab \in Tabs /\ lock' = lock /\ art' = art
    BY <1>1, <1>3 DEF ServeUpdate, CallFine, CallType, Used
  <2>2. CASE store' = store
    BY <2>1, <2>2 DEF TablesOK, Kept
  <2>3. CASE store' = [store EXCEPT ![c.id].values = c.values, ![c.id].by = c.tab]
    <3>1. store' \in [Ids -> StoreType]
      BY <2>1, <2>3 DEF TablesOK, StoreType
    <3>2. \A i \in Ids : store'[i].maker = store[i].maker /\ store'[i].status = store[i].status
      BY <2>1, <2>3 DEF TablesOK, StoreType
    <3> QED BY <2>1, <3>1, <3>2 DEF TablesOK, Kept
  <2> QED BY <1>3, <2>2, <2>3 DEF ServeUpdate
<1>4. CASE ServeSubmit(c)
  <2>1. c.id \in Ids /\ store[c.id].status # "absent" /\ lock' = lock /\ art' = art
    BY <1>1, <1>4 DEF ServeSubmit, CallFine, Used
  <2>2. CASE store' = store
    BY <2>1, <2>2 DEF TablesOK, Kept
  <2>3. CASE store' = [store EXCEPT ![c.id].status = "submitted"]
    <3>1. store' \in [Ids -> StoreType]
      BY <2>1, <2>3 DEF TablesOK, StoreType
    <3>2. \A i \in Ids : /\ store'[i].maker = store[i].maker
                         /\ store'[i].status = IF i = c.id THEN "submitted" ELSE store[i].status
      BY <2>1, <2>3 DEF TablesOK, StoreType
    <3> QED BY <2>1, <3>1, <3>2 DEF TablesOK, Kept
  <2> QED BY <1>4, <2>2, <2>3 DEF ServeSubmit
<1> QED BY <1>2, <1>3, <1>4

\* Stored artwork added to.
LEMMA ArtAdded ==
  ASSUME NEW r \in StoreType, NEW s \in SUBSET Art
  PROVE  [r EXCEPT !.values.art = s] \in StoreType
<1>1. [r.values EXCEPT !.art = s] \in Values
  BY DEF StoreType, Values
<1>2. [r EXCEPT !.values.art = s] = [r EXCEPT !.values = [r.values EXCEPT !.art = s]]
  OBVIOUS
<1> QED BY <1>1, <1>2 DEF StoreType

\* The queue, its batch, and the lock that runs out.
LEMMA QueueTables ==
  ASSUME TablesOK,
         \/ \E a \in Art : Worker(a) \/ RemoveQueued(a)
         \/ \E t \in Tabs : MergeBatch(t) \/ Refresh(t)
         \/ \E i \in Ids : LockExpires(i)
  PROVE  TablesOK' /\ Kept
<1>1. ASSUME NEW a \in Art, StartUpload(a) \/ RemoveQueued(a)
      PROVE  TablesOK' /\ Kept
  <2>1. PICK st \in {"uploading", "gone"} : art' = [art EXCEPT ![a].st = st]
        /\ art[a].st = "queued"
    BY <1>1 DEF StartUpload, RemoveQueued
  <2>2. art' \in [Art -> ArtType] /\ store' = store /\ lock' = lock
    BY <1>1, <2>1 DEF StartUpload, RemoveQueued, TablesOK, ArtType
  <2>3. \A b \in Art : art'[b].id = art[b].id /\ art'[b].tab = art[b].tab
                       /\ (art'[b].st = art[b].st \/ b = a)
    BY <2>1 DEF TablesOK, ArtType
  <2> QED BY <2>1, <2>2, <2>3 DEF TablesOK, Kept
<1>2. ASSUME NEW a \in Art, FinishUpload(a)
      PROVE  TablesOK' /\ Kept
  <2>1. art[a].id \in Ids /\ lock' = lock
    BY <1>2 DEF FinishUpload, TablesOK
  <2>2. PICK st \in {"completed", "error"} : art' = [art EXCEPT ![a].st = st]
    BY <1>2 DEF FinishUpload
  <2>3. art' \in [Art -> ArtType]
    BY <2>2 DEF TablesOK, ArtType
  <2>4. \A b \in Art : art'[b].id = art[b].id /\ art'[b].tab = art[b].tab
                       /\ (art'[b].st = art[b].st \/ art'[b].st \in {"completed", "error"})
    BY <2>2 DEF TablesOK, ArtType
  <2>5. CASE store' = store
    BY <2>1, <2>3, <2>4, <2>5 DEF TablesOK, Kept
  <2>6. CASE store' = [store EXCEPT ![art[a].id].values.art = @ \cup {a}]
    <3>1. store[art[a].id].values.art \cup {a} \in SUBSET Art
      BY <2>1 DEF TablesOK, StoreType, Values
    <3>2. store' \in [Ids -> StoreType]
      <4>1. PICK i \in Ids, s \in SUBSET Art : i = art[a].id /\ s = store[i].values.art \cup {a}
        BY <2>1, <3>1
      <4>2. store' = [store EXCEPT ![i].values.art = s]
        BY <2>6, <4>1
      <4>3. [store[i] EXCEPT !.values.art = s] \in StoreType
        BY ArtAdded DEF TablesOK
      <4> QED BY <4>2, <4>3 DEF TablesOK
    <3>3. \A i \in Ids : store'[i].maker = store[i].maker /\ store'[i].status = store[i].status
      BY <2>1, <2>6 DEF TablesOK, StoreType
    <3> QED BY <2>1, <2>3, <2>4, <3>2, <3>3 DEF TablesOK, Kept
  <2> QED BY <1>2, <2>5, <2>6 DEF FinishUpload
<1>3. ASSUME NEW t \in Tabs, MergeBatch(t) \/ Refresh(t)
      PROVE  TablesOK' /\ Kept
  <2>1. store' = store /\ lock' = lock
    BY <1>3 DEF MergeBatch, Refresh
  <2>2. \A a \in Art : art'[a] = art[a] \/ art'[a] = [art[a] EXCEPT !.st = "gone"]
    BY <1>3 DEF MergeBatch, Refresh
  <2>3. \A a \in Art : [art[a] EXCEPT !.st = "gone"] \in ArtType /\ [art[a] EXCEPT !.st = "gone"].st = "gone"
    BY DEF TablesOK, ArtType
  <2>4. art' = [a \in Art |-> art'[a]]
    BY <1>3 DEF MergeBatch, Refresh
  <2>5. art' \in [Art -> ArtType]
    BY <2>2, <2>3, <2>4 DEF TablesOK
  <2> QED BY <2>1, <2>2, <2>3, <2>5 DEF TablesOK, Kept
<1>4. ASSUME NEW i \in Ids, LockExpires(i)
      PROVE  TablesOK' /\ Kept
  BY <1>4 DEF LockExpires, TablesOK, Kept
<1> QED BY <1>1, <1>2, <1>3, <1>4 DEF Worker

\* Two calls that carry the form are remembered.
LEMMA NoteMarks ==
  ASSUME MarksOK, Note, NEW K \in SUBSET Ids, ScreensOK(K)', faults' \in 0 .. MaxFaults
  PROVE  MarksOK'
<1>1. taken' \subseteq Tabs /\ overlapped' \subseteq Tabs
  BY DEF MarksOK, Note
<1>2. ASSUME NEW t \in Tabs \ overlapped', NEW c \in FormCalls(calls', t),
             NEW d \in FormCalls(calls', t), c # d
      PROVE  FALSE
  <2> DEFINE S == FormCalls(calls', t)
  <2>1. ScreenOK(K, t, tab'[t], calls') /\ calls' \subseteq CallType
    BY DEF ScreensOK
  <2>2. IsFiniteSet({e \in calls' : e.tab = t})
    BY <2>1, CallsFinite
  <2>3. S \subseteq {e \in calls' : e.tab = t}
    BY DEF FormCalls
  <2>4. IsFiniteSet(S)
    BY <2>2, <2>3, FS_Subset
  <2>5. {c, d} \subseteq S /\ IsFiniteSet({c, d}) /\ Cardinality({c, d}) = 2
    <3>1. IsFiniteSet({c}) /\ Cardinality({c}) = 1
      BY FS_Singleton
    <3>2. {c, d} = {c} \cup {d} /\ d \notin {c}
      BY <1>2
    <3>3. IsFiniteSet({c} \cup {d}) /\ Cardinality({c} \cup {d}) = 1 + 1
      BY <3>1, <3>2, FS_AddElement
    <3> QED BY <3>2, <3>3
  <2>6. Cardinality({c, d}) <= Cardinality(S) /\ Cardinality(S) \in Nat
    BY <2>4, <2>5, FS_Subset, FS_CardinalityType
  <2>7. Cardinality(S) > 1
    BY <2>5, <2>6
  <2> QED BY <2>7 DEF Note
<1> QED BY <1>1, <1>2 DEF MarksOK

\* A step that creates no campaign, and leaves the tables and every tab in order.
LEMMA CalmStep ==
  ASSUME EditorInv, Note, NEW K \in SUBSET Ids, K = Used,
         (tab' = tab /\ calls' = calls) \/ \E t \in Tabs : ScreenStep(K, t),
         TablesOK', Kept, faults' \in 0 .. MaxFaults
  PROVE  EditorInv'
<1>1. ScreensOK(K) /\ TablesOK /\ MarksOK /\ MakersOK
  BY DEF EditorInv
<1>2. \A t \in Tabs : tab[t].mount <= tab[t].mount /\ tab[t].mount \in Nat
  BY <1>1, MountsAreNumbers
<1>3. ScreensOK(K)' /\ \A t \in Tabs : tab[t].mount <= tab'[t].mount
  <2>1. CASE tab' = tab /\ calls' = calls
    BY <1>1, <1>2, <2>1 DEF ScreensOK
  <2>2. CASE \E t \in Tabs : ScreenStep(K, t)
    BY <1>1, <2>2, ScreenSteps
  <2> QED BY <2>1, <2>2
<1>4. Used' = K
  BY DEF Kept, Used
<1>5. ScreensOK(Used)'
  BY <1>3, <1>4
<1>6. MakersOK'
  <2>1. SUFFICES ASSUME NEW i \in Ids, NEW t \in Tabs, store'[i].maker[1] = t
                 PROVE  store'[i].maker[2] <= tab'[t].mount
    BY DEF MakersOK
  <2>2. store[i].maker[2] <= tab[t].mount /\ store'[i].maker = store[i].maker
    BY <1>1, <2>1 DEF MakersOK, Kept
  <2>3. store[i].maker[2] \in Nat /\ tab[t].mount \in Nat /\ tab'[t].mount \in Nat
    BY <1>1, <1>3, Bounds DEF TablesOK, StoreType, ScreensOK, TabType
  <2> QED BY <1>3, <2>2, <2>3
<1>7. MarksOK'
  BY <1>1, <1>3, NoteMarks
<1> QED BY <1>5, <1>6, <1>7 DEF EditorInv

\* A new campaign.
LEMMA CreateStep ==
  ASSUME EditorInv, Note, NEW c \in calls, ServeCreate(c)
  PROVE  EditorInv'
<1>1. ScreensOK(Used) /\ TablesOK /\ MarksOK /\ MakersOK
  BY DEF EditorInv
<1>2. PICK i \in Ids :
           /\ store[i].status = "absent" /\ c.tab \in Tabs
           /\ store' = [store EXCEPT ![i] = [status |-> "in_progress", values |-> c.values,
                                             by |-> c.tab, maker |-> <<c.tab, c.mount>>]]
           /\ \A K \in SUBSET Ids : K = Used \cup {i} => ScreensOK(K) /\ ScreenStep(K, c.tab)
  BY <1>1, CreateMoves
<1>3. PICK K \in SUBSET Ids : K = Used \cup {i}
  BY DEF Used
<1>4. ScreensOK(K) /\ ScreenStep(K, c.tab)
  BY <1>2, <1>3
<1>5. ScreensOK(K)'
  BY <1>2, <1>4, ScreenSteps
<1>6. lock' = lock /\ tab' = tab /\ art' = art /\ faults' = faults
  BY DEF ServeCreate
<1>7. c.values \in Values /\ c.mount \in 0 .. MaxMounts
  BY <1>1 DEF ScreensOK, CallType
<1>8. PICK r : r = [status |-> "in_progress", values |-> c.values, by |-> c.tab, maker |-> <<c.tab, c.mount>>]
  OBVIOUS
<1>9. r \in StoreType /\ r.status = "in_progress" /\ r.maker[1] = c.tab /\ r.maker[2] = c.mount
  BY <1>2, <1>7, <1>8 DEF StoreType
<1>10. store' \in [Ids -> StoreType] /\ store'[i] = r /\ \A j \in Ids \ {i} : store'[j] = store[j]
  BY <1>1, <1>2, <1>8, <1>9 DEF TablesOK
<1>11. Used' = K
  BY <1>3, <1>9, <1>10 DEF Used
<1>12. TablesOK'
  BY <1>1, <1>6, <1>10 DEF TablesOK
<1>13. MakersOK'
  <2>1. c.mount <= tab[c.tab].mount
    BY <1>1, <1>2 DEF ScreensOK, ScreenOK, CallFits
  <2> QED BY <1>1, <1>6, <1>9, <1>10, <2>1 DEF MakersOK
<1>14. MarksOK'
  BY <1>1, <1>5, <1>6, NoteMarks DEF MarksOK
<1> QED BY <1>5, <1>11, <1>12, <1>13, <1>14 DEF EditorInv

\* Every step of the system keeps the invariant.
LEMMA EditorNext ==
  ASSUME EditorInv, Next
  PROVE  EditorInv'
<1>1. Note
  BY DEF Next
<1>2. PICK K \in SUBSET Ids : K = Used
  BY DEF Used
<1>3. ScreensOK(K) /\ ScreensOK(Used) /\ TablesOK /\ faults \in 0 .. MaxFaults
  BY <1>2 DEF EditorInv, MarksOK
<1>4. ASSUME NEW t \in Tabs,
             \/ Open(t) \/ Type(t) \/ BackToDashboard(t) \/ Dialog(t) \/ NavigateAway(t)
             \/ (\E next \in Handlers : Explicit(t, next)) \/ AutoSave(t) \/ ShellRenders(t)
      PROVE  EditorInv'
  <2>1. ScreenStep(K, t)
    BY <1>2, <1>3, <1>4, OpenScreen, TypeScreen, BackScreen, DialogScreen, NavigateScreen,
       SavingScreen, ShellScreen
  <2>2. Quiet
    BY <1>3, <1>4, UserQuiet
  <2>3. TablesOK' /\ Kept /\ faults' \in 0 .. MaxFaults
    BY <1>3, <2>2, QuietTables DEF Quiet
  <2> QED BY <1>1, <1>2, <2>1, <2>3, CalmStep
<1>5. ASSUME NEW t \in Tabs, Refresh(t) \/ MergeBatch(t)
      PROVE  EditorInv'
  <2>1. ScreenStep(K, t)
    BY <1>3, <1>5, RefreshScreen, MergeScreen
  <2>2. TablesOK' /\ Kept
    BY <1>3, <1>5, QueueTables
  <2>3. faults' \in 0 .. MaxFaults
    BY <1>3, <1>5 DEF Refresh, MergeBatch
  <2> QED BY <1>1, <1>2, <2>1, <2>2, <2>3, CalmStep
<1>6. ASSUME NEW c \in calls, Answered(c)
      PROVE  EditorInv'
  <2>1. c.tab \in Tabs /\ ScreenStep(K, c.tab)
    BY <1>3, <1>6, AcquireScreen, FetchScreen, SaveScreen, RefusedScreen, HandlerScreen,
       ReleaseScreen, OrphanScreen
       DEF Answered
  <2>2. Quiet
    BY <1>3, <1>6, AnsweredQuiet
  <2>3. TablesOK' /\ Kept /\ faults' \in 0 .. MaxFaults
    BY <1>3, <2>2, QuietTables DEF Quiet
  <2> QED BY <1>1, <1>2, <2>1, <2>3, CalmStep
<1>7. ASSUME NEW c \in calls,
             \/ ServeLock(c) \/ ServeRelease(c) \/ ServeRead(c)
             \/ ServeUpdate(c) \/ ServeSubmit(c) \/ CallFails(c)
      PROVE  EditorInv'
  <2>1. c.tab \in Tabs /\ ScreenStep(K, c.tab)
    BY <1>2, <1>3, <1>7, LockMoves, ReadMoves, ServerMoves
  <2>2. TablesOK' /\ Kept
    BY <1>3, <1>7, ServeTables
  <2>3. faults' \in 0 .. MaxFaults
    <3>1. CASE CallFails(c)
      <4>1. faults < MaxFaults /\ faults' = faults + 1
        BY <3>1 DEF CallFails
      <4> QED BY <1>3, <4>1, Bounds
    <3>2. CASE ~CallFails(c)
      BY <1>3, <1>7, <3>2 DEF ServeLock, ServeRelease, ServeRead, ServeUpdate, ServeSubmit
    <3> QED BY <3>1, <3>2
  <2> QED BY <1>1, <1>2, <2>1, <2>2, <2>3, CalmStep
<1>8. ASSUME NEW c \in calls, ServeCreate(c)
      PROVE  EditorInv'
  BY <1>1, <1>8, CreateStep
<1>9. ASSUME \/ \E a \in Art : Worker(a) \/ RemoveQueued(a)
             \/ \E i \in Ids : LockExpires(i)
      PROVE  EditorInv'
  <2>1. TablesOK' /\ Kept
    BY <1>3, <1>9, QueueTables
  <2>2. tab' = tab /\ calls' = calls /\ faults' = faults
    BY <1>9 DEF Worker, StartUpload, FinishUpload, RemoveQueued, LockExpires
  <2> QED BY <1>1, <1>2, <1>3, <2>1, <2>2, CalmStep
<1> QED BY <1>4, <1>5, <1>6, <1>7, <1>8, <1>9 DEF Next, User, Serve

\* Nothing is under way at the start.
LEMMA EditorInit ==
  ASSUME Init
  PROVE  EditorInv
<1>1. ScreensOK(Used)
  <2>1. TabFine(Used, "", Closed)
    BY ClosedType, EditorAssumption DEF TabFine, Closed, TabType
  <2>2. \A t \in Tabs : TabFine(Used, t, Closed)
    BY <2>1 DEF TabFine, Closed
  <2> QED BY <2>2, ClosedType DEF Init, ScreensOK, ScreenOK, Boots
<1>2. TablesOK
  <2>1. \A i \in Ids : [status |-> IF i \in Existing THEN "in_progress" ELSE "absent",
                        values |-> Blank, by |-> Nobody, maker |-> <<Nobody, 0>>] \in StoreType
    BY Bounds DEF StoreType, Blank, Values
  <2>2. [st |-> "idle", id |-> NoId, tab |-> Nobody] \in ArtType
    BY DEF ArtType
  <2> QED BY <2>1, <2>2 DEF Init, TablesOK
<1>3. MarksOK
  BY Bounds DEF Init, MarksOK, FormCalls
<1>4. MakersOK
  BY EditorAssumption DEF Init, MakersOK
<1> QED BY <1>1, <1>2, <1>3, <1>4 DEF EditorInv

\* The invariant holds in every reachable state.
LEMMA EditorAlways == Spec => []EditorInv
<1>1. EditorInv /\ UNCHANGED vars => EditorInv'
  BY DEF vars, EditorInv, ScreensOK, TablesOK, MarksOK, MakersOK, Used
<1> QED BY <1>1, EditorInit, EditorNext, PTL DEF Spec

-----------------------------------------------------------------------------
(* Types.                                                                  *)

\* Screens, calls, campaigns, locks and the queue are always what their types
\* say, which includes that a call to be sent has a name, that what is fetched,
\* written and submitted exists, and that an editor knows its campaign.
THEOREM EditorTyped == Spec => []TypeOK
<1>1. EditorInv => TypeOK
  BY DEF EditorInv, ScreensOK, TablesOK, MarksOK, TypeOK, TabType, StoreType, ArtType
<1> QED BY <1>1, EditorAlways, PTL

-----------------------------------------------------------------------------
(* What is known in every state of a step.                                 *)

\* The parts of the invariant, for one tab and for one call.
LEMMA InvOfTab ==
  ASSUME EditorInv, NEW t \in Tabs
  PROVE  /\ tab \in [Tabs -> TabType] /\ tab[t] \in TabType /\ TabFine(Used, t, tab[t])
         /\ ScreenOK(Used, t, tab[t], calls)
BY DEF EditorInv, ScreensOK, ScreenOK

\* A call, and the campaign it is about.
LEMMA InvOfCall ==
  ASSUME EditorInv, NEW c \in calls
  PROVE  /\ c \in CallType /\ c.tab \in Tabs /\ CallFine(Used, c) /\ CallFits(c, tab[c.tab])
         /\ c.kind # "create" => c.id \in Ids /\ store[c.id].status # "absent"
<1>1. c \in CallType /\ c.tab \in Tabs
  BY DEF EditorInv, ScreensOK, CallType
<1>2. CallFine(Used, c) /\ CallFits(c, tab[c.tab])
  BY <1>1, InvOfTab DEF ScreenOK
<1> QED BY <1>1, <1>2 DEF CallFine, Used

\* Only five steps change what is stored.
LEMMA StoreSteps ==
  ASSUME Next
  PROVE  \/ store' = store
         \/ \E c \in calls : ServeCreate(c) \/ ServeUpdate(c) \/ ServeSubmit(c)
         \/ \E a \in Art : FinishUpload(a)
<1>1. ASSUME NEW t \in Tabs, User(t) \/ AutoSave(t) \/ ShellRenders(t) \/ MergeBatch(t)
      PROVE  store' = store
  BY <1>1 DEF User, Open, Refresh, Type, BackToDashboard, Dialog, NavigateAway, Explicit,
     AutoSave,
              ShellRenders, MergeBatch
<1>2. ASSUME NEW c \in calls,
             Answered(c) \/ CallFails(c) \/ ServeLock(c) \/ ServeRelease(c) \/ ServeRead(c)
      PROVE  store' = store
  BY <1>2 DEF Answered, AcquireAnswered, FetchAnswered, SaveAnswered, SaveRefused,
     HandlerAnswered,
              ReleaseAnswered, OrphanAnswered, AnswerIgnored, CallFails, ServeLock, ServeRelease, ServeRead
<1>3. ASSUME NEW a \in Art, StartUpload(a) \/ RemoveQueued(a)
      PROVE  store' = store
  BY <1>3 DEF StartUpload, RemoveQueued
<1>4. ASSUME NEW i \in Ids, LockExpires(i)
      PROVE  store' = store
  BY <1>4 DEF LockExpires
<1> QED BY <1>1, <1>2, <1>3, <1>4 DEF Next, Serve, Worker

\* The stored form of a submitted campaign: creations are of absent campaigns,
\* saves and appends look at the status in the same transaction as they write,
\* and a submission writes the status alone.
LEMMA SubmittedStep ==
  ASSUME EditorInv, Next, NEW i \in Ids, store[i].status = "submitted"
  PROVE  store'[i].status = "submitted" /\ store'[i].values = store[i].values
<1>1. store \in [Ids -> StoreType] /\ art \in [Art -> ArtType]
  BY DEF EditorInv, TablesOK
<1>2. ASSUME NEW c \in calls, ServeCreate(c)
      PROVE  store'[i] = store[i]
  BY <1>1, <1>2 DEF ServeCreate
<1>3. ASSUME NEW c \in calls, ServeUpdate(c)
      PROVE  store'[i] = store[i]
  BY <1>1, <1>3 DEF ServeUpdate
<1>4. ASSUME NEW c \in calls, ServeSubmit(c)
      PROVE  store'[i].status = "submitted" /\ store'[i].values = store[i].values
  BY <1>1, <1>4 DEF ServeSubmit, StoreType
<1>5. ASSUME NEW a \in Art, FinishUpload(a)
      PROVE  store'[i] = store[i]
  BY <1>1, <1>5 DEF FinishUpload
<1> QED BY <1>2, <1>3, <1>4, <1>5, StoreSteps

-----------------------------------------------------------------------------
(* Editors with unsaved edits.                                             *)

\* Unmounting looks at the lock, the campaign and the counters of the screen alone.
LEMMA SameUnmount ==
  ASSUME NEW t, NEW m, NEW r, NEW cs, Unmount(t, m, cs),
         m.held = r.held, m.id = r.id, m.mount = r.mount, m.page = r.page, m.typed = r.typed
  PROVE  Unmount(t, r, cs)
BY DEF Unmount

\* A draft with unsaved changes is sent, and the screen stays.
LEMMA SaveStays ==
  ASSUME EditorInv, NEW t \in Tabs, HasUnsavedChanges(t), NEW next, NEW m \in TabType,
         m.at = tab[t].at,
         SaveDraft(t, next, m)
  PROVE  tab'[t].at = "editing"
<1>1. tab' = [tab EXCEPT ![t] = [m EXCEPT !.saving = TRUE]]
  BY DEF SaveDraft
<1>2. [m EXCEPT !.saving = TRUE].at = "editing"
  BY DEF TabType, HasUnsavedChanges
<1>3. tab'[t] = [m EXCEPT !.saving = TRUE]
  BY <1>1, InvOfTab
<1> QED BY <1>2, <1>3

\* The handlers that leave without saving do what navigation does, or wait for
\* the release of the lock.
LEMMA LeaveIsNavigation ==
  ASSUME EditorInv, NEW t \in Tabs, HasUnsavedChanges(t), NEW m \in TabType,
         ReleaseAndLeave(t, m, calls), HasRoom(t), UNCHANGED <<store, lock, art, faults>>,
         m.held = tab[t].held, m.id = tab[t].id, m.mount = tab[t].mount, m.page = tab[t].page,
         m.typed = tab[t].typed, m.at = tab[t].at
  PROVE  tab'[t].at = "editing" \/ NavigateAway(t)
<1>1. CASE m.held /\ m.id # NoId
  <2>1. tab' = [tab EXCEPT ![t] = [m EXCEPT !.held = FALSE]]
    BY <1>1 DEF ReleaseAndLeave
  <2>2. [m EXCEPT !.held = FALSE].at = "editing"
    BY DEF TabType, HasUnsavedChanges
  <2>3. tab'[t] = [m EXCEPT !.held = FALSE]
    BY <2>1, InvOfTab
  <2> QED BY <2>2, <2>3
<1>2. CASE ~(m.held /\ m.id # NoId)
  <2>1. Unmount(t, m, calls)
    BY <1>2 DEF ReleaseAndLeave
  <2>2. PICK r : r = tab[t]
    OBVIOUS
  <2>3. Unmount(t, r, calls)
    BY <2>1, <2>2, SameUnmount
  <2>4. Unmount(t, tab[t], calls)
    BY <2>2, <2>3
  <2> QED BY <2>4 DEF NavigateAway, HasUnsavedChanges
<1> QED BY <1>1, <1>2

\* What the user and the timers close.
LEMMA UserCloses ==
  ASSUME EditorInv, NEW t \in Tabs, HasUnsavedChanges(t),
         User(t) \/ AutoSave(t) \/ ShellRenders(t) \/ MergeBatch(t)
  PROVE  tab'[t].at # "dashboard" \/ NavigateAway(t)
<1> DEFINE r == tab[t]
           l == [tab[t] EXCEPT !.leaving = TRUE]
<1>1. tab \in [Tabs -> TabType] /\ r \in TabType /\ r.at = "editing"
  BY InvOfTab DEF HasUnsavedChanges
<1>2. /\ l \in TabType /\ l.at = r.at /\ l.held = r.held /\ l.id = r.id /\ l.mount = r.mount
      /\ l.page = r.page /\ l.typed = r.typed
  BY <1>1 DEF TabType
<1>3. CASE Open(t) \/ NavigateAway(t)
  BY <1>1, <1>3 DEF Open
<1>4. CASE Refresh(t)
  <2>1. tab'[t] = [Boot(t, r.mount + 1, r.url, r.fresh) EXCEPT !.page = r.mount + 1]
    BY <1>1, <1>4 DEF Refresh, Bootstrap
  <2> QED BY <2>1 DEF Boot, Closed
<1>5. CASE Type(t)
  BY <1>1, <1>5 DEF Type, TabType
<1>6. CASE AutoSave(t) \/ \E next \in Handlers : Explicit(t, next)
  <2>1. \E next : SaveDraft(t, next, r)
    BY <1>6 DEF AutoSave, Explicit
  <2> QED BY <1>1, <2>1, SaveStays
<1>7. CASE ShellRenders(t)
  <2>1. tab'[t] = IF r.fresh
                  THEN [Boot(t, r.mount, NoId, TRUE)
                          EXCEPT !.held = r.held, !.first = r.first, !.shell = FALSE]
                  ELSE [r EXCEPT !.shell = FALSE]
    BY <1>1, <1>7 DEF ShellRenders, Bootstrap
  <2>2. [r EXCEPT !.shell = FALSE].at = "editing"
    BY <1>1 DEF TabType
  <2>3. [Boot(t, r.mount, NoId, TRUE) EXCEPT !.held = r.held, !.first = r.first, !.shell = FALSE].at = "editing"
    BY DEF Boot, Closed
  <2> QED BY <2>1, <2>2, <2>3
<1>8. CASE MergeBatch(t)
  <2>1. PICK done : tab' = [tab EXCEPT ![t] = [tab[t] EXCEPT !.values.art = @ \cup done,
                                                             !.persisted.art = @ \cup done]]
    BY <1>8 DEF MergeBatch
  <2>2. tab'[t] = [r EXCEPT !.values.art = @ \cup done, !.persisted.art = @ \cup done]
    BY <1>1, <2>1
  <2>3. [r EXCEPT !.values.art = @ \cup done, !.persisted.art = @ \cup done].at = "editing"
    BY <1>1 DEF TabType
  <2> QED BY <2>2, <2>3
<1>9. CASE BackToDashboard(t)
  <2>1. HasRoom(t) /\ UNCHANGED <<store, lock, faults>>
    BY <1>9 DEF BackToDashboard
  <2>2. \/ tab' = [tab EXCEPT ![t] = l]
        \/ ReleaseAndLeave(t, l, calls) /\ UNCHANGED art
        \/ SaveDraft(t, "leave", l)
    BY <1>9 DEF BackToDashboard
  <2> HIDE DEF l
  <2>3. CASE tab' = [tab EXCEPT ![t] = l]
    BY <1>1, <1>2, <2>3
  <2>4. CASE ReleaseAndLeave(t, l, calls) /\ UNCHANGED art
    BY <1>1, <1>2, <2>1, <2>4, LeaveIsNavigation
  <2>5. CASE SaveDraft(t, "leave", l)
    BY <1>2, <2>5, SaveStays
  <2> QED BY <2>2, <2>3, <2>4, <2>5
<1>10. CASE Dialog(t)
  <2> DEFINE d == [l EXCEPT !.dialog = FALSE]
  <2>1. HasRoom(t) /\ UNCHANGED <<store, lock, faults>>
    BY <1>10 DEF Dialog
  <2>2. \/ SaveDraft(t, "saveleave", l)
        \/ ReleaseAndLeave(t, d, calls) /\ UNCHANGED art
        \/ tab' = [tab EXCEPT ![t].dialog = FALSE]
    BY <1>10 DEF Dialog
  <2> HIDE DEF l
  <2>3. /\ d \in TabType /\ d.at = r.at /\ d.held = r.held /\ d.id = r.id /\ d.mount = r.mount
        /\ d.page = r.page /\ d.typed = r.typed
    BY <1>2 DEF TabType
  <2> HIDE DEF d
  <2>4. CASE SaveDraft(t, "saveleave", l)
    BY <1>2, <2>4, SaveStays
  <2>5. CASE ReleaseAndLeave(t, d, calls) /\ UNCHANGED art
    BY <1>1, <2>1, <2>3, <2>5, LeaveIsNavigation
  <2>6. CASE tab' = [tab EXCEPT ![t].dialog = FALSE]
    BY <1>1, <2>6 DEF TabType
  <2> QED BY <2>2, <2>4, <2>5, <2>6
<1> QED BY <1>3, <1>4, <1>5, <1>6, <1>7, <1>8, <1>9, <1>10 DEF User

\* What an answer handled by the mounted editor closes, and what a late one does.
LEMMA AnswerCloses ==
  ASSUME EditorInv, NEW c \in calls, Answered(c), NEW t \in Tabs, t = c.tab,
         HasUnsavedChanges(t), tab'[t].at = "dashboard"
  PROVE  \/ t \in AdminTabs \/ Orphan(c) \/ (c.kind = "submit" /\ c.ok)
         \/ c.next \in {"leave", "saveleave", "artleave"}
<1> DEFINE r == tab[t]
<1>1. tab \in [Tabs -> TabType] /\ r \in TabType /\ r.at = "editing"
  BY InvOfTab DEF HasUnsavedChanges
<1>2. CASE Live(c) /\ c.kind \in {"acquire", "fetch"}
  <2>1. c \in Boots(t, r, calls)
    BY <1>2 DEF Live, Boots
  <2>2. t \notin AdminTabs => r.at = "opening"
    BY <2>1, InvOfTab DEF ScreenOK
  <2> QED BY <1>1, <2>2
<1>3. CASE SaveAnswered(c) /\ c.next \notin {"leave", "saveleave", "artleave"}
  <2>1. tab' = [tab EXCEPT ![t] = AfterSave(c)]
    BY <1>3 DEF SaveAnswered, Continue
  <2>2. AfterSave(c).at = "editing"
    BY <1>1 DEF AfterSave, TabType
  <2> QED BY <1>1, <2>1, <2>2
<1>4. CASE SaveRefused(c) /\ c.next # "artleave"
  <2>1. tab' = [tab EXCEPT ![t] = AfterFailure(c)]
    BY <1>4 DEF SaveRefused
  <2>2. AfterFailure(c).at = "editing"
    BY <1>1 DEF AfterFailure, TabType
  <2> QED BY <1>1, <2>1, <2>2
<1>5. CASE HandlerAnswered(c) /\ ~(c.ok /\ c.kind = "submit")
  <2> DEFINE m == [r EXCEPT !.values = c.values, !.persisted = c.values, !.status = c.status]
  <2>1. tab' = tab \/ tab' = [tab EXCEPT ![t] = m]
    BY <1>5 DEF HandlerAnswered
  <2>2. m.at = "editing"
    BY <1>1 DEF TabType
  <2> QED BY <1>1, <2>1, <2>2
<1>6. CASE ReleaseAnswered(c) /\ c.next # "leave"
  BY <1>1, <1>6 DEF ReleaseAnswered
<1>7. CASE OrphanAnswered(c)
  BY <1>7 DEF OrphanAnswered
<1>8. CASE AnswerIgnored(c)
  BY <1>1, <1>8 DEF AnswerIgnored
<1> QED BY <1>2, <1>3, <1>4, <1>5, <1>6, <1>7, <1>8
        DEF Answered, AcquireAnswered, FetchAnswered, SaveAnswered, SaveRefused, HandlerAnswered,
            ReleaseAnswered

\* The steps of others leave the screen of t alone.
LEMMA OthersStay ==
  ASSUME EditorInv, NEW t \in Tabs,
         \/ \E s \in Tabs \ {t} : User(s) \/ AutoSave(s) \/ ShellRenders(s) \/ MergeBatch(s)
         \/ \E c \in calls : c.tab # t /\ Answered(c)
         \/ \E c \in calls : Serve(c) \/ CallFails(c)
         \/ \E i \in Ids : LockExpires(i)
         \/ \E a \in Art : Worker(a) \/ RemoveQueued(a)
  PROVE  tab'[t] = tab[t]
<1>1. PICK K \in SUBSET Ids : K = Used
  BY DEF Used
<1>2. ScreensOK(K) /\ ScreensOK(Used)
  BY <1>1 DEF EditorInv
<1>3. ASSUME NEW s \in Tabs, s # t, User(s) \/ AutoSave(s) \/ ShellRenders(s) \/ MergeBatch(s)
      PROVE  tab'[t] = tab[t]
  <2>1. ScreenStep(K, s)
    BY <1>1, <1>2, <1>3, OpenScreen, RefreshScreen, TypeScreen, MergeScreen, BackScreen,
       DialogScreen, NavigateScreen, SavingScreen, ShellScreen DEF User
  <2> QED BY <1>3, <2>1 DEF ScreenStep
<1>4. ASSUME NEW c \in calls, c.tab # t, Answered(c)
      PROVE  tab'[t] = tab[t]
  <2>1. c.tab \in Tabs /\ ScreenStep(K, c.tab)
    BY <1>2, <1>4, AcquireScreen, FetchScreen, SaveScreen, RefusedScreen, HandlerScreen,
       ReleaseScreen, OrphanScreen DEF Answered
  <2> QED BY <1>4, <2>1 DEF ScreenStep
<1>5. ASSUME NEW c \in calls, Serve(c) \/ CallFails(c)
      PROVE  tab'[t] = tab[t]
  BY <1>5 DEF Serve, ServeLock, ServeRelease, ServeRead, ServeCreate, ServeUpdate,
     ServeSubmit, CallFails
<1>6. ASSUME NEW a \in Art, Worker(a) \/ RemoveQueued(a)
      PROVE  tab'[t] = tab[t]
  BY <1>6 DEF Worker, StartUpload, FinishUpload, RemoveQueued
<1> QED BY <1>3, <1>4, <1>5, <1>6 DEF LockExpires

\* An editor with unsaved edits that closes does so for one of the reasons.
LEMMA ClosedStep ==
  ASSUME EditorInv, Next, NEW t \in Tabs, HasUnsavedChanges(t), tab'[t].at = "dashboard"
  PROVE  \/ tab[t].leaving \/ NavigateAway(t) \/ t \in AdminTabs
         \/ \E c \in MyCalls(t) :
              \/ Orphan(c)
              \/ c.kind = "submit" /\ c.ok
              \/ c.next \in {"leave", "saveleave", "artleave"}
<1>1. tab'[t] # tab[t]
  BY DEF HasUnsavedChanges
<1>2. \/ User(t) \/ AutoSave(t) \/ ShellRenders(t) \/ MergeBatch(t)
      \/ \E c \in calls : c.tab = t /\ Answered(c)
  BY <1>1, OthersStay DEF Next
<1>3. CASE User(t) \/ AutoSave(t) \/ ShellRenders(t) \/ MergeBatch(t)
  BY <1>3, UserCloses
<1>4. ASSUME NEW c \in calls, c.tab = t, Answered(c)
      PROVE  \/ t \in AdminTabs
             \/ c \in MyCalls(t) /\ (\/ Orphan(c) \/ (c.kind = "submit" /\ c.ok)
                                     \/ c.next \in {"leave", "saveleave", "artleave"})
  BY <1>4, AnswerCloses DEF MyCalls
<1> QED BY <1>2, <1>3, <1>4

-----------------------------------------------------------------------------
(* One campaign of each editor: while tab t is orderly, a create of an     *)
(* editor is sent before it has made a campaign, and an open editor that   *)
(* has made one and does not know its id has the answer waiting (MadeOnce).*)
(* A second create would be a second call with the form.                   *)

\* A campaign that editor m of tab t created.
Made(i, t, m) == store[i].status # "absent" /\ store[i].maker = <<t, m>>

\* One campaign of each editor.
Orderly(t) == t \notin overlapped /\ t \notin AdminTabs /\ faults = 0
MadeOnce ==
  \A t \in Tabs : Orderly(t) =>
    /\ \A m \in 0 .. MaxMounts : \A i, j \in Ids : Made(i, t, m) /\ Made(j, t, m) => i = j
    /\ \A c \in MyCalls(t) : c.kind = "create" =>
         /\ c.step = "sent" => \A i \in Ids : ~Made(i, t, c.mount)
         /\ c.step = "answered" => c.ok
    /\ \A i \in Ids : /\ Made(i, t, tab[t].mount)
                      /\ tab[t].at # "dashboard" /\ tab[t].id = NoId
         => \E c \in MyCalls(t) : c.kind = "create" /\ c.step = "answered" /\ c.mount = tab[t].mount

\* A step of t hands over to the screen m, with the calls cs and no new create.
Handed(t, m, cs) ==
  /\ cs \subseteq calls'
  /\ \A d \in calls' \ cs : d.kind # "create"
  /\ \/ tab'[t].at = "dashboard"
     \/ tab'[t].id = m.id /\ tab'[t].mount = m.mount /\ tab'[t].at = m.at

\* What a call sent is.
LEMMA SentKind ==
  ASSUME NEW t, NEW cs, NEW kind, NEW next, NEW i, NEW v, Send(cs, t, kind, next, i, v)
  PROVE  /\ cs \subseteq calls'
         /\ \A d \in calls' \ cs : d.kind = kind /\ d.step = "sent" /\ d.mount = tab[t].mount
                                   /\ d.tab = t /\ d.next = next /\ d.id = i /\ d.values = v
BY DEF Send, NewCall

\* Unmounting hands over.
LEMMA UnmountHands ==
  ASSUME EditorInv, NEW t \in Tabs, NEW m, NEW cs, Unmount(t, m, cs)
  PROVE  Handed(t, m, cs) /\ tab'[t].at = "dashboard"
<1>1. tab'[t] = [Closed EXCEPT !.mount = m.mount, !.page = m.page, !.typed = m.typed]
  BY InvOfTab DEF Unmount
<1>2. tab'[t].at = "dashboard"
  BY <1>1 DEF Closed
<1>3. CASE m.held /\ m.id # NoId
  <2>1. Send(cs, t, "release", "none", m.id, Blank)
    BY <1>3 DEF Unmount
  <2>2. PICK i : i = m.id
    OBVIOUS
  <2>3. Send(cs, t, "release", "none", i, Blank)
    BY <2>1, <2>2
  <2> QED BY <1>2, <2>3, SentKind DEF Handed
<1>4. CASE ~(m.held /\ m.id # NoId)
  BY <1>2, <1>4 DEF Unmount, Handed
<1> QED BY <1>2, <1>3, <1>4

\* So does releasing the lock and leaving.
LEMMA LeaveHands ==
  ASSUME EditorInv, NEW t \in Tabs, NEW m \in TabType, NEW cs, ReleaseAndLeave(t, m, cs)
  PROVE  Handed(t, m, cs)
<1>1. CASE m.held /\ m.id # NoId
  <2>1. tab' = [tab EXCEPT ![t] = [m EXCEPT !.held = FALSE]]
        /\ Send(cs, t, "release", "leave", m.id, Blank)
    BY <1>1 DEF ReleaseAndLeave
  <2>2. tab'[t] = [m EXCEPT !.held = FALSE]
    BY <2>1, InvOfTab
  <2>3. tab'[t].id = m.id /\ tab'[t].mount = m.mount /\ tab'[t].at = m.at
    BY <2>2 DEF TabType
  <2>4. PICK i : i = m.id
    OBVIOUS
  <2>5. Send(cs, t, "release", "leave", i, Blank)
    BY <2>1, <2>4
  <2> QED BY <2>3, <2>5, SentKind DEF Handed
<1>2. CASE ~(m.held /\ m.id # NoId)
  <2>1. Unmount(t, m, cs)
    BY <1>2 DEF ReleaseAndLeave
  <2> QED BY <2>1, UnmountHands
<1> QED BY <1>1, <1>2

\* And what the callers of saveCampaignDraft do next.
LEMMA ContinueHands ==
  ASSUME EditorInv, NEW t \in Tabs, NEW m \in TabType, NEW cs, NEW next, NEW i,
         Continue(t, next, m, i, cs)
  PROVE  Handed(t, m, cs)
<1>1. CASE next \in {"leave", "saveleave", "artleave"}
  <2> DEFINE d == [m EXCEPT !.dialog = FALSE]
  <2>1. ReleaseAndLeave(t, d, cs)
    BY <1>1 DEF Continue
  <2>2. d \in TabType /\ d.id = m.id /\ d.mount = m.mount /\ d.at = m.at
    BY DEF TabType
  <2> HIDE DEF d
  <2>3. Handed(t, d, cs)
    BY <2>1, <2>2, LeaveHands
  <2> QED BY <2>2, <2>3 DEF Handed
<1>2. CASE next \in {"submit", "po", "docs"}
  <2>1. tab' = [tab EXCEPT ![t] = m] /\ Send(cs, t, next, "none", i, Blank)
    BY <1>2 DEF Continue
  <2>2. tab'[t] = m /\ next # "create"
    BY <1>2, <2>1, InvOfTab
  <2> QED BY <2>1, <2>2, SentKind DEF Handed
<1>3. CASE next \notin {"leave", "saveleave", "artleave", "submit", "po", "docs"}
  <2>1. tab' = [tab EXCEPT ![t] = m] /\ calls' = cs
    BY <1>3 DEF Continue
  <2>2. tab'[t] = m
    BY <2>1, InvOfTab
  <2> QED BY <2>1, <2>2 DEF Handed
<1> QED BY <1>1, <1>2, <1>3

\* Calls of one tab that are the same to what creates campaigns.
SameCreate(c, d) ==
  c.tab = d.tab /\ c.kind = d.kind /\ c.step = d.step /\ c.ok = d.ok /\ c.mount = d.mount

\* What a step of t that creates no campaign does to the creates of t: none is
\* answered, one is sent by an open editor without a campaign, and such an
\* editor is a new one or the same as before, its answered creates unhandled.
CreateEffect(t) ==
  /\ \A d \in calls' : d.tab = t /\ d.kind = "create" =>
       \/ \E c \in calls : SameCreate(c, d)
       \/ /\ d.step = "sent" /\ d.mount = tab[t].mount
          /\ tab[t].at # "dashboard" /\ tab[t].id = NoId /\ calls \subseteq calls'
  /\ tab'[t].at # "dashboard" /\ tab'[t].id = NoId =>
       \/ tab'[t].mount = tab[t].mount + 1
       \/ /\ tab[t].at # "dashboard" /\ tab[t].id = NoId /\ tab'[t].mount = tab[t].mount
          /\ \A c \in calls : /\ c.tab = t /\ c.kind = "create" /\ c.step = "answered"
                              /\ c.ok /\ c.mount = tab[t].mount
                              => \E d \in calls' : SameCreate(c, d)

\* Handing over is such a step, when the call taken out was not such a create.
LEMMA HandedEffect ==
  ASSUME NEW t, NEW m, NEW cs \in SUBSET calls, Handed(t, m, cs),
         m.mount = tab[t].mount, m.at = tab[t].at,
         m.id = tab[t].id \/ m.id # NoId,
         \A c \in calls \ cs : ~(/\ c.tab = t /\ c.kind = "create" /\ c.step = "answered"
                                 /\ c.ok /\ c.mount = tab[t].mount
                                 /\ m.at # "dashboard" /\ m.id = NoId)
  PROVE  CreateEffect(t)
<1>1. \A c : SameCreate(c, c)
  BY DEF SameCreate
<1> QED BY <1>1 DEF CreateEffect, Handed

\* saveCampaignDraft is one.
LEMMA SaveEffect ==
  ASSUME EditorInv, NEW t \in Tabs, NEW m \in TabType, NEW next, SaveDraft(t, next, m),
         m.mount = tab[t].mount, m.at = tab[t].at, m.id = tab[t].id, tab[t].at # "dashboard"
  PROVE  CreateEffect(t)
<1>1. CASE tab[t].id # NoId /\ ~HasUnsavedChanges(t)
  <2>1. Continue(t, next, m, tab[t].id, calls)
    BY <1>1 DEF SaveDraft
  <2>2. PICK i : i = tab[t].id
    OBVIOUS
  <2>3. Continue(t, next, m, i, calls)
    BY <2>1, <2>2
  <2>4. Handed(t, m, calls)
    BY <2>3, ContinueHands
  <2> QED BY <2>4, HandedEffect
<1>2. CASE ~(tab[t].id # NoId /\ ~HasUnsavedChanges(t))
  <2> DEFINE r    == [m EXCEPT !.saving = TRUE]
             kind == IF tab[t].id = NoId THEN "create" ELSE "update"
  <2>1. tab' = [tab EXCEPT ![t] = r] /\ Send(calls, t, kind, next, tab[t].id, tab[t].values)
    BY <1>2 DEF SaveDraft
  <2>2. r.mount = m.mount /\ r.at = m.at /\ r.id = m.id
    BY DEF TabType
  <2>3. tab'[t].mount = m.mount /\ tab'[t].at = m.at /\ tab'[t].id = m.id
    BY <2>1, <2>2, InvOfTab
  <2>4. PICK i, v, k : i = tab[t].id /\ v = tab[t].values /\ k = kind
    OBVIOUS
  <2>5. Send(calls, t, k, next, i, v)
    BY <2>1, <2>4
  <2>6. /\ calls \subseteq calls'
        /\ \A d \in calls' \ calls : d.kind = k /\ d.step = "sent" /\ d.mount = tab[t].mount
    BY <2>5, SentKind
  <2>7. \A c : SameCreate(c, c)
    BY DEF SameCreate
  <2>8. k = "create" => tab[t].id = NoId
    BY <2>4
  <2> HIDE DEF r, kind
  <2> QED BY <2>3, <2>6, <2>7, <2>8 DEF CreateEffect
<1> QED BY <1>1, <1>2

\* A step that leaves the screen's editor and the calls of t as they are is one.
LEMMA CalmEffect ==
  ASSUME NEW t, tab'[t].at = tab[t].at, tab'[t].id = tab[t].id, tab'[t].mount = tab[t].mount,
         \A d : d.tab = t => (d \in calls' <=> d \in calls)
  PROVE  CreateEffect(t)
<1>1. \A c : SameCreate(c, c)
  BY DEF SameCreate
<1> QED BY <1>1 DEF CreateEffect, SameCreate

\* A mount of the next editor is one.
LEMMA MountEffect ==
  ASSUME NEW t, NEW m, tab'[t].mount = tab[t].mount + 1, Bootstrap(t, m)
  PROVE  CreateEffect(t)
<1>1. \A d \in calls' \ calls : d.kind = "acquire"
  BY DEF Bootstrap, NewCall
<1>2. \A c : SameCreate(c, c)
  BY DEF SameCreate
<1> QED BY <1>1, <1>2 DEF CreateEffect

\* What the user and the timers do, but for the restart of a super admin's bootstrap.
LEMMA UserEffect ==
  ASSUME EditorInv, NEW t \in Tabs, t \notin AdminTabs,
         User(t) \/ AutoSave(t) \/ ShellRenders(t) \/ MergeBatch(t)
  PROVE  CreateEffect(t)
<1> DEFINE r == tab[t]
           l == [tab[t] EXCEPT !.leaving = TRUE]
<1>1. tab \in [Tabs -> TabType] /\ r \in TabType /\ TabFine(Used, t, r)
  BY InvOfTab
<1>2. l \in TabType /\ l.at = r.at /\ l.id = r.id /\ l.mount = r.mount
  BY <1>1 DEF TabType
<1>3. CASE Open(t)
  <2>1. PICK i, f : Bootstrap(t, Boot(t, r.mount + 1, i, f))
    BY <1>3 DEF Open
  <2>2. tab'[t] = Boot(t, r.mount + 1, i, f)
    BY <1>1, <2>1 DEF Bootstrap
  <2>3. tab'[t].mount = r.mount + 1
    BY <2>2 DEF Boot, Closed
  <2>4. PICK b : b = Boot(t, r.mount + 1, i, f)
    OBVIOUS
  <2>5. Bootstrap(t, b)
    BY <2>1, <2>4
  <2> QED BY <2>3, <2>5, MountEffect
<1>4. CASE Refresh(t)
  <2> DEFINE b == [Boot(t, r.mount + 1, r.url, r.fresh) EXCEPT !.page = r.mount + 1]
  <2>1. Bootstrap(t, b)
    BY <1>4 DEF Refresh
  <2>2. b.mount = r.mount + 1
    BY DEF Boot, Closed
  <2>3. tab'[t] = b
    BY <1>1, <2>1 DEF Bootstrap
  <2> HIDE DEF b
  <2> QED BY <2>1, <2>2, <2>3, MountEffect
<1>5. CASE Type(t)
  <2>1. calls' = calls /\ tab'[t].at = r.at /\ tab'[t].id = r.id /\ tab'[t].mount = r.mount
    BY <1>1, <1>5 DEF Type, TabType
  <2> QED BY <2>1, CalmEffect
<1>6. CASE AutoSave(t) \/ \E next \in Handlers : Explicit(t, next)
  <2>1. PICK next : SaveDraft(t, next, r)
    BY <1>6 DEF AutoSave, Explicit
  <2>2. r.at # "dashboard"
    BY <1>6 DEF AutoSave, Explicit, HasUnsavedChanges, Editing
  <2> QED BY <1>1, <2>1, <2>2, SaveEffect
<1>7. CASE ShellRenders(t)
  BY <1>1, <1>7 DEF ShellRenders, TabFine
<1>8. CASE MergeBatch(t)
  <2>1. PICK done : tab' = [tab EXCEPT ![t] = [tab[t] EXCEPT !.values.art = @ \cup done,
                                                             !.persisted.art = @ \cup done]]
    BY <1>8 DEF MergeBatch
  <2>2. tab'[t] = [r EXCEPT !.values.art = @ \cup done, !.persisted.art = @ \cup done]
    BY <1>1, <2>1
  <2>3. tab'[t].at = r.at /\ tab'[t].id = r.id /\ tab'[t].mount = r.mount
    BY <1>1, <2>2 DEF TabType
  <2>4. calls' = calls
    BY <1>8 DEF MergeBatch
  <2> QED BY <2>3, <2>4, CalmEffect
<1>9. CASE BackToDashboard(t)
  <2> DEFINE pending == {c \in MyCalls(t) : Live(c) /\ c.next = "art"}
  <2>0. r.at # "dashboard"
    BY <1>9 DEF BackToDashboard, Editing
  <2>1. \/ /\ calls' = (calls \ pending) \cup {[c EXCEPT !.next = "artleave"] : c \in pending}
           /\ tab' = [tab EXCEPT ![t] = l]
        \/ ReleaseAndLeave(t, l, calls)
        \/ SaveDraft(t, "leave", l)
    BY <1>9 DEF BackToDashboard
  <2> HIDE DEF l
  <2>2. ASSUME calls' = (calls \ pending) \cup {[c EXCEPT !.next = "artleave"] : c \in pending},
               tab' = [tab EXCEPT ![t] = l]
        PROVE  CreateEffect(t)
    <3>1. calls \subseteq CallType
      BY DEF EditorInv, ScreensOK
    <3>2. \A c \in pending : SameCreate(c, [c EXCEPT !.next = "artleave"])
      BY <3>1 DEF SameCreate, CallType, MyCalls
    <3>3. \A c : SameCreate(c, c)
      BY DEF SameCreate
    <3>4. \A d \in calls' : \E c \in calls : SameCreate(c, d)
      BY <2>2, <3>2, <3>3 DEF MyCalls
    <3>5. \A c \in calls : \E d \in calls' : SameCreate(c, d)
      BY <2>2, <3>2, <3>3
    <3>6. tab'[t].at = r.at /\ tab'[t].id = r.id /\ tab'[t].mount = r.mount
      BY <1>1, <1>2, <2>2
    <3> HIDE DEF pending
    <3> QED BY <3>4, <3>5, <3>6 DEF CreateEffect
  <2>3. CASE ReleaseAndLeave(t, l, calls)
    BY <1>2, <2>3, LeaveHands, HandedEffect
  <2>4. CASE SaveDraft(t, "leave", l)
    BY <1>2, <2>0, <2>4, SaveEffect
  <2> QED BY <2>1, <2>2, <2>3, <2>4
<1>10. CASE Dialog(t)
  <2> DEFINE d == [l EXCEPT !.dialog = FALSE]
  <2>0. r.at # "dashboard"
    BY <1>1, <1>10 DEF Dialog, TabFine
  <2>1. \/ SaveDraft(t, "saveleave", l)
        \/ ReleaseAndLeave(t, d, calls)
        \/ tab' = [tab EXCEPT ![t].dialog = FALSE] /\ calls' = calls
    BY <1>10 DEF Dialog
  <2> HIDE DEF l
  <2>2. d \in TabType /\ d.at = r.at /\ d.id = r.id /\ d.mount = r.mount
    BY <1>2 DEF TabType
  <2> HIDE DEF d
  <2>3. CASE SaveDraft(t, "saveleave", l)
    BY <1>2, <2>0, <2>3, SaveEffect
  <2>4. CASE ReleaseAndLeave(t, d, calls)
    BY <2>2, <2>4, LeaveHands, HandedEffect
  <2>5. CASE tab' = [tab EXCEPT ![t].dialog = FALSE] /\ calls' = calls
    <3>1. tab'[t].at = r.at /\ tab'[t].id = r.id /\ tab'[t].mount = r.mount
      BY <1>1, <2>5 DEF TabType
    <3> QED BY <2>5, <3>1, CalmEffect
  <2> QED BY <2>1, <2>3, <2>4, <2>5
<1>11. CASE NavigateAway(t)
  <2>1. PICK m : m = r
    OBVIOUS
  <2>2. Unmount(t, m, calls)
    BY <1>11, <2>1 DEF NavigateAway
  <2> QED BY <2>1, <2>2, UnmountHands, HandedEffect
<1> QED BY <1>3, <1>4, <1>5, <1>6, <1>7, <1>8, <1>9, <1>10, <1>11 DEF User

\* What handling an answer does, when no create of t was refused.
LEMMA AnswerEffect ==
  ASSUME EditorInv, NEW c \in calls, Answered(c), NEW t \in Tabs, t = c.tab,
         c.kind = "create" /\ c.step = "answered" => c.ok
  PROVE  CreateEffect(t)
<1> DEFINE r  == tab[t]
           cs == calls \ {c}
<1>1. tab \in [Tabs -> TabType] /\ r \in TabType /\ TabFine(Used, t, r)
  BY InvOfTab
<1>2. c \in CallType /\ CallFine(Used, c) /\ NoId \notin Ids /\ (c.id \in Ids => c.id # NoId)
  BY InvOfCall, EditorAssumption
<1>3. PICK u : u = r
  OBVIOUS
<1> HIDE DEF cs
<1>4. ASSUME NEW m, Handed(t, m, cs), m.mount = r.mount, m.at = r.at, m.id = r.id \/ m.id # NoId,
             c.kind # "create" \/ c.mount # r.mount \/ m.at = "dashboard" \/ m.id # NoId
      PROVE  CreateEffect(t)
  BY <1>4, HandedEffect DEF cs
<1>5. CASE AcquireAnswered(c)
  <2>1. CASE c.ok
    <3>1. tab' = [tab EXCEPT ![t].held = TRUE] /\ Send(cs, t, "fetch", "none", c.id, Blank)
      BY <1>5, <2>1 DEF AcquireAnswered, cs
    <3>2. tab'[t].at = r.at /\ tab'[t].id = r.id /\ tab'[t].mount = r.mount
      BY <1>1, <3>1 DEF TabType
    <3>3. PICK i : i = c.id
      OBVIOUS
    <3>4. Send(cs, t, "fetch", "none", i, Blank)
      BY <3>1, <3>3
    <3>5. Handed(t, u, cs)
      BY <1>3, <3>2, <3>4, SentKind DEF Handed
    <3> QED BY <1>3, <1>4, <1>5, <3>5 DEF AcquireAnswered
  <2>2. CASE ~c.ok
    <3>1. Unmount(t, u, cs)
      BY <1>3, <1>5, <2>2 DEF AcquireAnswered, cs
    <3> QED BY <1>3, <1>4, <1>5, <3>1, UnmountHands DEF AcquireAnswered
  <2> QED BY <2>1, <2>2
<1>6. CASE FetchAnswered(c)
  <2>1. CASE c.ok
    <3> DEFINE m == [r EXCEPT !.at = "editing", !.id = c.id, !.status = c.status,
                              !.values = c.values, !.persisted = c.values]
    <3>1. tab' = [tab EXCEPT ![t] = m] /\ calls' = cs
      BY <1>6, <2>1 DEF FetchAnswered, cs
    <3>2. m.id = c.id /\ m.mount = r.mount
      BY <1>1 DEF TabType
    <3>3. tab'[t] = m
      BY <1>1, <3>1
    <3> HIDE DEF m
    <3>4. c.id \in Ids /\ c.kind = "fetch"
      BY <1>2, <1>6, InvOfCall DEF FetchAnswered
    <3>5. \A d : SameCreate(d, d)
      BY DEF SameCreate
    <3> QED BY <1>2, <3>1, <3>2, <3>3, <3>4, <3>5 DEF CreateEffect, cs
  <2>2. CASE ~c.ok
    <3>1. Unmount(t, u, cs)
      BY <1>3, <1>6, <2>2 DEF FetchAnswered, cs
    <3> QED BY <1>3, <1>4, <1>6, <3>1, UnmountHands DEF FetchAnswered
  <2> QED BY <2>1, <2>2
<1>7. CASE SaveAnswered(c)
  <2>1. PICK m, i : m = AfterSave(c) /\ i = c.id
    OBVIOUS
  <2>2. /\ m \in TabType /\ m.mount = r.mount /\ m.at = r.at
        /\ m.id = IF c.kind = "create" THEN c.id ELSE r.id
        /\ c.kind = "create" => c.id \in Ids
    <3>1. c.kind = "create" => c.id \in Ids
      BY <1>2, <1>7 DEF SaveAnswered, CallFine, Used
    <3>2. AfterSave(c) \in TabType
      <4>1. c.values \in Values /\ c.status \in {"in_progress", "submitted"}
        BY <1>2 DEF CallType
      <4>2. [r EXCEPT !.persisted = c.values, !.failed = FALSE, !.saving = FALSE,
                      !.status = c.status] \in TabType
        BY <1>1, <4>1 DEF TabType
      <4> QED BY <3>1, <4>1, <4>2 DEF AfterSave, TabType
    <3> QED BY <1>1, <2>1, <3>1, <3>2 DEF AfterSave, TabType
  <2>3. Continue(t, c.next, m, i, cs)
    BY <1>7, <2>1 DEF SaveAnswered, cs
  <2>4. PICK next : next = c.next
    OBVIOUS
  <2>5. Continue(t, next, m, i, cs)
    BY <2>3, <2>4
  <2>6. Handed(t, m, cs)
    BY <2>2, <2>5, ContinueHands
  <2> QED BY <1>2, <1>4, <2>2, <2>6
<1>8. CASE SaveRefused(c)
  <2>1. PICK m : m = AfterFailure(c)
    OBVIOUS
  <2>2. m \in TabType /\ m.mount = r.mount /\ m.at = r.at /\ m.id = r.id
    BY <1>1, <2>1 DEF AfterFailure, TabType
  <2>3. c.kind # "create"
    BY <1>8 DEF SaveRefused
  <2>4. CASE c.next = "artleave"
    <3>1. ReleaseAndLeave(t, m, cs)
      BY <1>8, <2>1, <2>4 DEF SaveRefused, cs
    <3> QED BY <1>4, <2>2, <2>3, <3>1, LeaveHands
  <2>5. CASE c.next # "artleave"
    <3>1. tab' = [tab EXCEPT ![t] = m] /\ calls' = cs
      BY <1>8, <2>1, <2>5 DEF SaveRefused, cs
    <3>2. Handed(t, m, cs)
      BY <1>1, <3>1 DEF Handed
    <3> QED BY <1>4, <2>2, <2>3, <3>2
  <2> QED BY <2>4, <2>5
<1>9. CASE HandlerAnswered(c)
  <2> DEFINE m == [r EXCEPT !.values = c.values, !.persisted = c.values, !.status = c.status]
             s == [m EXCEPT !.status = "submitted", !.id = c.id]
  <2>1. c.kind \in {"submit", "po", "docs"} /\ c.id \in Ids
    BY <1>9, InvOfCall DEF HandlerAnswered
  <2>2. /\ m \in TabType /\ m.mount = r.mount /\ m.at = r.at /\ m.id = r.id
    BY <1>1, <1>2 DEF TabType, CallType
  <2>3. \/ ReleaseAndLeave(t, s, cs)
        \/ (tab' = [tab EXCEPT ![t] = m] \/ tab' = tab) /\ calls' = cs
    BY <1>9 DEF HandlerAnswered, cs
  <2> HIDE DEF m
  <2>4. s \in TabType /\ s.mount = r.mount /\ s.at = r.at /\ s.id = c.id
    BY <1>1, <2>1, <2>2 DEF TabType
  <2> HIDE DEF s
  <2>5. CASE ReleaseAndLeave(t, s, cs)
    BY <1>2, <1>4, <2>1, <2>4, <2>5, LeaveHands
  <2>6. CASE tab' = [tab EXCEPT ![t] = m] /\ calls' = cs
    <3>1. Handed(t, m, cs)
      BY <1>1, <2>6 DEF Handed
    <3> QED BY <1>4, <2>1, <2>2, <3>1
  <2>7. CASE tab' = tab /\ calls' = cs
    <3>1. Handed(t, u, cs)
      BY <1>3, <2>7 DEF Handed
    <3> QED BY <1>3, <1>4, <2>1, <3>1
  <2> QED BY <2>3, <2>5, <2>6, <2>7
<1>10. CASE ReleaseAnswered(c)
  <2>1. Unmount(t, u, cs) \/ (tab' = tab /\ calls' = cs)
    BY <1>3, <1>10 DEF ReleaseAnswered, cs
  <2>2. Handed(t, u, cs)
    BY <1>3, <2>1, UnmountHands DEF Handed
  <2> QED BY <1>3, <1>4, <1>10, <2>2 DEF ReleaseAnswered
<1>11. CASE OrphanAnswered(c) \/ AnswerIgnored(c)
  <2>1. r.at = "dashboard" \/ c.mount # r.mount
    BY <1>11 DEF OrphanAnswered, AnswerIgnored, Orphan, Live
  <2>2. \/ tab' = tab /\ calls' = cs
        \/ Unmount(t, u, cs)
        \/ /\ tab' = tab
           /\ cs \subseteq calls' /\ \A d \in calls' \ cs : d.kind \in {"submit", "po", "docs"}
    <3>1. CASE AnswerIgnored(c)
      BY <3>1 DEF AnswerIgnored, cs
    <3>2. CASE OrphanAnswered(c)
      <4>1. \/ /\ c.next \in {"submit", "po", "docs"} /\ tab' = tab
               /\ calls' = cs \cup {NewCall(cs, c.tab, c.mount, c.next, "none", c.id, Blank)}
            \/ LateBack(c.tab, cs)
            \/ calls' = cs /\ tab' = tab
        BY <3>2 DEF OrphanAnswered, cs
      <4> QED BY <1>3, <4>1 DEF LateBack, NewCall
    <3> QED BY <1>11, <3>1, <3>2
  <2>3. Handed(t, u, cs)
    BY <1>3, <2>2, UnmountHands DEF Handed
  <2> QED BY <1>3, <1>4, <2>1, <2>3
<1> QED BY <1>5, <1>6, <1>7, <1>8, <1>9, <1>10, <1>11 DEF Answered

\* What the server does with the call c of t, but for a creation, when no answer is lost.
LEMMA ServeEffect ==
  ASSUME EditorInv, NEW c \in calls, NEW t \in Tabs, t = c.tab,
         ServeLock(c) \/ ServeRelease(c) \/ ServeRead(c) \/ ServeUpdate(c) \/ ServeSubmit(c)
  PROVE  CreateEffect(t)
<1>1. tab' = tab /\ c.kind # "create"
  BY DEF ServeLock, ServeRelease, ServeRead, ServeUpdate, ServeSubmit
<1>2. calls \ {c} \subseteq calls' /\ \A d \in calls' \ (calls \ {c}) : d.kind = c.kind
  <2>1. c \in CallType
    BY InvOfCall
  <2>2. CASE ServeLock(c)
    <3>1. \/ Answer(c, TRUE, c.values)
          \/ Answer(c, FALSE, c.values)
          \/ calls' = (calls \ {c}) \cup {[c EXCEPT !.step = "checked"]}
      BY <2>2 DEF ServeLock
    <3> QED BY <2>1, <3>1 DEF Answer, CallType
  <2>3. CASE ServeRelease(c)
    BY <2>1, <2>3 DEF ServeRelease, Answer, CallType
  <2>4. CASE ServeRead(c)
    BY <2>1, <2>4 DEF ServeRead, CallType
  <2>5. CASE ServeUpdate(c)
    <3>1. Answer(c, TRUE, c.values) \/ Answer(c, FALSE, c.values)
      BY <2>5 DEF ServeUpdate
    <3> QED BY <2>1, <3>1 DEF Answer, CallType
  <2>6. CASE ServeSubmit(c)
    BY <2>1, <2>6 DEF ServeSubmit, Answer, CallType
  <2> QED BY <2>2, <2>3, <2>4, <2>5, <2>6
<1>3. \A d : SameCreate(d, d)
  BY DEF SameCreate
<1> QED BY <1>1, <1>2, <1>3 DEF CreateEffect

\* A step that creates no campaign, from the side of t.
LEMMA StepEffect ==
  ASSUME EditorInv, Next, NEW t \in Tabs, t \notin AdminTabs, faults' = 0,
         \A c \in calls : ~ServeCreate(c),
         \A c \in MyCalls(t) : c.kind = "create" /\ c.step = "answered" => c.ok
  PROVE  CreateEffect(t) /\ Kept
<1>1. PICK K \in SUBSET Ids : K = Used
  BY DEF Used
<1>2. ScreensOK(K) /\ ScreensOK(Used) /\ TablesOK /\ faults \in 0 .. MaxFaults
  BY <1>1 DEF EditorInv, MarksOK
<1>3. ASSUME NEW s \in Tabs, s # t, ScreenStep(K, s)
      PROVE  CreateEffect(t)
  <2>1. tab'[t] = tab[t] /\ \A d : d.tab = t => (d \in calls' <=> d \in calls)
    BY <1>3 DEF ScreenStep
  <2> QED BY <2>1, CalmEffect
<1>4. ASSUME NEW s \in Tabs, User(s) \/ AutoSave(s) \/ ShellRenders(s) \/ MergeBatch(s)
      PROVE  CreateEffect(t) /\ Kept
  <2>1. ScreenStep(K, s)
    BY <1>1, <1>2, <1>4, OpenScreen, RefreshScreen, TypeScreen, MergeScreen, BackScreen,
       DialogScreen, NavigateScreen, SavingScreen, ShellScreen DEF User
  <2>2. CreateEffect(t)
    BY <1>3, <1>4, <2>1, UserEffect
  <2>3. Kept
    BY <1>2, <1>4, UserQuiet, QuietTables, QueueTables DEF User
  <2> QED BY <2>2, <2>3
<1>5. ASSUME NEW c \in calls, Answered(c)
      PROVE  CreateEffect(t) /\ Kept
  <2>1. c.tab \in Tabs /\ ScreenStep(K, c.tab)
    BY <1>2, <1>5, AcquireScreen, FetchScreen, SaveScreen, RefusedScreen, HandlerScreen,
       ReleaseScreen, OrphanScreen DEF Answered
  <2>2. c.tab = t => CreateEffect(t)
    BY <1>5, AnswerEffect DEF MyCalls
  <2>3. Kept
    BY <1>2, <1>5, AnsweredQuiet, QuietTables
  <2> QED BY <1>3, <2>1, <2>2, <2>3
<1>6. ASSUME NEW c \in calls,
             \/ ServeLock(c) \/ ServeRelease(c) \/ ServeRead(c)
             \/ ServeUpdate(c) \/ ServeSubmit(c)
      PROVE  CreateEffect(t) /\ Kept
  <2>1. c.tab \in Tabs /\ ScreenStep(K, c.tab)
    BY <1>1, <1>2, <1>6, LockMoves, ReadMoves, ServerMoves
  <2>2. c.tab = t => CreateEffect(t)
    BY <1>6, ServeEffect
  <2>3. Kept
    BY <1>2, <1>6, ServeTables
  <2> QED BY <1>3, <2>1, <2>2, <2>3
<1>7. ASSUME NEW c \in calls, CallFails(c)
      PROVE  FALSE
  <2>1. faults' = faults + 1
    BY <1>7 DEF CallFails
  <2> QED BY <1>2, <2>1, Bounds
<1>8. ASSUME \/ \E a \in Art : Worker(a) \/ RemoveQueued(a)
             \/ \E i \in Ids : LockExpires(i)
      PROVE  CreateEffect(t) /\ Kept
  <2>1. tab' = tab /\ calls' = calls
    BY <1>8 DEF Worker, StartUpload, FinishUpload, RemoveQueued, LockExpires
  <2>2. CreateEffect(t)
    BY <2>1, CalmEffect
  <2>3. Kept
    BY <1>2, <1>8, QueueTables
  <2> QED BY <2>2, <2>3
<1> QED BY <1>4, <1>5, <1>6, <1>7, <1>8 DEF Next, Serve

\* The marks only grow, and a failure is not forgotten.
LEMMA OrderlyBefore ==
  ASSUME EditorInv, Next, NEW t \in Tabs, Orderly(t)'
  PROVE  Orderly(t) /\ t \notin AdminTabs /\ faults' = 0
<1>1. faults \in Nat /\ (faults' = faults \/ faults' = faults + 1)
  <2>1. faults \in Nat
    BY Bounds DEF EditorInv, MarksOK
  <2>2. ASSUME NEW s \in Tabs, User(s) \/ AutoSave(s) \/ ShellRenders(s) \/ MergeBatch(s)
        PROVE  faults' = faults
    BY <2>2 DEF User, Open, Refresh, Type, BackToDashboard, Dialog, NavigateAway, Explicit,
                AutoSave, ShellRenders, MergeBatch
  <2>3. ASSUME NEW c \in calls, Serve(c) \/ Answered(c) \/ CallFails(c)
        PROVE  faults' = faults \/ faults' = faults + 1
    BY <2>3 DEF Serve, ServeLock, ServeRelease, ServeRead, ServeCreate, ServeUpdate, ServeSubmit,
                Answered, AcquireAnswered, FetchAnswered, SaveAnswered, SaveRefused,
                HandlerAnswered, ReleaseAnswered, OrphanAnswered, AnswerIgnored, CallFails
  <2>4. ASSUME \/ \E i \in Ids : LockExpires(i)
               \/ \E a \in Art : Worker(a) \/ RemoveQueued(a)
        PROVE  faults' = faults
    BY <2>4 DEF Worker, StartUpload, FinishUpload, RemoveQueued, LockExpires
  <2> QED BY <2>1, <2>2, <2>3, <2>4 DEF Next
<1>2. overlapped \subseteq overlapped'
  BY DEF Next, Note
<1> QED BY <1>1, <1>2 DEF Orderly

\* One tab, a step that creates no campaign: MadeOnce of the tab is kept, since
\* a create that is sent while an answered one waits would be a second call.
LEMMA OnceKept ==
  ASSUME EditorInv, EditorInv', MadeOnce, Kept, NEW t \in Tabs, CreateEffect(t),
         Orderly(t), Orderly(t)'
  PROVE  /\ \A m \in 0 .. MaxMounts : \A i, j \in Ids : Made(i, t, m)' /\ Made(j, t, m)' => i = j
         /\ \A c \in MyCalls(t)' : c.kind = "create" =>
              /\ c.step = "sent" => \A i \in Ids : ~Made(i, t, c.mount)'
              /\ c.step = "answered" => c.ok
         /\ \A i \in Ids : /\ Made(i, t, tab[t].mount)'
                           /\ tab'[t].at # "dashboard" /\ tab'[t].id = NoId
              => \E c \in MyCalls(t)' : /\ c.kind = "create" /\ c.step = "answered"
                                        /\ c.mount = tab'[t].mount
<1>1. \A i \in Ids : \A m : Made(i, t, m)' <=> Made(i, t, m)
  BY DEF Made, Kept
<1>2. \A m \in 0 .. MaxMounts : \A i, j \in Ids : Made(i, t, m)' /\ Made(j, t, m)' => i = j
  BY <1>1 DEF MadeOnce
<1>3. ASSUME NEW d \in MyCalls(t)', d.kind = "create"
      PROVE  /\ d.step = "sent" => \A i \in Ids : ~Made(i, t, d.mount)'
             /\ d.step = "answered" => d.ok
  <2>1. d \in calls' /\ d.tab = t
    BY DEF MyCalls
  <2>2. ASSUME NEW c \in calls, SameCreate(c, d)
        PROVE  /\ d.step = "sent" => \A i \in Ids : ~Made(i, t, d.mount)'
               /\ d.step = "answered" => d.ok
    <3>1. c \in MyCalls(t) /\ c.kind = "create" /\ c.step = d.step /\ c.mount = d.mount
          /\ c.ok = d.ok
      BY <1>3, <2>1, <2>2 DEF SameCreate, MyCalls
    <3> QED BY <1>1, <3>1 DEF MadeOnce
  <2>3. ASSUME d.step = "sent", d.mount = tab[t].mount, tab[t].at # "dashboard",
               tab[t].id = NoId, calls \subseteq calls', NEW i \in Ids, Made(i, t, d.mount)'
        PROVE  FALSE
    <3>1. Made(i, t, tab[t].mount)
      BY <1>1, <2>3
    <3>2. PICK c \in MyCalls(t) : c.kind = "create" /\ c.step = "answered"
      BY <2>3, <3>1 DEF MadeOnce
    <3>3. c \in FormCalls(calls', t) /\ d \in FormCalls(calls', t) /\ c # d
      BY <1>3, <2>1, <2>3, <3>2 DEF FormCalls, MyCalls
    <3> QED BY <3>3 DEF EditorInv, MarksOK, Orderly
  <2>4. CASE /\ d.step = "sent" /\ d.mount = tab[t].mount
             /\ tab[t].at # "dashboard" /\ tab[t].id = NoId /\ calls \subseteq calls'
    BY <2>3, <2>4
  <2> QED BY <1>3, <2>1, <2>2, <2>4 DEF CreateEffect
<1>4. ASSUME NEW i \in Ids, Made(i, t, tab[t].mount)', tab'[t].at # "dashboard", tab'[t].id = NoId
      PROVE  \E c \in MyCalls(t)' : c.kind = "create" /\ c.step = "answered" /\ c.mount = tab'[t].mount
  <2>1. Made(i, t, tab'[t].mount)
    BY <1>1, <1>4
  <2>2. tab'[t].mount # tab[t].mount + 1
    <3>1. store[i].maker[2] <= tab[t].mount /\ store[i].maker[2] = tab'[t].mount
      BY <2>1 DEF EditorInv, MakersOK, Made
    <3>2. tab[t].mount \in Nat
      BY InvOfTab, Bounds DEF TabType
    <3> QED BY <3>1, <3>2
  <2>3. /\ tab[t].at # "dashboard" /\ tab[t].id = NoId /\ tab'[t].mount = tab[t].mount
        /\ \A c \in calls : /\ c.tab = t /\ c.kind = "create" /\ c.step = "answered"
                            /\ c.ok /\ c.mount = tab[t].mount
                            => \E d \in calls' : SameCreate(c, d)
    BY <1>4, <2>2 DEF CreateEffect
  <2>4. PICK c \in MyCalls(t) : c.kind = "create" /\ c.step = "answered" /\ c.mount = tab[t].mount
    BY <2>1, <2>3 DEF MadeOnce
  <2>5. c.ok /\ c.tab = t /\ c \in calls
    BY <2>4 DEF MadeOnce, MyCalls
  <2>6. PICK d \in calls' : SameCreate(c, d)
    BY <2>3, <2>4, <2>5
  <2> QED BY <2>3, <2>4, <2>5, <2>6 DEF SameCreate, MyCalls
<1> QED BY <1>2, <1>3, <1>4

\* One tab, a creation.
LEMMA OnceCreated ==
  ASSUME EditorInv, EditorInv', MadeOnce, NEW e \in calls, ServeCreate(e), NEW t \in Tabs,
         Orderly(t), Orderly(t)'
  PROVE  /\ \A m \in 0 .. MaxMounts : \A i, j \in Ids : Made(i, t, m)' /\ Made(j, t, m)' => i = j
         /\ \A c \in MyCalls(t)' : c.kind = "create" =>
              /\ c.step = "sent" => \A i \in Ids : ~Made(i, t, c.mount)'
              /\ c.step = "answered" => c.ok
         /\ \A i \in Ids : /\ Made(i, t, tab[t].mount)'
                           /\ tab'[t].at # "dashboard" /\ tab'[t].id = NoId
              => \E c \in MyCalls(t)' : /\ c.kind = "create" /\ c.step = "answered"
                                        /\ c.mount = tab'[t].mount
<1>1. PICK k \in Ids :
        /\ store[k].status = "absent"
        /\ store' = [store EXCEPT ![k] = [status |-> "in_progress", values |-> e.values,
                                          by |-> e.tab, maker |-> <<e.tab, e.mount>>]]
        /\ calls' = (calls \ {e}) \cup {[e EXCEPT !.step = "answered", !.ok = TRUE, !.id = k]}
  BY DEF ServeCreate
<1>2. PICK d : d = [e EXCEPT !.step = "answered", !.ok = TRUE, !.id = k]
  OBVIOUS
<1>3. e.kind = "create" /\ e.step = "sent" /\ tab' = tab /\ e \in CallType
  BY InvOfCall DEF ServeCreate
<1>4. d.step = "answered" /\ d.ok /\ d.tab = e.tab /\ d.kind = "create" /\ d.mount = e.mount
  BY <1>2, <1>3 DEF CallType
<1>5. calls' = (calls \ {e}) \cup {d}
  BY <1>1, <1>2
<1>6. /\ \A m : Made(k, t, m)' <=> e.tab = t /\ m = e.mount
      /\ \A m : ~Made(k, t, m)
      /\ \A i \in Ids \ {k} : \A m : Made(i, t, m)' <=> Made(i, t, m)
  <2>1. store'[k].maker = <<e.tab, e.mount>> /\ store'[k].status = "in_progress"
        /\ \A i \in Ids \ {k} : store'[i] = store[i]
    BY <1>1 DEF EditorInv, TablesOK
  <2> QED BY <1>1, <2>1 DEF Made
<1>7. CASE e.tab = t
  <2>1. \A i \in Ids : ~Made(i, t, e.mount)
    BY <1>3, <1>7 DEF MadeOnce, MyCalls
  <2>2. \A m \in 0 .. MaxMounts : \A i, j \in Ids : Made(i, t, m)' /\ Made(j, t, m)' => i = j
    <3>1. \A i \in Ids \ {k} : ~Made(i, t, e.mount)'
      BY <1>6, <2>1
    <3>2. ASSUME NEW m \in 0 .. MaxMounts, NEW i \in Ids, NEW j \in Ids, Made(i, t, m)',
                 Made(j, t, m)'
          PROVE  i = j
      <4>1. CASE i = k \/ j = k
        BY <1>6, <3>1, <3>2, <4>1
      <4>2. CASE i # k /\ j # k
        BY <1>6, <3>2, <4>2 DEF MadeOnce
      <4> QED BY <4>1, <4>2
    <3> QED BY <3>2
  <2>3. \A c \in MyCalls(t)' : c.kind = "create" => c = d
    <3>1. d \in FormCalls(calls', t)
      BY <1>4, <1>5, <1>7 DEF FormCalls
    <3>2. \A c \in MyCalls(t)' : c.kind = "create" => c \in FormCalls(calls', t)
      BY DEF FormCalls, MyCalls
    <3> QED BY <3>1, <3>2 DEF EditorInv, MarksOK, Orderly
  <2>4. d \in MyCalls(t)'
    BY <1>4, <1>5, <1>7 DEF MyCalls
  <2>5. ASSUME NEW i \in Ids, Made(i, t, tab[t].mount)', tab'[t].at # "dashboard",
               tab'[t].id = NoId
        PROVE  \E c \in MyCalls(t)' : c.kind = "create" /\ c.step = "answered" /\ c.mount = tab'[t].mount
    <3>1. CASE tab[t].mount = e.mount
      BY <1>3, <1>4, <2>4, <3>1
    <3>2. CASE tab[t].mount # e.mount
      <4>1. Made(i, t, tab[t].mount)
        BY <1>3, <1>6, <2>5, <3>2
      <4>2. PICK c \in MyCalls(t) : c.kind = "create" /\ c.step = "answered"
            /\ c.mount = tab[t].mount
        BY <1>3, <2>5, <4>1 DEF MadeOnce
      <4>3. c \in MyCalls(t)'
        BY <1>3, <1>5, <4>2 DEF MyCalls
      <4> QED BY <1>3, <4>2, <4>3
    <3> QED BY <3>1, <3>2
  <2> QED BY <1>4, <2>2, <2>3, <2>5
<1>8. CASE e.tab # t
  <2>1. \A i \in Ids : \A m : Made(i, t, m)' <=> Made(i, t, m)
    BY <1>6, <1>8
  <2>2. MyCalls(t)' = MyCalls(t)
    BY <1>4, <1>5, <1>8 DEF MyCalls
  <2> QED BY <1>3, <2>1, <2>2 DEF MadeOnce
<1> QED BY <1>7, <1>8

\* Every step keeps MadeOnce.
LEMMA MadeOnceNext ==
  ASSUME EditorInv, MadeOnce, Next
  PROVE  MadeOnce'
<1>1. EditorInv'
  BY EditorNext
<1>2. ASSUME NEW t \in Tabs, Orderly(t)'
      PROVE  /\ \A m \in 0 .. MaxMounts : \A i, j \in Ids : Made(i, t, m)' /\ Made(j, t, m)' => i = j
             /\ \A c \in MyCalls(t)' : c.kind = "create" =>
                  /\ c.step = "sent" => \A i \in Ids : ~Made(i, t, c.mount)'
                  /\ c.step = "answered" => c.ok
             /\ \A i \in Ids : /\ Made(i, t, tab[t].mount)'
                               /\ tab'[t].at # "dashboard" /\ tab'[t].id = NoId
                  => \E c \in MyCalls(t)' : /\ c.kind = "create" /\ c.step = "answered"
                                            /\ c.mount = tab'[t].mount
  <2>1. Orderly(t) /\ t \notin AdminTabs /\ faults' = 0
    BY <1>2, OrderlyBefore
  <2>2. \A c \in MyCalls(t) : c.kind = "create" /\ c.step = "answered" => c.ok
    BY <2>1 DEF MadeOnce
  <2>3. CASE \E c \in calls : ServeCreate(c)
    BY <1>1, <1>2, <2>1, <2>3, OnceCreated
  <2>4. CASE \A c \in calls : ~ServeCreate(c)
    <3>1. CreateEffect(t) /\ Kept
      BY <2>1, <2>2, <2>4, StepEffect
    <3> QED BY <1>1, <1>2, <2>1, <3>1, OnceKept
  <2> QED BY <2>3, <2>4
<1> QED BY <1>2 DEF MadeOnce

\* No campaign was created at the start.
LEMMA MadeOnceInit ==
  ASSUME Init
  PROVE  MadeOnce
<1>1. \A i \in Ids : \A t \in Tabs : \A m : ~Made(i, t, m)
  BY EditorAssumption DEF Init, Made
<1> QED BY <1>1 DEF Init, MadeOnce, MyCalls

\* What MadeOnce says of two campaigns of one editor.
LEMMA MadeOncePerEditor ==
  ASSUME EditorInv, MadeOnce
  PROVE  OneCampaignPerEditor
<1> SUFFICES ASSUME NEW i \in Ids, NEW j \in Ids,
                    store[i].status # "absent", store[j].status # "absent",
                    i # j, store[i].maker = store[j].maker, store[i].maker[1] # Nobody
             PROVE  LET t == store[i].maker[1]
                    IN  t \in overlapped \/ t \in AdminTabs \/ faults > 0
  BY DEF OneCampaignPerEditor
<1>1. PICK t \in Tabs, m \in 0 .. MaxMounts : store[i].maker = <<t, m>>
  BY DEF EditorInv, TablesOK, StoreType
<1>2. Made(i, t, m) /\ Made(j, t, m)
  BY <1>1 DEF Made
<1>3. faults \in Nat
  BY Bounds DEF EditorInv, MarksOK
<1>4. ~Orderly(t)
  BY <1>2 DEF MadeOnce
<1>5. t \in overlapped \/ t \in AdminTabs \/ faults > 0
  BY <1>3, <1>4 DEF Orderly
<1> QED BY <1>1, <1>5

-----------------------------------------------------------------------------
(* Submitted forms, editors closed and campaigns created.                  *)

\* The form of a submitted campaign stays as it was submitted: no save, append
\* or second submission that was under way, or was sent later, changes it.
THEOREM SubmittedStays == Spec => SubmittedFormStays
<1> DEFINE Stays == \A i \in Ids : store[i].status = "submitted" =>
                      store'[i].status = "submitted" /\ store'[i].values = store[i].values
<1>1. EditorInv /\ [Next]_vars => [Stays]_vars
  BY SubmittedStep DEF vars
<1> QED BY <1>1, EditorAlways, PTL DEF Spec, SubmittedFormStays

\* An editor with unsaved edits is closed by nothing but the handlers that
\* leave, the user's navigation, a submission that ended, the restart of a super
\* admin's bootstrap, and the late answer of an earlier editor of the page.
THEOREM ClosedOnPurpose == Spec => UnsavedEditorsClosedOnPurpose
<1> DEFINE Closes ==
      \A t \in Tabs :
        HasUnsavedChanges(t) /\ tab'[t].at = "dashboard"
        => \/ tab[t].leaving \/ NavigateAway(t) \/ t \in AdminTabs
           \/ \E c \in MyCalls(t) :
                \/ Orphan(c)
                \/ c.kind = "submit" /\ c.ok
                \/ c.next \in {"leave", "saveleave", "artleave"}
<1>1. EditorInv /\ [Next]_vars => [Closes]_vars
  BY ClosedStep DEF vars
<1> QED BY <1>1, EditorAlways, PTL DEF Spec, UnsavedEditorsClosedOnPurpose

\* An editor creates one campaign, although its saves may be sent before the
\* first is answered: while none of its answers was lost and it had one call
\* with the form at a time, a second create waits for the id of the first.
THEOREM OneCampaignEach == Spec => []OneCampaignPerEditor
<1>1. MadeOnce /\ EditorInv /\ UNCHANGED vars => MadeOnce'
  BY DEF vars, MadeOnce, Made, Orderly, MyCalls
<1>2. Spec => []MadeOnce
  BY <1>1, MadeOnceInit, MadeOnceNext, EditorAlways, PTL DEF Spec
<1> QED BY <1>2, MadeOncePerEditor, EditorAlways, PTL

-----------------------------------------------------------------------------
(***************************************************************************)
(* Which saves may drop stored edits, and what an editor that believes its *)
(* form saved can rely on.                                                 *)
(*                                                                         *)
(* A save replaces the whole stored form, so everything rests on whose     *)
(* form a tab or a call carries.  The invariant says, of each tab t:       *)
(*   Entitled  t works on a campaign only while its user owns the lock or  *)
(*             nobody does, unless another user took it (t is in taken);   *)
(*   Own       what t wrote last is contained in every form t may write    *)
(*             next, as long as t had its calls one at a time;             *)
(*   Others    so is what another user's tab wrote before t came in;       *)
(*   Stored    what the screen of t takes for persisted is in the store.   *)
(* Two users entitled to one campaign is what Entitled excludes: that is   *)
(* why a write of another tab can not come between.                        *)
(***************************************************************************)

\* The stored edits of campaign i.
TypedIn(i) == store[i].values.typed

\* The calls whose answer becomes the form of the screen.
Loads        == {"fetch", "docs", "submit", "create"}

\* While a campaign is being opened only its lock and its form are asked for,
\* the form after the lock.
Opening(t) ==
  tab[t].at = "opening" =>
    /\ ~tab[t].dialog
    /\ \A c \in MyCalls(t) : Live(c) =>
         c.kind \in {"acquire", "fetch"} /\ (c.kind = "fetch" => tab[t].held)

\* What a fresh editor knows and sends is about campaigns it has created.
Makers(t) ==
  /\ tab[t].at # "dashboard" /\ tab[t].fresh /\ tab[t].id # NoId
       => Made(tab[t].id, t, tab[t].mount)
  /\ \A c \in MyCalls(t) :
       /\ c.kind = "create" /\ c.ok => Made(c.id, t, c.mount)
       /\ Live(c) /\ tab[t].fresh /\ c.kind \in {"update", "submit", "docs"}
            => Made(c.id, t, c.mount)

\* A campaign that no tab has written has no edits.
Unwritten ==
  \A i \in Ids : /\ store[i].by = Nobody => TypedIn(i) = {}
                 /\ store[i].status = "absent" => store[i].by = Nobody

\* Tab t was given the lock of campaign i and acts on it: it shows it, is
\* about to, or has a write under way that was checked.  The editor that
\* created i is not counted until a write of it is checked.
Granted(t, i) ==
  \/ tab[t].id = i /\ ~tab[t].fresh /\ (tab[t].at = "editing" \/ tab[t].held)
  \/ \E c \in MyCalls(t) :
       /\ c.id = i
       /\ \/ c.kind = "update" /\ (c.step = "checked" \/ ~Made(i, t, c.mount))
          \/ c.kind = "acquire" /\ c.ok

\* Entitled, Own, Others and Stored are explained above.
Entitled(t) ==
  t \notin taken =>
    \A i \in Ids : Granted(t, i) =>
      /\ lock[i] \in {UserOf[t], Nobody}
      /\ \A s \in Tabs \ taken : Granted(s, i) => UserOf[s] = UserOf[t]

\* Call c carries a form: one to be written, or one that was answered.
Carries(c) == c.kind = "update" \/ (c.ok /\ c.kind \in Loads)

Own(t) ==
  t \notin overlapped =>
    /\ tab[t].id # NoId => tab[t].persisted.typed \subseteq tab[t].values.typed
    /\ tab[t].at = "editing" /\ tab[t].id # NoId =>
         /\ store[tab[t].id].by = t => TypedIn(tab[t].id) \subseteq tab[t].values.typed
         /\ \A c \in MyCalls(t) :
              /\ Live(c) /\ c.kind \in {"update", "docs", "submit"} => c.id = tab[t].id
              /\ c.kind = "update" /\ c.id = tab[t].id =>
                   /\ tab[t].persisted.typed \subseteq c.values.typed
                   /\ c.values.typed \subseteq tab[t].values.typed
    /\ \A c \in MyCalls(t) : Carries(c) /\ store[c.id].by = t =>
         TypedIn(c.id) \subseteq c.values.typed

\* Campaign i was last written by a tab of another user who did not lose it.
WrittenByOther(t, i) ==
  \E s \in Tabs \ taken : s # t /\ store[i].by = s /\ UserOf[s] # UserOf[t]

Others(t) ==
  t \notin taken =>
    /\ tab[t].at = "editing" /\ ~tab[t].fresh /\ WrittenByOther(t, tab[t].id)
         => TypedIn(tab[t].id) \subseteq tab[t].values.typed
    /\ \A c \in MyCalls(t) :
         /\ \/ c.kind = "update" /\ ~Made(c.id, t, c.mount)
            \/ c.ok /\ c.kind \in Loads /\ Live(c) /\ ~tab[t].fresh
         /\ WrittenByOther(t, c.id)
         => TypedIn(c.id) \subseteq c.values.typed

\* The conditions of PersistedIsStored.
Trusting(t) ==
  /\ t \notin overlapped /\ taken = {}
  /\ \A s \in Tabs \ {t} : UserOf[s] # UserOf[t]
  /\ tab[t].fresh => overlapped = {} /\ \A r, s \in Tabs : UserOf[r] = UserOf[s] => r = s

Stored(t) ==
  Trusting(t) =>
    /\ tab[t].at = "editing" /\ tab[t].id # NoId
         => tab[t].persisted.typed \subseteq TypedIn(tab[t].id)
    /\ \A c \in MyCalls(t) : Live(c) /\ c.ok /\ c.kind \in Loads \cup {"update"}
         => c.values.typed \subseteq TypedIn(c.id)

SaveInv ==
  /\ Unwritten
  /\ \A t \in Tabs : Opening(t) /\ Makers(t) /\ Entitled(t) /\ Own(t) /\ Others(t) /\ Stored(t)

-----------------------------------------------------------------------------
(* What a step of a tab does to its screen and its calls.                  *)

\* Screen r is screen m as far as the form goes, perhaps without the lock.
Alike(r, m) ==
  /\ r.at = m.at /\ r.mount = m.mount /\ r.fresh = m.fresh /\ r.id = m.id
  /\ r.values = m.values /\ r.persisted = m.persisted
  /\ r.held => m.held
  /\ r.dialog => m.dialog
  /\ r.at = "opening" => r.held = m.held

\* Calls c and d differ in what becomes of their answer, at most.
SameCall(c, d) ==
  /\ c.tab = d.tab /\ c.kind = d.kind /\ c.step = d.step /\ c.ok = d.ok /\ c.mount = d.mount
  /\ c.id = d.id /\ c.values = d.values

\* Call d is one a step of t may send.
SentBy(t, d) ==
  /\ d.step = "sent" /\ d.ok = FALSE
  /\ tab'[t].at = "opening" /\ d.mount = tab'[t].mount => d.kind \in {"acquire", "fetch"}
  /\ d.kind = "fetch" => tab'[t].held
  /\ d.kind = "update" =>
       /\ tab[t].at = "editing" /\ tab[t].id # NoId
       /\ d.id = tab[t].id /\ d.mount = tab[t].mount /\ d.values = tab[t].values
       /\ Alike(tab'[t], tab[t])
  /\ d.kind \in {"submit", "docs"} =>
       \/ /\ tab[t].at = "editing" /\ tab[t].id # NoId
          /\ d.id = tab[t].id /\ d.mount = tab[t].mount
          /\ tab'[t].at # "dashboard" => tab'[t].id = tab[t].id
       \/ \E c \in calls : /\ c.tab = t /\ c.kind \in {"create", "update"} /\ c.ok
                           /\ c.id = d.id /\ c.mount = d.mount
                           /\ c.kind = "create" /\ Live(c) /\ tab'[t].at # "dashboard"
                                => tab'[t].id = c.id

\* The answer of call c is handled by the editor that sent it.
Handles(t, c) == c \in calls /\ c.tab = t /\ Live(c) /\ c.ok

\* The same editor: its form may have grown, its lock may be new or released.
Stays(t) ==
  LET r == tab[t]
      m == tab'[t]
  IN  /\ r.at # "dashboard"
      /\ m.at = r.at /\ m.mount = r.mount /\ m.fresh = r.fresh /\ m.id = r.id
      /\ r.values.typed \subseteq m.values.typed /\ m.persisted.typed = r.persisted.typed
      /\ m.held => \/ r.held \/ r.at = "editing"
                   \/ \E c : Handles(t, c) /\ c.kind = "acquire"
      /\ r.at = "opening" => (r.held => m.held) /\ (m.dialog => r.dialog)

\* The answer of an update: what was sent counts as persisted.
Saved(t) ==
  LET r == tab[t]
      m == tab'[t]
  IN  \E c : /\ Handles(t, c) /\ c.kind = "update"
             /\ r.at = "editing"
             /\ m.at = r.at /\ m.mount = r.mount /\ m.fresh = r.fresh /\ m.id = r.id
             /\ m.values = r.values /\ m.persisted = c.values

\* The answer replaces the form of the screen.
Loaded(t) ==
  LET r == tab[t]
      m == tab'[t]
  IN  \E c : /\ Handles(t, c) /\ c.kind \in Loads
             /\ r.at = "editing" \/ (r.at = "opening" /\ c.kind = "fetch")
             /\ m.at = "editing" /\ m.mount = r.mount /\ m.fresh = r.fresh
             /\ m.id = IF c.kind = "docs" THEN r.id ELSE c.id
             /\ m.values = c.values /\ m.persisted = c.values

\* A new editor, and the restart of a fresh one.
Mounts(t) ==
  LET m == tab'[t]
  IN  /\ m.mount = tab[t].mount + 1
      /\ m.values = Blank /\ m.persisted = Blank /\ ~m.held /\ ~m.dialog
      /\ m.at = "editing" => m.fresh /\ m.id = NoId

Restarts(t) ==
  LET m == tab'[t]
  IN  /\ tab[t].at = "editing" /\ tab[t].fresh
      /\ m.at = "editing" /\ m.fresh /\ m.mount = tab[t].mount
      /\ m.id = NoId

Evolves(t) ==
  /\ \A d \in calls' : d.tab = t => SentBy(t, d) \/ \E c \in calls : SameCall(c, d)
  /\ \/ tab'[t].at = "dashboard"
     \/ Stays(t) \/ Saved(t) \/ Loaded(t) \/ Mounts(t) \/ Restarts(t)

\* A call sent after a save of campaign i, or on leaving.
Follows(t, d, i) ==
  /\ d.tab = t /\ d.mount = tab[t].mount /\ d.step = "sent" /\ d.ok = FALSE
  /\ d.kind = "release" \/ (d.kind \in {"submit", "po", "docs"} /\ d.id = i)

\* The handlers of t hand over with screen m, calls cs and campaign i.
Outcome(t, m, cs, i) ==
  /\ tab'[t].at = "dashboard" \/ Alike(tab'[t], m)
  /\ \A d \in calls' : d \in cs \/ Follows(t, d, i)

\* What is sent after a save of campaign i, or on leaving.
LEMMA SentFollows ==
  ASSUME NEW t, NEW cs, NEW kind, NEW next, NEW j, NEW i, NEW v, Send(cs, t, kind, next, j, v),
         kind = "release" \/ (kind \in {"submit", "po", "docs"} /\ j = i)
  PROVE  \A d \in calls' : d \in cs \/ Follows(t, d, i)
BY DEF Send, NewCall, Follows

\* The editor closes, perhaps asking for the release of its lock.
LEMMA UnmountGives ==
  ASSUME EditorInv, NEW t \in Tabs, NEW m, NEW cs, NEW i, Unmount(t, m, cs)
  PROVE  tab'[t].at = "dashboard" /\ Outcome(t, m, cs, i)
<1>1. tab'[t].at = "dashboard"
  BY UnmountHands
<1>2. CASE m.held /\ m.id # NoId
  <2>1. PICK j : j = m.id
    OBVIOUS
  <2>2. Send(cs, t, "release", "none", j, Blank)
    BY <1>2, <2>1 DEF Unmount
  <2>3. \A d \in calls' : d \in cs \/ Follows(t, d, i)
    BY <2>2, SentFollows
  <2> QED BY <1>1, <2>3 DEF Outcome
<1>3. CASE ~(m.held /\ m.id # NoId)
  BY <1>1, <1>3 DEF Unmount, Outcome
<1> QED BY <1>1, <1>2, <1>3

\* Leaving keeps the form.
LEMMA LeaveGives ==
  ASSUME EditorInv, NEW t \in Tabs, NEW m \in TabType, NEW cs, NEW i, m.at # "opening",
         ReleaseAndLeave(t, m, cs)
  PROVE  Outcome(t, m, cs, i)
<1>1. CASE m.held /\ m.id # NoId
  <2>1. tab' = [tab EXCEPT ![t] = [m EXCEPT !.held = FALSE]]
        /\ Send(cs, t, "release", "leave", m.id, Blank)
    BY <1>1 DEF ReleaseAndLeave
  <2>2. tab'[t] = [m EXCEPT !.held = FALSE]
    BY <2>1, InvOfTab
  <2>3. Alike(tab'[t], m)
    BY <2>2 DEF TabType, Alike
  <2>4. PICK j : j = m.id
    OBVIOUS
  <2>5. Send(cs, t, "release", "leave", j, Blank)
    BY <2>1, <2>4
  <2>6. \A d \in calls' : d \in cs \/ Follows(t, d, i)
    BY <2>5, SentFollows
  <2> QED BY <2>3, <2>6 DEF Outcome
<1>2. CASE ~(m.held /\ m.id # NoId)
  <2>1. Unmount(t, m, cs)
    BY <1>2 DEF ReleaseAndLeave
  <2> QED BY <2>1, UnmountGives
<1> QED BY <1>1, <1>2

\* So do the callers of saveCampaignDraft.
LEMMA ContinueGives ==
  ASSUME EditorInv, NEW t \in Tabs, NEW m \in TabType, NEW cs, NEW next, NEW i,
         m.at # "opening", Continue(t, next, m, i, cs)
  PROVE  Outcome(t, m, cs, i)
<1>1. CASE next \in {"leave", "saveleave", "artleave"}
  <2> DEFINE d == [m EXCEPT !.dialog = FALSE]
  <2>1. ReleaseAndLeave(t, d, cs)
    BY <1>1 DEF Continue
  <2>2. d \in TabType /\ Alike(d, m) /\ d.at # "opening"
    BY DEF TabType, Alike
  <2> HIDE DEF d
  <2>3. Outcome(t, d, cs, i)
    BY <2>1, <2>2, LeaveGives
  <2> QED BY <2>2, <2>3 DEF Outcome, Alike
<1>2. CASE next \in {"submit", "po", "docs"}
  <2>1. tab' = [tab EXCEPT ![t] = m] /\ Send(cs, t, next, "none", i, Blank)
    BY <1>2 DEF Continue
  <2>2. tab'[t] = m
    BY <2>1, InvOfTab
  <2>3. \A d \in calls' : d \in cs \/ Follows(t, d, i)
    BY <1>2, <2>1, SentFollows
  <2> QED BY <2>2, <2>3 DEF Outcome, Alike
<1>3. CASE next \notin {"leave", "saveleave", "artleave", "submit", "po", "docs"}
  <2>1. tab' = [tab EXCEPT ![t] = m] /\ calls' = cs
    BY <1>3 DEF Continue
  <2>2. tab'[t] = m
    BY <2>1, InvOfTab
  <2> QED BY <2>1, <2>2 DEF Outcome, Alike
<1> QED BY <1>1, <1>2, <1>3

\* Handing over with the form of the screen, and calls that were there.
LEMMA OutcomeEvolves ==
  ASSUME NEW t, NEW m, NEW cs \in SUBSET calls, NEW i, Outcome(t, m, cs, i),
         Alike(m, tab[t]), tab[t].at = "editing",
         i = tab[t].id /\ i # NoId
  PROVE  Evolves(t)
<1>1. ASSUME NEW d \in calls', d.tab = t
      PROVE  SentBy(t, d) \/ \E c \in calls : SameCall(c, d)
  <2>1. CASE d \in cs
    BY <2>1 DEF SameCall
  <2>2. CASE d \notin cs
    BY <2>2 DEF Outcome, Follows, SentBy, Alike
  <2> QED BY <2>1, <2>2
<1>2. tab'[t].at = "dashboard" \/ Stays(t)
  BY DEF Outcome, Alike, Stays
<1> QED BY <1>1, <1>2 DEF Evolves

\* The editor closes, with calls that were there and perhaps a release.
LEMMA ClosesEvolves ==
  ASSUME EditorInv, NEW t \in Tabs, NEW m, NEW cs \in SUBSET calls, Unmount(t, m, cs)
  PROVE  Evolves(t)
<1>1. tab'[t].at = "dashboard"
  BY UnmountGives
<1>2. \A d \in calls' : d \in cs \/ (d.kind = "release" /\ d.step = "sent" /\ d.ok = FALSE)
  BY DEF Unmount, Send, NewCall
<1>3. \A d \in calls' : SentBy(t, d) \/ d \in calls
  BY <1>1, <1>2 DEF SentBy
<1> QED BY <1>1, <1>3 DEF Evolves, SameCall

\* So does leaving it, which may first release the lock.
LEMMA LeavesEvolves ==
  ASSUME EditorInv, NEW t \in Tabs, NEW m \in TabType, NEW cs \in SUBSET calls,
         ReleaseAndLeave(t, m, cs), Alike(m, tab[t]), tab[t].at = "editing"
  PROVE  Evolves(t)
<1>1. CASE m.held /\ m.id # NoId
  <2>1. PICK i : i = tab[t].id
    OBVIOUS
  <2>2. Outcome(t, m, cs, i)
    BY LeaveGives DEF Alike
  <2>3. i # NoId
    BY <1>1, <2>1 DEF Alike
  <2> QED BY <2>1, <2>2, <2>3, OutcomeEvolves
<1>2. CASE ~(m.held /\ m.id # NoId)
  BY <1>2, ClosesEvolves DEF ReleaseAndLeave
<1> QED BY <1>1, <1>2

\* Saving the draft, from an open editor.
LEMMA SaveEvolves ==
  ASSUME EditorInv, NEW t \in Tabs, NEW m \in TabType, NEW next, SaveDraft(t, next, m),
         Alike(m, tab[t]), tab[t].at = "editing"
  PROVE  Evolves(t)
<1>0. m.at # "opening"
  BY DEF Alike
<1>1. CASE tab[t].id # NoId /\ ~HasUnsavedChanges(t)
  <2>1. PICK i : i = tab[t].id
    OBVIOUS
  <2>2. Continue(t, next, m, i, calls)
    BY <1>1, <2>1 DEF SaveDraft
  <2>3. Outcome(t, m, calls, i)
    BY <1>0, <2>2, ContinueGives
  <2> QED BY <1>1, <2>1, <2>3, OutcomeEvolves
<1>2. CASE ~(tab[t].id # NoId /\ ~HasUnsavedChanges(t))
  <2>1. PICK i, v, kind : /\ i = tab[t].id /\ v = tab[t].values
                          /\ kind = IF tab[t].id = NoId THEN "create" ELSE "update"
    OBVIOUS
  <2>2. Send(calls, t, kind, next, i, v) /\ tab' = [tab EXCEPT ![t] = [m EXCEPT !.saving = TRUE]]
    BY <1>2, <2>1 DEF SaveDraft
  <2>3. tab'[t] = [m EXCEPT !.saving = TRUE]
    BY <2>2, InvOfTab
  <2>4. Alike(tab'[t], tab[t])
    BY <2>3 DEF Alike, TabType
  <2>5. ASSUME NEW d \in calls', d.tab = t
        PROVE  SentBy(t, d) \/ \E c \in calls : SameCall(c, d)
    <3>1. CASE d \in calls
      BY <3>1 DEF SameCall
    <3>2. CASE d \notin calls
      <4>1. /\ d.mount = tab[t].mount /\ d.kind = kind
            /\ d.step = "sent" /\ d.ok = FALSE /\ d.id = i /\ d.values = v
        BY <2>2, <3>2 DEF Send, NewCall
      <4>2. SentBy(t, d)
        BY <2>1, <2>4, <4>1 DEF SentBy, Alike
      <4> QED BY <4>2
    <3> QED BY <3>1, <3>2
  <2>6. Stays(t)
    BY <2>4 DEF Alike, Stays
  <2> QED BY <2>5, <2>6 DEF Evolves
<1> QED BY <1>1, <1>2

\* No call is sent.
LEMMA CalmEvolves ==
  ASSUME NEW t, \A d \in calls' : d.tab = t => \E c \in calls : SameCall(c, d),
         \/ tab'[t].at = "dashboard"
         \/ Stays(t) \/ Saved(t) \/ Loaded(t)
  PROVE  Evolves(t)
BY DEF Evolves

\* A bootstrap asks for the lock of its campaign, unless the form is fresh.
LEMMA BootEvolves ==
  ASSUME EditorInv, NEW t \in Tabs, NEW m, Bootstrap(t, m),
         tab'[t] = m => Stays(t) \/ Mounts(t) \/ Restarts(t)
  PROVE  Evolves(t)
<1>1. tab'[t] = m
  BY InvOfTab DEF Bootstrap
<1>2. ASSUME NEW d \in calls', d.tab = t
      PROVE  SentBy(t, d) \/ \E c \in calls : SameCall(c, d)
  <2>1. CASE d \in calls
    BY <2>1 DEF SameCall
  <2>2. CASE d \notin calls
    <3>1. d.kind = "acquire" /\ d.step = "sent" /\ d.ok = FALSE
      BY <1>2, <2>2 DEF Bootstrap, NewCall
    <3> QED BY <3>1 DEF SentBy
  <2> QED BY <2>1, <2>2
<1> QED BY <1>1, <1>2 DEF Evolves

\* What the user, the timers and the upload queue do to the editor of t.
LEMMA UserEvolves ==
  ASSUME EditorInv, NEW t \in Tabs, Opening(t),
         User(t) \/ AutoSave(t) \/ ShellRenders(t) \/ MergeBatch(t)
  PROVE  Evolves(t)
<1> DEFINE r == tab[t]
           l == [tab[t] EXCEPT !.leaving = TRUE]
<1>1. tab \in [Tabs -> TabType] /\ r \in TabType /\ TabFine(Used, t, r)
  BY InvOfTab
<1>2. l \in TabType /\ Alike(l, r)
  BY <1>1 DEF TabType, Alike
<1>3. CASE Open(t)
  <2>1. PICK i, f : /\ Bootstrap(t, Boot(t, r.mount + 1, i, f))
                    /\ f \in BOOLEAN /\ (f => i = NoId)
    BY <1>3 DEF Open
  <2>2. PICK b : b = Boot(t, r.mount + 1, i, f)
    OBVIOUS
  <2>3. tab'[t] = b => Mounts(t)
    BY <2>1, <2>2 DEF Boot, Closed, Mounts
  <2>4. Bootstrap(t, b)
    BY <2>1, <2>2
  <2> QED BY <2>3, <2>4, BootEvolves
<1>4. CASE Refresh(t)
  <2> DEFINE b == [Boot(t, r.mount + 1, r.url, r.fresh) EXCEPT !.page = r.mount + 1]
  <2>1. Bootstrap(t, b)
    BY <1>4 DEF Refresh
  <2>2. r.fresh \in BOOLEAN /\ (r.fresh => r.url = NoId)
    BY <1>1 DEF TabFine, TabType
  <2>3. tab'[t] = b => Mounts(t)
    BY <2>2 DEF Boot, Closed, Mounts
  <2> HIDE DEF b
  <2> QED BY <2>1, <2>3, BootEvolves
<1>5. CASE Type(t)
  <2>1. r.at = "editing"
    BY <1>5 DEF Type, Editing
  <2>2. calls' = calls /\ Stays(t)
    BY <1>1, <1>5, <2>1 DEF Type, Stays, TabType, Values
  <2> QED BY <2>2, CalmEvolves DEF SameCall
<1>6. CASE AutoSave(t) \/ \E next \in Handlers : Explicit(t, next)
  <2>1. PICK next : SaveDraft(t, next, r)
    BY <1>6 DEF AutoSave, Explicit
  <2>2. r.at = "editing"
    BY <1>6 DEF AutoSave, Explicit, HasUnsavedChanges, Editing
  <2>3. Alike(r, r)
    BY DEF Alike
  <2> QED BY <1>1, <2>1, <2>2, <2>3, SaveEvolves
<1>7. CASE ShellRenders(t)
  <2>1. r.at = "editing"
    BY <1>7 DEF ShellRenders
  <2>2. CASE r.fresh
    <3> DEFINE b == [Boot(t, r.mount, NoId, TRUE)
                       EXCEPT !.held = r.held, !.first = r.first, !.shell = FALSE]
    <3>1. Bootstrap(t, b)
      BY <1>7, <2>2 DEF ShellRenders
    <3>2. tab'[t] = b => Restarts(t)
      BY <2>1, <2>2 DEF Boot, Closed, Restarts
    <3> HIDE DEF b
    <3> QED BY <3>1, <3>2, BootEvolves
  <2>3. CASE ~r.fresh
    <3> DEFINE b == [r EXCEPT !.shell = FALSE]
    <3>1. Bootstrap(t, b)
      BY <1>7, <2>3 DEF ShellRenders
    <3>2. tab'[t] = b => Stays(t)
      BY <1>1, <2>1 DEF TabType, Stays
    <3> HIDE DEF b
    <3> QED BY <3>1, <3>2, BootEvolves
  <2> QED BY <2>2, <2>3
<1>8. CASE MergeBatch(t)
  <2>1. PICK done : tab' = [tab EXCEPT ![t] = [tab[t] EXCEPT !.values.art = @ \cup done,
                                                             !.persisted.art = @ \cup done]]
    BY <1>8 DEF MergeBatch
  <2>2. tab'[t] = [r EXCEPT !.values.art = @ \cup done, !.persisted.art = @ \cup done]
    BY <1>1, <2>1
  <2>3. r.at # "dashboard"
    BY <1>1, <1>8 DEF MergeBatch, TabFine
  <2>4. Stays(t)
    BY <1>1, <2>2, <2>3 DEF TabType, Values, Stays
  <2>5. calls' = calls
    BY <1>8 DEF MergeBatch
  <2> QED BY <2>4, <2>5, CalmEvolves DEF SameCall
<1>9. CASE BackToDashboard(t)
  <2> DEFINE pending == {c \in MyCalls(t) : Live(c) /\ c.next = "art"}
  <2>0. r.at = "editing"
    BY <1>9 DEF BackToDashboard, Editing
  <2>1. \/ /\ calls' = (calls \ pending) \cup {[c EXCEPT !.next = "artleave"] : c \in pending}
           /\ tab' = [tab EXCEPT ![t] = l]
        \/ ReleaseAndLeave(t, l, calls)
        \/ SaveDraft(t, "leave", l)
    BY <1>9 DEF BackToDashboard
  <2> HIDE DEF l
  <2>2. ASSUME calls' = (calls \ pending) \cup {[c EXCEPT !.next = "artleave"] : c \in pending},
               tab' = [tab EXCEPT ![t] = l]
        PROVE  Evolves(t)
    <3>1. calls \subseteq CallType
      BY DEF EditorInv, ScreensOK
    <3>2. \A c \in pending : SameCall(c, [c EXCEPT !.next = "artleave"])
      BY <3>1 DEF SameCall, CallType, MyCalls
    <3>3. \A c : SameCall(c, c)
      BY DEF SameCall
    <3>4. \A d \in calls' : \E c \in calls : SameCall(c, d)
      BY <2>2, <3>2, <3>3 DEF MyCalls
    <3>5. tab'[t] = l
      BY <1>1, <2>2
    <3>6. Stays(t)
      BY <1>2, <2>0, <3>5 DEF Alike, Stays
    <3> HIDE DEF pending
    <3> QED BY <3>4, <3>6, CalmEvolves
  <2>3. CASE ReleaseAndLeave(t, l, calls)
    BY <1>2, <2>0, <2>3, LeavesEvolves
  <2>4. CASE SaveDraft(t, "leave", l)
    BY <1>2, <2>0, <2>4, SaveEvolves
  <2> QED BY <2>1, <2>2, <2>3, <2>4
<1>10. CASE Dialog(t)
  <2> DEFINE d == [l EXCEPT !.dialog = FALSE]
  <2>0. r.at = "editing"
    BY <1>1, <1>10 DEF Dialog, TabFine, Opening, TabType
  <2>1. \/ SaveDraft(t, "saveleave", l)
        \/ ReleaseAndLeave(t, d, calls)
        \/ tab' = [tab EXCEPT ![t].dialog = FALSE] /\ calls' = calls
    BY <1>10 DEF Dialog
  <2> HIDE DEF l
  <2>2. d \in TabType /\ Alike(d, r)
    BY <1>2 DEF TabType, Alike
  <2> HIDE DEF d
  <2>3. CASE SaveDraft(t, "saveleave", l)
    BY <1>2, <2>0, <2>3, SaveEvolves
  <2>4. CASE ReleaseAndLeave(t, d, calls)
    BY <2>0, <2>2, <2>4, LeavesEvolves
  <2>5. CASE tab' = [tab EXCEPT ![t].dialog = FALSE] /\ calls' = calls
    <3>1. Stays(t)
      BY <1>1, <2>0, <2>5 DEF TabType, Stays
    <3> QED BY <2>5, <3>1, CalmEvolves DEF SameCall
  <2> QED BY <2>1, <2>3, <2>4, <2>5
<1>11. CASE NavigateAway(t)
  <2>1. PICK m : m = r
    OBVIOUS
  <2>2. Unmount(t, m, calls)
    BY <1>11, <2>1 DEF NavigateAway
  <2> QED BY <2>2, ClosesEvolves
<1> QED BY <1>3, <1>4, <1>5, <1>6, <1>7, <1>8, <1>9, <1>10, <1>11 DEF User

\* Leaving sends nothing but the release.
LEMMA LeaveSends ==
  ASSUME NEW t, NEW m, NEW cs, ReleaseAndLeave(t, m, cs)
  PROVE  \A d \in calls' : d \in cs \/ (d.kind = "release" /\ d.step = "sent" /\ d.ok = FALSE)
BY DEF ReleaseAndLeave, Unmount, Send, NewCall

\* The form of the screen once a save was answered, and once it failed.
LEMMA AfterSaveForm ==
  ASSUME NEW c, tab[c.tab] \in TabType
  PROVE  LET r == tab[c.tab]
             m == AfterSave(c)
         IN  /\ m.at = r.at /\ m.mount = r.mount /\ m.fresh = r.fresh
             /\ m.persisted = c.values
             /\ c.kind # "create" => m.id = r.id /\ m.values = r.values
             /\ c.kind = "create" => m.id = c.id /\ m.values = c.values
BY DEF AfterSave, TabType

\* What a failed save leaves of the screen: its form and its lock.
LEMMA AfterFailureForm ==
  ASSUME NEW c, tab[c.tab] \in TabType, tab[c.tab].at = "editing"
  PROVE  LET r == tab[c.tab]
             m == AfterFailure(c)
         IN  /\ m.at = r.at /\ m.mount = r.mount /\ m.fresh = r.fresh /\ m.id = r.id
             /\ m.values = r.values /\ m.persisted = r.persisted /\ m.held = r.held
BY DEF AfterFailure, TabType

\* What a save that was answered goes on with.
LEMMA SavedEvolves ==
  ASSUME EditorInv, NEW c \in calls, SaveAnswered(c), NEW t \in Tabs, t = c.tab,
         tab[t].at = "editing"
  PROVE  Evolves(t)
<1>1. PICK m, i, next : m = AfterSave(c) /\ i = c.id /\ next = c.next
  OBVIOUS
<1>2. Handles(t, c) /\ c.kind \in {"create", "update"} /\ c.mount = tab[t].mount
  BY DEF SaveAnswered, Handles, Live
<1>3. tab[t] \in TabType /\ c \in CallType /\ CallFine(Used, c) /\ CallFits(c, tab[t])
      /\ TabFine(Used, t, tab[t])
  BY InvOfTab, InvOfCall
<1>4. m \in TabType
  BY <1>1, <1>2, <1>3, AfterSaveFine DEF Handles, TabFine, Used
<1>5. /\ m.at = "editing" /\ m.mount = tab[t].mount /\ m.fresh = tab[t].fresh
      /\ m.persisted = c.values
      /\ c.kind # "create" => m.id = tab[t].id /\ m.values = tab[t].values
      /\ c.kind = "create" => m.id = c.id /\ m.values = c.values
  BY <1>1, <1>3, AfterSaveForm
<1>6. Continue(t, next, m, i, calls \ {c})
  BY <1>1 DEF SaveAnswered
<1>7. Outcome(t, m, calls \ {c}, i)
  BY <1>4, <1>5, <1>6, ContinueGives
<1>8. ASSUME NEW d \in calls', d.tab = t
      PROVE  SentBy(t, d) \/ \E e \in calls : SameCall(e, d)
  <2>1. CASE d \in calls
    BY <2>1 DEF SameCall
  <2>2. CASE d \notin calls
    <3>1. /\ Follows(t, d, i)
          /\ \/ tab'[t].at = "dashboard"
             \/ tab'[t].at = "editing" /\ (c.kind = "create" => tab'[t].id = c.id)
      BY <1>5, <1>7, <2>2 DEF Outcome, Alike
    <3> QED BY <1>1, <1>2, <3>1 DEF Follows, SentBy, Handles
  <2> QED BY <2>1, <2>2
<1>9. tab'[t].at = "dashboard" \/ Saved(t) \/ Loaded(t)
  BY <1>2, <1>5, <1>7 DEF Outcome, Alike, Saved, Loaded, Loads
<1> QED BY <1>8, <1>9 DEF Evolves

\* What handling an answer does to the editor.
LEMMA AnswerEvolves ==
  ASSUME EditorInv, NEW c \in calls, Answered(c), NEW t \in Tabs, t = c.tab, Opening(t)
  PROVE  Evolves(t)
<1> DEFINE r  == tab[t]
           cs == calls \ {c}
<1>1. tab \in [Tabs -> TabType] /\ r \in TabType /\ TabFine(Used, t, r)
  BY InvOfTab
<1>2. c \in CallType /\ CallFine(Used, c) /\ CallFits(c, r)
  BY InvOfCall
<1>3. PICK u : u = r
  OBVIOUS
<1>4. \A d : d \in cs => d \in calls /\ SameCall(d, d)
  BY DEF SameCall
<1>5. Live(c) /\ c.kind \notin {"acquire", "fetch"} => r.at = "editing"
  BY <1>1 DEF Opening, MyCalls, Live, TabType
<1>6. cs \subseteq calls /\ cs \in SUBSET calls
  OBVIOUS
<1> HIDE DEF cs
<1>7. CASE AcquireAnswered(c)
  <2>1. CASE c.ok
    <3>1. tab' = [tab EXCEPT ![t].held = TRUE] /\ Send(cs, t, "fetch", "none", c.id, Blank)
      BY <1>7, <2>1 DEF AcquireAnswered, cs
    <3>2. tab'[t] = [r EXCEPT !.held = TRUE]
      BY <1>1, <3>1
    <3>3. Handles(t, c) /\ c.kind = "acquire" /\ r.at # "dashboard"
      BY <1>7, <2>1 DEF AcquireAnswered, Handles, Live
    <3>4. Stays(t)
      BY <1>1, <3>2, <3>3 DEF Stays, TabType
    <3>5. tab'[t].held
      BY <1>1, <3>2 DEF TabType
    <3>6. \A d \in calls' : d \in cs \/ (d.kind = "fetch" /\ d.step = "sent" /\ d.ok = FALSE)
      BY <3>1 DEF Send, NewCall
    <3>7. \A d \in calls' : SentBy(t, d) \/ \E e \in calls : SameCall(e, d)
      BY <1>4, <3>5, <3>6 DEF SentBy
    <3> QED BY <3>4, <3>7 DEF Evolves
  <2>2. CASE ~c.ok
    <3>1. Unmount(t, u, cs)
      BY <1>3, <1>7, <2>2 DEF AcquireAnswered, cs
    <3> QED BY <1>6, <3>1, ClosesEvolves
  <2> QED BY <2>1, <2>2
<1>8. CASE FetchAnswered(c)
  <2>1. CASE c.ok
    <3>1. calls' = cs
      BY <1>8, <2>1 DEF FetchAnswered, cs
    <3>2. tab'[t] = [r EXCEPT !.at = "editing", !.id = c.id, !.status = c.status,
                              !.values = c.values, !.persisted = c.values]
      BY <1>1, <1>8, <2>1 DEF FetchAnswered
    <3>3. Handles(t, c) /\ c.kind = "fetch" /\ (r.at = "opening" \/ r.at = "editing")
      BY <1>1, <1>8, <2>1 DEF FetchAnswered, Handles, Live, TabType
    <3>4. Loaded(t)
      BY <1>1, <3>2, <3>3 DEF Loaded, Loads, TabType
    <3> QED BY <1>4, <3>1, <3>4, CalmEvolves
  <2>2. CASE ~c.ok
    <3>1. Unmount(t, u, cs)
      BY <1>3, <1>8, <2>2 DEF FetchAnswered, cs
    <3> QED BY <1>6, <3>1, ClosesEvolves
  <2> QED BY <2>1, <2>2
<1>9. CASE SaveAnswered(c)
  <2>1. r.at = "editing"
    BY <1>5, <1>9 DEF SaveAnswered
  <2> QED BY <1>9, <2>1, SavedEvolves
<1>10. CASE SaveRefused(c)
  <2>1. PICK m : m = AfterFailure(c)
    OBVIOUS
  <2>2. r.at = "editing"
    BY <1>5, <1>10 DEF SaveRefused
  <2>3. /\ m.at = r.at /\ m.mount = r.mount /\ m.fresh = r.fresh /\ m.id = r.id
        /\ m.values = r.values /\ m.persisted = r.persisted /\ m.held = r.held
    BY <1>1, <2>1, <2>2, AfterFailureForm
  <2>4. CASE c.next = "artleave"
    <3>1. ReleaseAndLeave(t, m, cs)
      BY <1>10, <2>1, <2>4 DEF SaveRefused, cs
    <3>2. m \in TabType /\ (c.next = "artleave" => m.dialog = r.dialog)
      <4>1. m \in TabType
        BY <1>1, <1>2, <2>1, <2>2, AfterFailureFine DEF TabFine, Used
      <4>2. c.next = "artleave" => m.dialog = r.dialog
        BY <1>1, <2>1 DEF AfterFailure, TabType
      <4> QED BY <4>1, <4>2
    <3>3. Alike(m, r)
      BY <2>2, <2>3, <2>4, <3>2 DEF Alike
    <3> QED BY <1>6, <2>2, <3>1, <3>2, <3>3, LeavesEvolves
  <2>5. CASE c.next # "artleave"
    <3>1. tab' = [tab EXCEPT ![t] = m] /\ calls' = cs
      BY <1>10, <2>1, <2>5 DEF SaveRefused, cs
    <3>2. tab'[t] = m
      BY <1>1, <3>1
    <3>3. Stays(t)
      BY <2>2, <2>3, <3>2 DEF Stays
    <3> QED BY <1>4, <3>1, <3>3, CalmEvolves
  <2> QED BY <2>4, <2>5
<1>11. CASE HandlerAnswered(c)
  <2> DEFINE f == [r EXCEPT !.values = c.values, !.persisted = c.values, !.status = c.status]
             g == [f EXCEPT !.status = "submitted", !.id = c.id]
  <2>1. \/ c.ok /\ c.kind = "submit" /\ ReleaseAndLeave(t, g, cs)
        \/ c.ok /\ c.kind = "docs" /\ tab' = [tab EXCEPT ![t] = f] /\ calls' = cs
        \/ tab' = tab /\ calls' = cs
    BY <1>11 DEF HandlerAnswered, cs
  <2>2. r.at = "editing" /\ Live(c) /\ c.kind \in {"submit", "po", "docs"}
    BY <1>5, <1>11 DEF HandlerAnswered
  <2>3. /\ f.at = r.at /\ f.mount = r.mount /\ f.fresh = r.fresh /\ f.id = r.id
        /\ f.values = c.values /\ f.persisted = c.values /\ f \in TabType
    BY <1>1, <1>2 DEF TabType, CallType
  <2>4. c.kind # "create" => c.id \in Ids
    BY InvOfCall
  <2> HIDE DEF f
  <2>5. c.kind = "submit" =>
          /\ g.at = r.at /\ g.mount = r.mount /\ g.fresh = r.fresh /\ g.id = c.id
          /\ g.values = c.values /\ g.persisted = c.values /\ g \in TabType
    BY <2>3, <2>4 DEF TabType
  <2> HIDE DEF g
  <2>6. CASE c.ok /\ c.kind = "submit" /\ ReleaseAndLeave(t, g, cs)
    <3>1. PICK i : Outcome(t, g, cs, i)
      BY <2>2, <2>5, <2>6, LeaveGives
    <3>2. Handles(t, c)
      BY <2>2, <2>6 DEF Handles
    <3>3. tab'[t].at = "dashboard" \/ Loaded(t)
      BY <2>2, <2>5, <2>6, <3>1, <3>2 DEF Outcome, Alike, Loaded, Loads
    <3>4. \A d \in calls' : d \in cs \/ (d.kind = "release" /\ d.step = "sent" /\ d.ok = FALSE)
      BY <2>6, LeaveSends
    <3>5. tab'[t].at # "opening"
      BY <2>2, <2>5, <2>6, <3>1 DEF Outcome, Alike
    <3>6. \A d \in calls' : SentBy(t, d) \/ \E e \in calls : SameCall(e, d)
      BY <1>4, <3>4, <3>5 DEF SentBy
    <3> QED BY <3>3, <3>6 DEF Evolves
  <2>7. CASE c.ok /\ c.kind = "docs" /\ tab' = [tab EXCEPT ![t] = f] /\ calls' = cs
    <3>1. tab'[t] = f
      BY <1>1, <2>7
    <3>2. Handles(t, c)
      BY <2>2, <2>7 DEF Handles
    <3>3. Loaded(t)
      BY <2>2, <2>3, <2>7, <3>1, <3>2 DEF Loaded, Loads
    <3> QED BY <1>4, <2>7, <3>3, CalmEvolves
  <2>8. CASE tab' = tab /\ calls' = cs
    <3>1. Stays(t)
      BY <2>2, <2>8 DEF Stays
    <3> QED BY <1>4, <2>8, <3>1, CalmEvolves
  <2> QED BY <2>1, <2>6, <2>7, <2>8
<1>12. CASE ReleaseAnswered(c)
  <2>1. \/ Unmount(t, u, cs)
        \/ calls' = cs /\ tab' = tab
    BY <1>3, <1>12 DEF ReleaseAnswered, cs
  <2>2. CASE Unmount(t, u, cs)
    BY <1>6, <2>2, ClosesEvolves
  <2>3. CASE calls' = cs /\ tab' = tab
    <3>1. Stays(t)
      BY <1>12, <2>3 DEF Stays, ReleaseAnswered, Live
    <3> QED BY <1>4, <2>3, <3>1, CalmEvolves
  <2> QED BY <2>1, <2>2, <2>3
<1>13. ASSUME calls' = cs, tab' = tab
       PROVE  Evolves(t)
  <2>1. tab'[t].at = "dashboard" \/ Stays(t)
    BY <1>13 DEF Stays
  <2> QED BY <1>4, <1>13, <2>1, CalmEvolves
<1>14. CASE AnswerIgnored(c)
  BY <1>13, <1>14 DEF AnswerIgnored, cs
<1>15. CASE OrphanAnswered(c)
  <2>1. PICK d : d = NewCall(cs, t, c.mount, c.next, "none", c.id, Blank)
    OBVIOUS
  <2>2. \/ /\ c.ok /\ c.kind \in {"create", "update"} /\ c.next \in {"submit", "po", "docs"}
           /\ calls' = cs \cup {d} /\ tab' = tab
        \/ LateBack(t, cs)
        \/ calls' = cs /\ tab' = tab
    BY <1>15, <2>1 DEF OrphanAnswered, cs
  <2>3. CASE LateBack(t, cs)
    <3>1. CASE r.at = "dashboard"
      BY <1>13, <2>3, <3>1 DEF LateBack
    <3>2. CASE r.at # "dashboard"
      <4>1. Unmount(t, u, cs)
        BY <1>3, <2>3, <3>2 DEF LateBack
      <4> QED BY <1>6, <4>1, ClosesEvolves
    <3> QED BY <3>1, <3>2
  <2>4. ASSUME c.ok, c.kind \in {"create", "update"}, c.next \in {"submit", "po", "docs"},
               calls' = cs \cup {d}, tab' = tab
        PROVE  Evolves(t)
    <3>1. /\ d.kind = c.next /\ d.step = "sent" /\ d.ok = FALSE /\ d.id = c.id
          /\ d.mount = c.mount /\ d.tab = t
      BY <2>1 DEF NewCall
    <3>2. ~(r.at = "opening" /\ d.mount = r.mount)
      BY <1>15, <3>1 DEF OrphanAnswered, Orphan, Live
    <3>3. SentBy(t, d)
      BY <1>15, <2>4, <3>1, <3>2 DEF SentBy, OrphanAnswered, Orphan
    <3>4. tab'[t].at = "dashboard" \/ Stays(t)
      BY <2>4 DEF Stays
    <3> QED BY <1>4, <2>4, <3>3, <3>4 DEF Evolves
  <2> QED BY <1>13, <2>2, <2>3, <2>4
<1> QED BY <1>7, <1>8, <1>9, <1>10, <1>11, <1>12, <1>14, <1>15 DEF Answered

-----------------------------------------------------------------------------
(* A step of tab t, seen by t.                                             *)

\* An editor that is not newly mounted was open before.
LEMMA SameEditor ==
  ASSUME EditorInv, NEW t \in Tabs, Evolves(t), tab'[t].at # "dashboard",
         tab'[t].mount <= tab[t].mount
  PROVE  /\ tab[t].at # "dashboard" /\ tab'[t].mount = tab[t].mount
         /\ tab'[t].fresh = tab[t].fresh
<1>1. tab[t].mount \in Nat /\ tab[t].fresh \in BOOLEAN
  BY InvOfTab, Bounds DEF TabType
<1>2. ~Mounts(t)
  BY <1>1 DEF Mounts
<1>3. Restarts(t) => tab'[t].fresh = tab[t].fresh
  BY <1>1 DEF Restarts
<1> QED BY <1>2, <1>3 DEF Evolves, Stays, Saved, Loaded, Restarts

\* A call of the open editor that is not new was one of it before.
LEMMA LiveBefore ==
  ASSUME EditorInv, NEW t \in Tabs, Evolves(t), NEW d, d.tab = t, Live(d)',
         NEW c \in calls, SameCall(c, d)
  PROVE  /\ c \in MyCalls(t) /\ Live(c)
         /\ tab'[t].mount = tab[t].mount /\ tab'[t].fresh = tab[t].fresh
<1>1. c.tab = t /\ c.mount = d.mount /\ c \in MyCalls(t)
  BY DEF SameCall, MyCalls
<1>2. tab'[t].at # "dashboard" /\ d.mount = tab'[t].mount
  BY DEF Live
<1>3. c.mount <= tab[t].mount /\ c.mount \in Nat /\ tab[t].mount \in Nat
  BY <1>1, InvOfCall, InvOfTab, Bounds DEF CallFits, CallType, TabType
<1>4. tab'[t].mount <= tab[t].mount
  BY <1>1, <1>2, <1>3
<1> QED BY <1>1, <1>2, <1>4, SameEditor DEF Live

\* The calls after the step.
LEMMA CallsAfter ==
  ASSUME NEW t, Evolves(t), NEW d \in MyCalls(t)'
  PROVE  d.tab = t /\ d \in calls' /\ (SentBy(t, d) \/ \E c \in calls : SameCall(c, d))
BY DEF Evolves, MyCalls

\* An editor that is being opened goes on as it did.
LEMMA OpeningKept ==
  ASSUME EditorInv, NEW t \in Tabs, Evolves(t), Opening(t)
  PROVE  Opening(t)'
<1> SUFFICES ASSUME tab'[t].at = "opening"
             PROVE  /\ ~tab'[t].dialog
                    /\ \A d \in MyCalls(t)' : Live(d)' =>
                         /\ d.kind \in {"acquire", "fetch"}
                         /\ d.kind = "fetch" => tab'[t].held
  BY DEF Opening
<1>1. Stays(t) \/ Mounts(t)
  BY DEF Evolves, Saved, Loaded, Restarts
<1>2. ~tab'[t].dialog
  BY <1>1 DEF Stays, Mounts, Opening
<1>3. ASSUME NEW d \in MyCalls(t)', Live(d)'
      PROVE  d.kind \in {"acquire", "fetch"} /\ (d.kind = "fetch" => tab'[t].held)
  <2>1. d.tab = t /\ d.mount = tab'[t].mount
    BY <1>3, CallsAfter DEF Live
  <2>2. CASE SentBy(t, d)
    BY <2>1, <2>2 DEF SentBy
  <2>3. ASSUME NEW c \in calls, SameCall(c, d)
        PROVE  d.kind \in {"acquire", "fetch"} /\ (d.kind = "fetch" => tab'[t].held)
    <3>1. c \in MyCalls(t) /\ Live(c) /\ tab'[t].mount = tab[t].mount
      BY <1>3, <2>1, <2>3, LiveBefore
    <3>2. tab[t].at = "opening" /\ (tab[t].held => tab'[t].held)
      <4>1. tab[t].mount \in Nat
        BY InvOfTab, Bounds DEF TabType
      <4> QED BY <1>1, <3>1, <4>1 DEF Stays, Mounts
    <3> QED BY <2>3, <3>1, <3>2 DEF Opening, SameCall
  <2> QED BY <2>2, <2>3, CallsAfter
<1> QED BY <1>2, <1>3

\* The makers of campaigns do not change.
LEMMA MadeSame ==
  ASSUME Kept, NEW i \in Ids
  PROVE  \A t, m : Made(i, t, m)' <=> Made(i, t, m)
BY DEF Made, Kept

\* A fresh editor still only knows campaigns it has created.
LEMMA MakersKept ==
  ASSUME EditorInv, EditorInv', Kept, NEW t \in Tabs, Evolves(t), Makers(t)
  PROVE  Makers(t)'
<1>0. NoId \notin Ids
  BY EditorAssumption
<1>1. ASSUME tab'[t].at # "dashboard", tab'[t].fresh, tab'[t].id # NoId
      PROVE  Made(tab[t].id, t, tab[t].mount)'
  <2>1. tab'[t].id \in Ids
    BY <1>1, InvOfTab DEF EditorInv, ScreensOK, TabType
  <2>2. CASE /\ tab[t].at # "dashboard" /\ tab'[t].mount = tab[t].mount
        /\ tab'[t].fresh = tab[t].fresh
             /\ tab'[t].id = tab[t].id
    <3>1. Made(tab[t].id, t, tab[t].mount)
      BY <1>1, <2>2 DEF Makers
    <3>2. Made(tab'[t].id, t, tab'[t].mount)
      BY <2>2, <3>1
    <3> QED BY <2>1, <3>2, MadeSame
  <2>3. ASSUME NEW c, Handles(t, c), c.kind \in {"fetch", "submit", "create"},
               tab'[t].mount = tab[t].mount, tab'[t].fresh = tab[t].fresh, tab'[t].id = c.id
        PROVE  Made(tab[t].id, t, tab[t].mount)'
    <3>1. c \in MyCalls(t) /\ Live(c) /\ c.ok /\ c.mount = tab[t].mount
      BY <2>3 DEF Handles, MyCalls, Live
    <3>2. c.kind # "fetch"
      BY <1>1, <2>3, <3>1, InvOfCall DEF CallFits, Live, MyCalls
    <3>3. Made(c.id, t, c.mount)
      BY <1>1, <2>3, <3>1, <3>2 DEF Makers
    <3>4. Made(tab'[t].id, t, tab'[t].mount)
      BY <2>3, <3>1, <3>3
    <3> QED BY <2>1, <3>4, MadeSame
  <2>4. Stays(t) \/ Saved(t) => tab[t].at # "dashboard"
    BY DEF Stays, Saved
  <2>5. ASSUME Loaded(t)
        PROVE  Made(tab[t].id, t, tab[t].mount)'
    <3>1. PICK c : /\ Handles(t, c) /\ c.kind \in Loads /\ tab[t].at # "dashboard"
                   /\ tab'[t].mount = tab[t].mount /\ tab'[t].fresh = tab[t].fresh
                   /\ tab'[t].id = IF c.kind = "docs" THEN tab[t].id ELSE c.id
      BY <2>5 DEF Loaded
    <3> QED BY <2>2, <2>3, <3>1 DEF Loads
  <2>6. ~Mounts(t) /\ ~Restarts(t)
    <3>1. tab'[t].at = "opening" => ~tab'[t].fresh
      BY InvOfTab DEF EditorInv, ScreensOK, ScreenOK, TabFine
    <3>2. tab'[t].at \in {"editing", "opening", "dashboard"}
      BY DEF EditorInv, ScreensOK, TabType
    <3> QED BY <1>1, <3>1, <3>2 DEF Mounts, Restarts
  <2> QED BY <1>1, <2>2, <2>4, <2>5, <2>6 DEF Evolves, Stays, Saved
<1>2. ASSUME NEW d \in MyCalls(t)', d.kind = "create", d.ok
      PROVE  Made(d.id, t, d.mount)'
  <2>1. PICK c \in calls : SameCall(c, d) /\ d.tab = t
    BY <1>2, CallsAfter DEF SentBy
  <2>2. Made(c.id, t, c.mount)
    BY <1>2, <2>1 DEF Makers, MyCalls, SameCall
  <2>3. c.id \in Ids
    BY <1>2, <2>1, InvOfCall DEF CallFine, SameCall, Used
  <2>4. Made(d.id, t, d.mount) /\ d.id \in Ids
    BY <2>1, <2>2, <2>3 DEF SameCall
  <2> QED BY <2>4, MadeSame
<1>3. ASSUME NEW d \in MyCalls(t)', Live(d)', tab'[t].fresh,
             d.kind \in {"update", "submit", "docs"}
      PROVE  Made(d.id, t, d.mount)'
  <2>1. d.tab = t /\ d \in calls' /\ tab'[t].at # "dashboard" /\ d.mount = tab'[t].mount
    BY <1>3, CallsAfter DEF Live
  <2>2. d.id \in Ids
    BY <1>3, <2>1 DEF EditorInv, ScreensOK, ScreenOK, CallFine, Used
  <2>3. Made(d.id, t, d.mount)
    <3>1. ASSUME NEW c \in calls, SameCall(c, d)
          PROVE  Made(d.id, t, d.mount)
      <4>1. c \in MyCalls(t) /\ Live(c) /\ tab[t].fresh
        BY <1>3, <2>1, <3>1, LiveBefore
      <4>2. Made(c.id, t, c.mount)
        BY <1>3, <3>1, <4>1 DEF Makers, SameCall
      <4> QED BY <3>1, <4>2 DEF SameCall
    <3>2. ASSUME NEW c \in calls, c.tab = t, c.kind \in {"create", "update"}, c.ok,
                 c.id = d.id, c.mount = d.mount
          PROVE  Made(d.id, t, d.mount)
      <4>1. CASE c.kind = "create"
        BY <3>2, <4>1 DEF Makers, MyCalls
      <4>2. CASE c.kind = "update"
        <5>1. Live(c) /\ tab[t].fresh
          <6>1. SameCall(c, c)
            BY DEF SameCall
          <6>2. Live(c)'
            BY <2>1, <3>2 DEF Live
          <6> QED BY <1>3, <3>2, <6>1, <6>2, LiveBefore
        <5> QED BY <3>2, <4>2, <5>1 DEF Makers, MyCalls
      <4> QED BY <3>2, <4>1, <4>2
    <3>3. ASSUME tab[t].at = "editing", tab[t].id # NoId, d.id = tab[t].id, d.mount = tab[t].mount
          PROVE  Made(d.id, t, d.mount)
      <4>1. tab[t].fresh
        <5>1. tab[t].mount \in Nat
          BY InvOfTab, Bounds DEF TabType
        <5>2. tab'[t].mount <= tab[t].mount
          BY <2>1, <3>3, <5>1
        <5>3. tab'[t].fresh = tab[t].fresh
          BY <2>1, <5>2, SameEditor
        <5> QED BY <1>3, <5>3
      <4>2. Made(tab[t].id, t, tab[t].mount)
        BY <3>3, <4>1 DEF Makers
      <4> QED BY <3>3, <4>2
    <3> QED BY <1>3, <3>1, <3>2, <3>3, CallsAfter DEF SentBy
  <2> QED BY <2>2, <2>3, MadeSame
<1> QED BY <1>1, <1>2, <1>3 DEF Makers

\* What is granted after a step of the tab was granted before.
LEMMA GrantedBefore ==
  ASSUME EditorInv, Kept, NEW t \in Tabs, Evolves(t), Opening(t), Makers(t),
         EditorInv', NEW i \in Ids, Granted(t, i)'
  PROVE  Granted(t, i)
<1>1. CASE /\ tab'[t].id = i /\ ~tab'[t].fresh
           /\ tab'[t].at = "editing" \/ tab'[t].held
  <2>1. tab'[t].at # "dashboard"
    <3>1. tab'[t].at = "dashboard" => ~tab'[t].held
      BY InvOfTab DEF EditorInv, ScreensOK, ScreenOK, TabFine
    <3> QED BY <1>1, <3>1
  <2>2. ~Mounts(t) /\ ~Restarts(t)
    BY <1>1 DEF Mounts, Restarts
  <2>3. ASSUME NEW c, Handles(t, c), c.kind # "create", ~tab[t].fresh
        PROVE  c \in MyCalls(t) /\ Live(c) /\ c.id = tab[t].id /\ c.ok
    BY <2>3, InvOfCall DEF Handles, MyCalls, CallFits, Live
  <2>4. CASE Stays(t)
    <3>1. tab[t].id = i /\ ~tab[t].fresh /\ (tab'[t].at = "editing" <=> tab[t].at = "editing")
      BY <1>1, <2>4 DEF Stays
    <3>2. CASE tab[t].held \/ tab[t].at = "editing"
      BY <3>1, <3>2 DEF Granted
    <3>3. ASSUME NEW c, Handles(t, c), c.kind = "acquire"
          PROVE  Granted(t, i)
      BY <2>3, <3>1, <3>3 DEF Granted
    <3> QED BY <1>1, <2>4, <3>1, <3>2, <3>3 DEF Stays
  <2>5. CASE Saved(t)
    BY <1>1, <2>5 DEF Saved, Granted
  <2>6. CASE Loaded(t)
    <3>1. PICK c : /\ Handles(t, c) /\ c.kind \in Loads
                   /\ tab[t].at = "editing" \/ (tab[t].at = "opening" /\ c.kind = "fetch")
                   /\ tab'[t].fresh = tab[t].fresh
                   /\ tab'[t].id = IF c.kind = "docs" THEN tab[t].id ELSE c.id
      BY <2>6 DEF Loaded
    <3>2. ~tab[t].fresh
      BY <1>1, <3>1
    <3>3. c.kind # "create"
      BY <3>1, <3>2, InvOfCall DEF Handles, CallFits, Live
    <3>4. c \in MyCalls(t) /\ Live(c) /\ c.id = tab[t].id
      BY <2>3, <3>1, <3>2, <3>3
    <3>5. tab[t].id = i
      BY <1>1, <3>1, <3>4
    <3>6. tab[t].at = "editing" \/ tab[t].held
      BY <3>1, <3>4 DEF Opening
    <3> QED BY <3>2, <3>5, <3>6 DEF Granted
  <2> QED BY <2>1, <2>2, <2>4, <2>5, <2>6 DEF Evolves
<1>2. ASSUME NEW d \in MyCalls(t)', d.id = i,
             \/ d.kind = "update" /\ (d.step = "checked" \/ ~Made(i, t, d.mount)')
             \/ d.kind = "acquire" /\ d.ok
      PROVE  Granted(t, i)
  <2>1. d.kind = "update" /\ d.step # "checked" => ~Made(i, t, d.mount)
    BY <1>2, MadeSame
  <2>2. ASSUME NEW c \in calls, SameCall(c, d)
        PROVE  Granted(t, i)
    <3>1. c \in MyCalls(t)
      BY <2>2, CallsAfter DEF MyCalls, SameCall
    <3> QED BY <1>2, <2>1, <2>2, <3>1 DEF Granted, SameCall
  <2>3. CASE SentBy(t, d)
    <3>1. /\ d.kind = "update" /\ d.step = "sent"
          /\ tab[t].at = "editing" /\ d.id = tab[t].id /\ d.mount = tab[t].mount
          /\ tab[t].id # NoId
      BY <1>2, <2>3 DEF SentBy
    <3>2. ~tab[t].fresh
      BY <1>2, <2>1, <3>1 DEF Makers
    <3> QED BY <1>2, <3>1, <3>2 DEF Granted
  <2> QED BY <2>2, <2>3, CallsAfter
<1> QED BY <1>1, <1>2 DEF Granted

\* What a tab is entitled to, when nobody is given a lock or something new to
\* work on.
LEMMA EntitledKept ==
  ASSUME \A t \in Tabs : Entitled(t), taken \subseteq taken',
         \A s \in Tabs : \A i \in Ids : Granted(s, i)' => Granted(s, i),
         \A i \in Ids : lock'[i] \in {lock[i], Nobody},
         NEW t \in Tabs
  PROVE  Entitled(t)'
BY DEF Entitled

\* The calls with a form of a tab that had them one at a time.
LEMMA OneForm ==
  ASSUME EditorInv, NEW t \in Tabs, t \notin overlapped,
         NEW c \in MyCalls(t), NEW d \in MyCalls(t),
         c.kind \in {"fetch", "create", "update", "submit", "docs"},
         d.kind \in {"fetch", "create", "update", "submit", "docs"}
  PROVE  c = d
BY DEF EditorInv, MarksOK, FormCalls, MyCalls

\* A step that leaves the stored edits and their writers alone.
Calm ==
  /\ Kept
  /\ \A i \in Ids : store'[i].by = store[i].by /\ TypedIn(i)' = TypedIn(i)
  /\ taken \subseteq taken' /\ overlapped \subseteq overlapped'

\* The campaigns that tabs and calls name.
LEMMA NamedIds ==
  ASSUME EditorInv
  PROVE  /\ \A t \in Tabs : tab[t].id # NoId => tab[t].id \in Ids
         /\ \A t \in Tabs : tab[t].at = "dashboard" => tab[t].id = NoId
         /\ \A c \in calls : Carries(c) => c.id \in Ids
<1>1. \A t \in Tabs : /\ tab[t].id # NoId => tab[t].id \in Ids
                      /\ tab[t].at = "dashboard" => tab[t].id = NoId
  BY InvOfTab DEF TabType, TabFine
<1>2. \A c \in calls : Carries(c) => c.id \in Ids
  BY InvOfCall DEF Carries, CallFine, Used, Loads
<1> QED BY <1>1, <1>2

\* So do those of the next state.
LEMMA NamedAfter ==
  ASSUME EditorInv'
  PROVE  /\ \A t \in Tabs : tab'[t].id # NoId => tab'[t].id \in Ids
         /\ \A t \in Tabs : tab'[t].at = "dashboard" => tab'[t].id = NoId
         /\ \A c \in calls' : Carries(c) => c.id \in Ids
<1>1. \A t \in Tabs : tab'[t] \in TabType /\ TabFine(Used, t, tab[t])'
  BY DEF EditorInv, ScreensOK, ScreenOK
<1>2. \A t \in Tabs : /\ tab'[t].id # NoId => tab'[t].id \in Ids
                      /\ tab'[t].at = "dashboard" => tab'[t].id = NoId
  BY <1>1 DEF TabType, TabFine
<1>3. \A c \in calls' : c.tab \in Tabs /\ CallFine(Used, c)'
  BY DEF EditorInv, ScreensOK, ScreenOK, CallType
<1>4. \A c \in calls' : Carries(c) => c.id \in Ids
  BY <1>3 DEF Carries, CallFine, Used, Loads
<1> QED BY <1>2, <1>4

\* What an editor that had its calls one at a time has on screen.
LEMMA OwnScreen ==
  ASSUME EditorInv, EditorInv', Calm, NEW t \in Tabs, Evolves(t), Own(t), t \notin overlapped
  PROVE  /\ tab'[t].id # NoId => tab'[t].persisted.typed \subseteq tab'[t].values.typed
         /\ tab'[t].at = "editing" /\ tab'[t].id # NoId /\ store'[tab'[t].id].by = t
              => TypedIn(tab'[t].id) \subseteq tab'[t].values.typed
<1> DEFINE r == tab[t]
           m == tab'[t]
<1>1. r.id # NoId => r.persisted.typed \subseteq r.values.typed
  BY DEF Own
<1>2. r.at = "editing" /\ r.id # NoId =>
        /\ store[r.id].by = t => TypedIn(r.id) \subseteq r.values.typed
        /\ \A c \in MyCalls(t) :
             /\ Live(c) /\ c.kind \in {"update", "docs", "submit"} => c.id = r.id
             /\ c.kind = "update" /\ c.id = r.id =>
                  /\ r.persisted.typed \subseteq c.values.typed
                  /\ c.values.typed \subseteq r.values.typed
  BY DEF Own
<1>3. \A c \in MyCalls(t) : Carries(c) /\ store[c.id].by = t =>
        TypedIn(c.id) \subseteq c.values.typed
  BY DEF Own
<1>4. \A i \in Ids : store'[i].by = store[i].by
  BY DEF Calm
<1>5. (m.id # NoId => m.id \in Ids) /\ (m.at = "dashboard" => m.id = NoId)
  BY NamedAfter
<1>6. CASE Stays(t)
  BY <1>1, <1>2, <1>4, <1>5, <1>6 DEF Stays
<1>7. CASE Saved(t)
  <2>1. PICK e : /\ Handles(t, e) /\ e.kind = "update" /\ r.at = "editing"
                 /\ m.at = r.at /\ m.id = r.id /\ m.values = r.values /\ m.persisted = e.values
    BY <1>7 DEF Saved
  <2>2. e \in MyCalls(t) /\ Live(e)
    BY <2>1 DEF Handles, MyCalls
  <2> QED BY <1>2, <1>4, <1>5, <2>1, <2>2
<1>8. CASE Loaded(t)
  <2>1. PICK e : /\ Handles(t, e) /\ e.kind \in Loads
                 /\ r.at = "editing" \/ (r.at = "opening" /\ e.kind = "fetch")
                 /\ m.id = IF e.kind = "docs" THEN r.id ELSE e.id
                 /\ m.values = e.values /\ m.persisted = e.values
    BY <1>8 DEF Loaded
  <2>2. e \in MyCalls(t) /\ Live(e) /\ Carries(e)
    BY <2>1 DEF Handles, MyCalls, Carries
  <2>3. m.id # NoId => m.id = e.id
    BY <1>2, <2>1, <2>2
  <2> QED BY <1>3, <1>4, <1>5, <2>1, <2>2, <2>3
<1>9. CASE Mounts(t)
  BY <1>9 DEF Mounts, Blank
<1>10. CASE Restarts(t)
  BY <1>10 DEF Restarts
<1> QED BY <1>5, <1>6, <1>7, <1>8, <1>9, <1>10 DEF Evolves

\* Which campaign its calls are about, and what its updates carry.
LEMMA OwnUpdates ==
  ASSUME EditorInv, EditorInv', NEW t \in Tabs, Evolves(t), Own(t), t \notin overlapped,
         tab'[t].at = "editing", tab'[t].id # NoId, NEW d \in MyCalls(t)'
  PROVE  /\ Live(d)' /\ d.kind \in {"update", "docs", "submit"} => d.id = tab'[t].id
         /\ d.kind = "update" /\ d.id = tab'[t].id =>
              /\ tab'[t].persisted.typed \subseteq d.values.typed
              /\ d.values.typed \subseteq tab'[t].values.typed
<1> DEFINE r == tab[t]
           m == tab'[t]
<1>1. r.id # NoId => r.persisted.typed \subseteq r.values.typed
  BY DEF Own
<1>2. r.at = "editing" /\ r.id # NoId =>
        \A c \in MyCalls(t) :
          /\ Live(c) /\ c.kind \in {"update", "docs", "submit"} => c.id = r.id
          /\ c.kind = "update" /\ c.id = r.id =>
               /\ r.persisted.typed \subseteq c.values.typed
               /\ c.values.typed \subseteq r.values.typed
  BY DEF Own
<1>3. Stays(t) \/ Saved(t) \/ Loaded(t)
  BY DEF Evolves, Mounts, Restarts
<1>4. d.tab = t /\ (SentBy(t, d) \/ \E c \in calls : SameCall(c, d))
  BY CallsAfter
<1>5. ASSUME NEW e, Handles(t, e), e.kind \in Loads \cup {"update"},
             NEW c \in MyCalls(t), c.kind \in Loads \cup {"update"}
      PROVE  c = e
  <2>1. e \in MyCalls(t)
    BY <1>5 DEF Handles, MyCalls
  <2> QED BY <1>5, <2>1, OneForm DEF Loads
<1>6. ASSUME NEW c \in calls, SameCall(c, d)
      PROVE  /\ Live(d)' /\ d.kind \in {"update", "docs", "submit"} => d.id = m.id
             /\ d.kind = "update" /\ d.id = m.id =>
                  /\ m.persisted.typed \subseteq d.values.typed
                  /\ d.values.typed \subseteq m.values.typed
  <2>1. c \in MyCalls(t) /\ c.kind = d.kind /\ c.id = d.id /\ c.values = d.values
    BY <1>4, <1>6 DEF SameCall, MyCalls
  <2>2. Live(d)' => Live(c)
    BY <1>4, <1>6, LiveBefore
  <2>3. CASE Stays(t)
    BY <1>2, <2>1, <2>2, <2>3 DEF Stays
  <2>4. CASE Saved(t)
    <3>1. PICK e : /\ Handles(t, e) /\ e.kind = "update" /\ r.at = "editing"
                   /\ m.at = r.at /\ m.id = r.id /\ m.values = r.values /\ m.persisted = e.values
      BY <2>4 DEF Saved
    <3>2. d.kind = "update" => c = e
      BY <1>5, <2>1, <3>1
    <3> QED BY <1>2, <2>1, <2>2, <3>1, <3>2
  <2>5. CASE Loaded(t)
    <3>1. PICK e : /\ Handles(t, e) /\ e.kind \in Loads
                   /\ r.at = "editing" \/ (r.at = "opening" /\ e.kind = "fetch")
                   /\ m.id = IF e.kind = "docs" THEN r.id ELSE e.id
      BY <2>5 DEF Loaded
    <3>2. d.kind \in {"update", "docs", "submit"} => c = e
      BY <1>5, <2>1, <3>1 DEF Loads
    <3>3. d.kind # "update"
      BY <2>1, <3>1, <3>2 DEF Loads
    <3>4. Live(c) /\ c = e => m.id = c.id
      BY <1>2, <2>1, <3>1
    <3> QED BY <2>1, <2>2, <3>2, <3>3, <3>4
  <2> QED BY <1>3, <2>3, <2>4, <2>5
<1>7. CASE SentBy(t, d)
  <2>1. CASE d.kind = "update"
    BY <1>1, <1>7, <2>1 DEF SentBy, Alike
  <2>2. ASSUME d.kind \in {"submit", "docs"}, Live(d)'
        PROVE  d.id = m.id
    <3>1. d.mount = m.mount /\ m.at # "dashboard"
      BY <1>4, <2>2 DEF Live
    <3>2. ASSUME NEW c \in calls, c.tab = t, c.kind \in {"create", "update"}, c.ok,
                 c.id = d.id, c.mount = d.mount,
                 c.kind = "create" /\ Live(c) => m.id = c.id
          PROVE  d.id = m.id
      <4>1. SameCall(c, c) /\ Live(c)'
        BY <3>1, <3>2 DEF SameCall, Live
      <4>2. c \in MyCalls(t) /\ Live(c)
        BY <3>2, <4>1, LiveBefore
      <4>3. CASE c.kind = "create"
        BY <3>2, <4>2, <4>3
      <4>4. CASE c.kind = "update"
        <5>1. ~Loaded(t)
          <6>1. ASSUME NEW e, Handles(t, e), e.kind \in Loads
                PROVE  FALSE
            BY <1>5, <4>2, <4>4, <6>1 DEF Loads
          <6> QED BY <6>1 DEF Loaded
        <5>2. r.at = "editing" /\ m.id = r.id
          BY <1>3, <5>1 DEF Stays, Saved
        <5> QED BY <1>2, <3>2, <4>2, <4>4, <5>2
      <4> QED BY <3>2, <4>3, <4>4
    <3> QED BY <1>7, <2>2, <3>1, <3>2 DEF SentBy
  <2> QED BY <2>1, <2>2
<1> QED BY <1>4, <1>6, <1>7

\* What its calls carry.
LEMMA OwnCalls ==
  ASSUME EditorInv, EditorInv', Calm, NEW t \in Tabs, Evolves(t), Own(t), t \notin overlapped,
         NEW d \in MyCalls(t)', Carries(d), store'[d.id].by = t
  PROVE  TypedIn(d.id)' \subseteq d.values.typed
<1>1. d.tab = t /\ d \in calls' /\ (SentBy(t, d) \/ \E c \in calls : SameCall(c, d))
  BY CallsAfter
<1>2. d.id \in Ids
  BY <1>1, NamedAfter
<1>3. store[d.id].by = t /\ TypedIn(d.id)' = TypedIn(d.id)
  BY <1>2 DEF Calm
<1>4. ASSUME NEW c \in calls, SameCall(c, d)
      PROVE  TypedIn(d.id) \subseteq d.values.typed
  <2>1. c \in MyCalls(t) /\ c.id = d.id /\ c.values = d.values /\ Carries(c)
    BY <1>1, <1>4 DEF SameCall, MyCalls, Carries
  <2> QED BY <1>3, <2>1 DEF Own
<1>5. CASE SentBy(t, d)
  <2>1. /\ d.kind = "update" /\ tab[t].at = "editing" /\ tab[t].id # NoId
        /\ d.id = tab[t].id /\ d.values = tab[t].values
    BY <1>5 DEF SentBy, Carries
  <2> QED BY <1>3, <2>1 DEF Own
<1> QED BY <1>1, <1>3, <1>4, <1>5

\* What a tab wrote last is still in every form it may write.
LEMMA OwnKept ==
  ASSUME EditorInv, EditorInv', Calm, NEW t \in Tabs, Evolves(t), Own(t)
  PROVE  Own(t)'
<1>1. t \in overlapped => t \in overlapped'
  BY DEF Calm
<1>2. \A i : TypedIn(i)' = store'[i].values.typed
  BY DEF TypedIn
<1>3. \A d : Carries(d)' <=> Carries(d)
  BY DEF Carries
<1>4. CASE t \in overlapped
  BY <1>1, <1>4 DEF Own
<1>5. CASE t \notin overlapped
  <2>1. tab'[t].id # NoId => tab'[t].persisted.typed \subseteq tab'[t].values.typed
    BY <1>5, OwnScreen
  <2>2. tab'[t].at = "editing" /\ tab'[t].id # NoId =>
          /\ store'[tab'[t].id].by = t => TypedIn(tab[t].id)' \subseteq tab'[t].values.typed
          /\ \A d \in MyCalls(t)' :
               /\ Live(d)' /\ d.kind \in {"update", "docs", "submit"} => d.id = tab'[t].id
               /\ d.kind = "update" /\ d.id = tab'[t].id =>
                    /\ tab'[t].persisted.typed \subseteq d.values.typed
                    /\ d.values.typed \subseteq tab'[t].values.typed
    <3>1. tab'[t].id # NoId => TypedIn(tab[t].id)' = TypedIn(tab'[t].id)
      BY NamedAfter DEF Calm, TypedIn
    <3> QED BY <1>5, <3>1, OwnScreen, OwnUpdates
  <2>3. \A d \in MyCalls(t)' : Carries(d) /\ store'[d.id].by = t =>
          TypedIn(d.id)' \subseteq d.values.typed
    BY <1>5, OwnCalls
  <2> QED BY <1>3, <2>1, <2>2, <2>3 DEF Own
<1> QED BY <1>4, <1>5

\* What another user wrote before the tab came in still is, too.
LEMMA OthersKept ==
  ASSUME EditorInv, EditorInv', Calm, NEW t \in Tabs, Evolves(t), Makers(t), Others(t)
  PROVE  Others(t)'
<1> DEFINE r == tab[t]
           m == tab'[t]
<1> SUFFICES ASSUME t \notin taken'
             PROVE  /\ m.at = "editing" /\ ~m.fresh /\ WrittenByOther(t, tab[t].id)'
                         => TypedIn(tab[t].id)' \subseteq m.values.typed
                    /\ \A d \in MyCalls(t)' :
                         /\ \/ d.kind = "update" /\ ~Made(d.id, t, d.mount)'
                            \/ d.ok /\ d.kind \in Loads /\ Live(d)' /\ ~m.fresh
                         /\ WrittenByOther(t, d.id)'
                         => TypedIn(d.id)' \subseteq d.values.typed
  BY DEF Others
<1>1. t \notin taken
  BY DEF Calm
<1>2. r.at = "editing" /\ ~r.fresh /\ WrittenByOther(t, r.id) =>
        TypedIn(r.id) \subseteq r.values.typed
  BY <1>1 DEF Others
<1>3. ASSUME NEW c \in MyCalls(t), WrittenByOther(t, c.id),
             \/ c.kind = "update" /\ ~Made(c.id, t, c.mount)
             \/ c.ok /\ c.kind \in Loads /\ Live(c) /\ ~r.fresh
      PROVE  TypedIn(c.id) \subseteq c.values.typed
  BY <1>1, <1>3 DEF Others
<1>4. \A i \in Ids : (WrittenByOther(t, i)' => WrittenByOther(t, i)) /\ TypedIn(i)' = TypedIn(i)
  BY DEF WrittenByOther, Calm
<1>5. ASSUME m.at = "editing", ~m.fresh, WrittenByOther(t, tab[t].id)'
      PROVE  TypedIn(tab[t].id)' \subseteq m.values.typed
  <2>1. m.id \in Ids
    BY <1>5 DEF EditorInv, ScreensOK, ScreenOK, TabFine, Used
  <2>2. WrittenByOther(t, m.id) /\ TypedIn(tab[t].id)' = TypedIn(m.id)
    BY <1>4, <1>5, <2>1 DEF TypedIn, WrittenByOther
  <2>3. CASE Stays(t)
    BY <1>2, <1>5, <2>2, <2>3 DEF Stays
  <2>4. CASE Saved(t)
    BY <1>2, <1>5, <2>2, <2>4 DEF Saved
  <2>5. CASE Loaded(t)
    <3>1. PICK e : /\ Handles(t, e) /\ e.kind \in Loads /\ m.fresh = r.fresh
                   /\ m.id = IF e.kind = "docs" THEN r.id ELSE e.id
                   /\ m.values = e.values
      BY <2>5 DEF Loaded
    <3>2. e \in MyCalls(t) /\ Live(e) /\ e.ok
      BY <3>1 DEF Handles, MyCalls
    <3>3. ~r.fresh => e.id = r.id
      BY <3>2, InvOfCall DEF MyCalls, CallFits, Live
    <3> QED BY <1>3, <1>5, <2>2, <3>1, <3>2, <3>3
  <2> QED BY <1>5, <2>3, <2>4, <2>5 DEF Evolves, Mounts, Restarts
<1>6. ASSUME NEW d \in MyCalls(t)', WrittenByOther(t, d.id)',
             \/ d.kind = "update" /\ ~Made(d.id, t, d.mount)'
             \/ d.ok /\ d.kind \in Loads /\ Live(d)' /\ ~m.fresh
      PROVE  TypedIn(d.id)' \subseteq d.values.typed
  <2>1. d.tab = t /\ d \in calls' /\ (SentBy(t, d) \/ \E c \in calls : SameCall(c, d))
    BY CallsAfter
  <2>2. d.id \in Ids
    BY <1>6, <2>1, NamedAfter DEF Carries
  <2>3. WrittenByOther(t, d.id) /\ TypedIn(d.id)' = TypedIn(d.id)
        /\ (Made(d.id, t, d.mount)' <=> Made(d.id, t, d.mount))
    BY <1>4, <1>6, <2>2, MadeSame DEF Calm
  <2>4. ASSUME NEW c \in calls, SameCall(c, d)
        PROVE  TypedIn(d.id) \subseteq d.values.typed
    <3>1. /\ c \in MyCalls(t) /\ c.id = d.id /\ c.values = d.values /\ c.kind = d.kind
          /\ c.ok = d.ok /\ c.mount = d.mount
      BY <2>1, <2>4 DEF SameCall, MyCalls
    <3>2. Live(d)' => Live(c) /\ m.fresh = r.fresh
      BY <2>1, <2>4, LiveBefore
    <3>3. CASE d.kind = "update" /\ ~Made(d.id, t, d.mount)'
      <4>1. c.kind = "update" /\ ~Made(c.id, t, c.mount) /\ WrittenByOther(t, c.id)
        BY <2>3, <3>1, <3>3
      <4> QED BY <1>3, <3>1, <4>1
    <3>4. CASE d.ok /\ d.kind \in Loads /\ Live(d)' /\ ~m.fresh
      BY <1>3, <2>3, <3>1, <3>2, <3>4
    <3> QED BY <1>6, <3>3, <3>4
  <2>5. CASE SentBy(t, d)
    <3>1. /\ d.kind = "update" /\ r.at = "editing" /\ r.id # NoId
          /\ d.id = r.id /\ d.mount = r.mount /\ d.values = r.values
      BY <1>6, <2>5 DEF SentBy
    <3>2. ~Made(r.id, t, r.mount)
      <4>1. ~Made(d.id, t, d.mount)
        BY <1>6, <2>3, <3>1 DEF Loads
      <4> QED BY <3>1, <4>1
    <3>3. ~r.fresh
      BY <3>1, <3>2 DEF Makers
    <3> QED BY <1>2, <2>3, <3>1, <3>3
  <2> QED BY <2>1, <2>3, <2>4, <2>5
<1> QED BY <1>5, <1>6

\* What a tab takes for persisted is still stored.
LEMMA StoredKept ==
  ASSUME EditorInv, EditorInv', Calm, NEW t \in Tabs, Evolves(t), Own(t), Stored(t)
  PROVE  Stored(t)'
<1> DEFINE r == tab[t]
           m == tab'[t]
<1> SUFFICES ASSUME Trusting(t)'
             PROVE  /\ m.at = "editing" /\ m.id # NoId
                         => m.persisted.typed \subseteq TypedIn(tab[t].id)'
                    /\ \A d \in MyCalls(t)' : Live(d)' /\ d.ok /\ d.kind \in Loads \cup {"update"}
                         => d.values.typed \subseteq TypedIn(d.id)'
  BY DEF Stored
<1>1. t \notin overlapped /\ (m.fresh = r.fresh => Trusting(t))
  BY DEF Trusting, Calm
<1>2. ASSUME Trusting(t)
      PROVE  /\ r.at = "editing" /\ r.id # NoId => r.persisted.typed \subseteq TypedIn(r.id)
             /\ \A c \in MyCalls(t) : Live(c) /\ c.ok /\ c.kind \in Loads \cup {"update"}
                  => c.values.typed \subseteq TypedIn(c.id)
  BY <1>2 DEF Stored
<1>3. r.at = "editing" /\ r.id # NoId =>
        \A c \in MyCalls(t) :
          Live(c) /\ c.kind \in {"update", "docs", "submit"} => c.id = r.id
  BY <1>1 DEF Own
<1>4. ASSUME m.at = "editing", m.id # NoId
      PROVE  m.persisted.typed \subseteq TypedIn(tab[t].id)'
  <2>1. m.id \in Ids
    BY <1>4, NamedAfter
  <2>2. TypedIn(tab[t].id)' = TypedIn(m.id)
    BY <2>1 DEF Calm, TypedIn
  <2>3. CASE Stays(t)
    BY <1>1, <1>2, <1>4, <2>2, <2>3 DEF Stays
  <2>4. CASE Saved(t)
    <3>1. PICK e : /\ Handles(t, e) /\ e.kind = "update" /\ r.at = "editing" /\ m.fresh = r.fresh
                   /\ m.at = r.at /\ m.id = r.id /\ m.persisted = e.values
      BY <2>4 DEF Saved
    <3>2. e \in MyCalls(t) /\ Live(e) /\ e.ok
      BY <3>1 DEF Handles, MyCalls
    <3>3. e.id = m.id
      BY <1>3, <1>4, <3>1, <3>2
    <3> QED BY <1>1, <1>2, <2>2, <3>1, <3>2, <3>3
  <2>5. CASE Loaded(t)
    <3>1. PICK e : /\ Handles(t, e) /\ e.kind \in Loads /\ m.fresh = r.fresh
                   /\ r.at = "editing" \/ (r.at = "opening" /\ e.kind = "fetch")
                   /\ m.id = IF e.kind = "docs" THEN r.id ELSE e.id
                   /\ m.persisted = e.values
      BY <2>5 DEF Loaded
    <3>2. e \in MyCalls(t) /\ Live(e) /\ e.ok
      BY <3>1 DEF Handles, MyCalls
    <3>3. e.id = m.id
      BY <1>3, <1>4, <3>1, <3>2
    <3> QED BY <1>1, <1>2, <2>2, <3>1, <3>2, <3>3
  <2> QED BY <1>4, <2>3, <2>4, <2>5 DEF Evolves, Mounts, Restarts
<1>5. ASSUME NEW d \in MyCalls(t)', Live(d)', d.ok, d.kind \in Loads \cup {"update"}
      PROVE  d.values.typed \subseteq TypedIn(d.id)'
  <2>1. d.tab = t /\ d \in calls' /\ (SentBy(t, d) \/ \E c \in calls : SameCall(c, d))
    BY CallsAfter
  <2>2. PICK c \in calls : SameCall(c, d)
    BY <1>5, <2>1 DEF SentBy
  <2>3. d.id \in Ids
    BY <1>5, <2>1, NamedAfter DEF Carries
  <2>4. c \in MyCalls(t) /\ Live(c) /\ m.fresh = r.fresh
    BY <1>5, <2>1, <2>2, LiveBefore
  <2>5. c.values.typed \subseteq TypedIn(c.id)
    BY <1>1, <1>2, <1>5, <2>2, <2>4 DEF SameCall
  <2> QED BY <2>2, <2>3, <2>5 DEF Calm, SameCall
<1> QED BY <1>4, <1>5

\* A tab that a step leaves alone has done nothing.
LEMMA UntouchedEvolves ==
  ASSUME NEW t, tab'[t] = tab[t], MyCalls(t)' = MyCalls(t)
  PROVE  Evolves(t)
<1>1. tab'[t].at = "dashboard" \/ Stays(t)
  BY DEF Stays
<1>2. \A d \in calls' : d.tab = t => d \in calls /\ SameCall(d, d)
  BY DEF MyCalls, SameCall
<1> QED BY <1>1, <1>2 DEF Evolves

\* A step in which tabs do something.
LEMMA EvolvesKeep ==
  ASSUME EditorInv, EditorInv', SaveInv, Calm, \A t \in Tabs : Evolves(t),
         \A i \in Ids : lock'[i] \in {lock[i], Nobody}
  PROVE  SaveInv'
<1>1. Unwritten'
  BY DEF SaveInv, Unwritten, Calm, Kept
<1>2. \A t \in Tabs : Opening(t) /\ Makers(t) /\ Entitled(t) /\ Own(t) /\ Others(t) /\ Stored(t)
  BY DEF SaveInv
<1>3. Kept /\ taken \subseteq taken'
  BY DEF Calm
<1>4. \A s \in Tabs : \A i \in Ids : Granted(s, i)' => Granted(s, i)
  BY <1>2, <1>3, GrantedBefore
<1>5. \A t \in Tabs : Entitled(t)'
  BY <1>2, <1>3, <1>4, EntitledKept
<1>6. \A t \in Tabs : Opening(t)' /\ Makers(t)'
  BY <1>2, <1>3, OpeningKept, MakersKept
<1>7. \A t \in Tabs : Own(t)' /\ Others(t)' /\ Stored(t)'
  BY <1>2, OwnKept, OthersKept, StoredKept
<1> QED BY <1>1, <1>5, <1>6, <1>7 DEF SaveInv

-----------------------------------------------------------------------------
(* A step of the server.                                                   *)

\* Call e is call c once the server has looked at it, without a write.
Reply(c, e) ==
  /\ e.tab = c.tab /\ e.mount = c.mount /\ e.kind = c.kind /\ e.id = c.id
  /\ \/ e.values = c.values /\ (e.ok => c.ok \/ c.kind \in {"acquire", "release"})
     \/ c.kind \notin {"update", "create"} /\ e.values = store[c.id].values

\* No write of c was let through, and no lock was given to it.
NotGiven(c, e) ==
  /\ e.step = "checked" => c.step = "checked"
  /\ e.kind = "acquire" /\ e.ok => c.ok

\* A tab that is at work on a campaign afterwards was so before.
LEMMA NotGivenGranted ==
  ASSUME Kept, tab' = tab, 
         \A e \in calls' : \E c \in calls : /\ e.tab = c.tab /\ e.mount = c.mount
                                            /\ e.kind = c.kind /\ e.id = c.id /\ NotGiven(c, e),
         NEW t \in Tabs, NEW i \in Ids, Granted(t, i)'
  PROVE  Granted(t, i)
<1>1. ASSUME NEW d \in MyCalls(t)', d.id = i,
             \/ d.kind = "update" /\ (d.step = "checked" \/ ~Made(i, t, d.mount)')
             \/ d.kind = "acquire" /\ d.ok
      PROVE  Granted(t, i)
  <2>1. d \in calls' /\ d.tab = t
    BY DEF MyCalls
  <2>2. PICK c \in calls : /\ d.tab = c.tab /\ d.mount = c.mount /\ d.kind = c.kind /\ d.id = c.id
                           /\ NotGiven(c, d)
    BY <2>1
  <2>3. c \in MyCalls(t) /\ c.id = i
    BY <1>1, <2>1, <2>2 DEF MyCalls
  <2>4. d.kind = "update" /\ d.step # "checked" => ~Made(i, t, c.mount)
    BY <1>1, <2>2, MadeSame
  <2> QED BY <1>1, <2>2, <2>3, <2>4 DEF Granted, NotGiven
<1> QED BY <1>1 DEF Granted

\* What everyone holds, after an answer without a write.
LEMMA ReplyOwn ==
  ASSUME EditorInv, Calm, tab' = tab, \A e \in calls' : \E c \in calls : Reply(c, e),
         NEW t \in Tabs, Own(t)
  PROVE  Own(t)'
<1>1. t \in overlapped => t \in overlapped'
  BY DEF Calm
<1> SUFFICES ASSUME t \notin overlapped'
             PROVE  Own(t)'
  BY DEF Own
<1>2. t \notin overlapped
  BY <1>1
<1>3. tab[t].id # NoId => /\ tab[t].id \in Ids
                          /\ TypedIn(tab[t].id)' = TypedIn(tab[t].id)
                          /\ store'[tab[t].id].by = store[tab[t].id].by
  BY NamedIds DEF Calm, TypedIn
<1>4. ASSUME NEW e \in MyCalls(t)'
      PROVE  \E c \in MyCalls(t) : Reply(c, e) /\ (Live(e)' <=> Live(c))
  BY DEF MyCalls, Reply, Live
<1>5. ASSUME NEW e \in MyCalls(t)', Carries(e), store'[e.id].by = t
      PROVE  TypedIn(e.id)' \subseteq e.values.typed
  <2>1. PICK c \in MyCalls(t) : Reply(c, e)
    BY <1>4
  <2>2. c.kind # "create" => c.id \in Ids
    BY InvOfCall DEF MyCalls
  <2>3. CASE e.values = c.values /\ (e.ok => c.ok \/ c.kind \in {"acquire", "release"})
    <3>1. Carries(c)
      BY <1>5, <2>1, <2>3 DEF Carries, Reply, Loads
    <3>2. c.id \in Ids
      BY <3>1, NamedIds DEF MyCalls
    <3> QED BY <1>2, <1>5, <2>1, <2>3, <3>1, <3>2 DEF Own, Reply, Calm
  <2>4. CASE c.kind \notin {"update", "create"} /\ e.values = store[c.id].values
    BY <2>1, <2>2, <2>4 DEF Reply, Calm, TypedIn
  <2> QED BY <2>1, <2>3, <2>4 DEF Reply
<1>6. ASSUME tab[t].at = "editing", tab[t].id # NoId, NEW e \in MyCalls(t)'
      PROVE  /\ Live(e)' /\ e.kind \in {"update", "docs", "submit"} => e.id = tab[t].id
             /\ e.kind = "update" /\ e.id = tab[t].id =>
                  /\ tab[t].persisted.typed \subseteq e.values.typed
                  /\ e.values.typed \subseteq tab[t].values.typed
  <2>1. PICK c \in MyCalls(t) : Reply(c, e) /\ (Live(e)' <=> Live(c))
    BY <1>4
  <2> QED BY <1>2, <1>6, <2>1 DEF Own, Reply
<1>7. \A e : Carries(e)' <=> Carries(e)
  BY DEF Carries
<1> QED BY <1>2, <1>3, <1>5, <1>6, <1>7 DEF Own

\* The same of what other users wrote.
LEMMA ReplyOthers ==
  ASSUME EditorInv, Calm, tab' = tab, \A e \in calls' : \E c \in calls : Reply(c, e),
         NEW t \in Tabs, Others(t)
  PROVE  Others(t)'
<1>1. t \in taken => t \in taken'
  BY DEF Calm
<1> SUFFICES ASSUME t \notin taken'
             PROVE  Others(t)'
  BY DEF Others
<1>2. \A i \in Ids : (WrittenByOther(t, i)' => WrittenByOther(t, i)) /\ TypedIn(i)' = TypedIn(i)
  BY DEF WrittenByOther, Calm
<1>3. tab[t].at = "editing" /\ ~tab[t].fresh => tab[t].id \in Ids
  BY InvOfTab DEF TabFine, Used
<1>4. ASSUME tab[t].at = "editing", ~tab[t].fresh, WrittenByOther(t, tab[t].id)'
      PROVE  TypedIn(tab[t].id)' \subseteq tab[t].values.typed
  <2>1. PICK i \in Ids : i = tab[t].id
    BY <1>3, <1>4
  <2>2. WrittenByOther(t, i)' /\ TypedIn(tab[t].id)' = TypedIn(i)'
    BY <1>4, <2>1 DEF WrittenByOther, TypedIn
  <2> QED BY <1>1, <1>2, <1>4, <2>1, <2>2 DEF Others
<1>5. ASSUME NEW e \in MyCalls(t)', WrittenByOther(t, e.id)',
             \/ e.kind = "update" /\ ~Made(e.id, t, e.mount)'
             \/ e.ok /\ e.kind \in Loads /\ Live(e)' /\ ~tab[t].fresh
      PROVE  TypedIn(e.id)' \subseteq e.values.typed
  <2>1. PICK c \in MyCalls(t) : Reply(c, e) /\ (Live(e)' <=> Live(c))
    BY DEF MyCalls, Reply, Live
  <2>2. c.id = e.id /\ c.kind = e.kind /\ c.mount = e.mount
    BY <2>1 DEF Reply
  <2>3. CASE e.values = c.values /\ (e.ok => c.ok \/ c.kind \in {"acquire", "release"})
    <3>1. Carries(c)
      BY <1>5, <2>2, <2>3 DEF Carries, Loads
    <3>2. e.id \in Ids
      BY <2>2, <3>1, NamedIds DEF MyCalls
    <3>3. WrittenByOther(t, c.id)
      BY <1>2, <1>5, <2>2, <3>2
    <3>4. \/ c.kind = "update" /\ ~Made(c.id, t, c.mount)
          \/ c.ok /\ c.kind \in Loads /\ Live(c) /\ ~tab[t].fresh
      <4>1. Made(e.id, t, e.mount)' <=> Made(e.id, t, e.mount)
        BY <3>2, MadeSame DEF Calm
      <4> QED BY <1>5, <2>1, <2>2, <2>3, <4>1 DEF Loads
    <3> QED BY <1>1, <1>2, <2>2, <2>3, <3>2, <3>3, <3>4 DEF Others
  <2>4. CASE c.kind \notin {"update", "create"} /\ e.values = store[c.id].values
    <3>1. c.id \in Ids
      BY <2>4, InvOfCall DEF MyCalls
    <3> QED BY <1>2, <2>2, <2>4, <3>1 DEF TypedIn
  <2> QED BY <2>1, <2>3, <2>4 DEF Reply
<1> QED BY <1>4, <1>5 DEF Others

\* The same of what is taken for persisted.
LEMMA ReplyStored ==
  ASSUME EditorInv, Calm, tab' = tab, \A e \in calls' : \E c \in calls : Reply(c, e),
         NEW t \in Tabs, Stored(t)
  PROVE  Stored(t)'
<1> SUFFICES ASSUME Trusting(t)'
             PROVE  Stored(t)'
  BY DEF Stored
<1>1. Trusting(t)
  BY DEF Trusting, Calm
<1>2. tab[t].id # NoId => tab[t].id \in Ids /\ TypedIn(tab[t].id)' = TypedIn(tab[t].id)
  BY NamedIds DEF Calm, TypedIn
<1>3. ASSUME NEW e \in MyCalls(t)', Live(e)', e.ok, e.kind \in Loads \cup {"update"}
      PROVE  e.values.typed \subseteq TypedIn(e.id)'
  <2>1. PICK c \in MyCalls(t) : Reply(c, e) /\ (Live(e)' <=> Live(c))
    BY DEF MyCalls, Reply, Live
  <2>2. c.id = e.id /\ c.kind = e.kind
    BY <2>1 DEF Reply
  <2>3. CASE e.values = c.values /\ (e.ok => c.ok \/ c.kind \in {"acquire", "release"})
    <3>1. c.ok /\ Carries(c)
      BY <1>3, <2>2, <2>3 DEF Carries, Loads
    <3>2. c.id \in Ids
      BY <3>1, NamedIds DEF MyCalls
    <3> QED BY <1>1, <1>3, <2>1, <2>2, <2>3, <3>1, <3>2 DEF Stored, Calm
  <2>4. CASE c.kind \notin {"update", "create"} /\ e.values = store[c.id].values
    <3>1. c.id \in Ids
      BY <2>4, InvOfCall DEF MyCalls
    <3> QED BY <2>2, <2>4, <3>1 DEF TypedIn, Calm
  <2> QED BY <2>1, <2>3, <2>4 DEF Reply
<1> QED BY <1>1, <1>2, <1>3 DEF Stored

\* The same of editors being opened, and of fresh ones.
LEMMA ReplyQuiet ==
  ASSUME EditorInv, Calm, tab' = tab, \A e \in calls' : \E c \in calls : Reply(c, e),
         NEW t \in Tabs, Opening(t), Makers(t)
  PROVE  Opening(t)' /\ Makers(t)'
<1>1. ASSUME NEW e \in MyCalls(t)'
      PROVE  \E c \in MyCalls(t) : Reply(c, e) /\ (Live(e)' <=> Live(c))
  BY DEF MyCalls, Reply, Live
<1>2. Opening(t)'
  BY <1>1 DEF Opening, Reply
<1>3. ASSUME tab[t].at # "dashboard", tab[t].fresh, tab[t].id # NoId
      PROVE  Made(tab[t].id, t, tab[t].mount)'
  <2>1. PICK i \in Ids : i = tab[t].id
    BY <1>3, NamedIds
  <2>2. Made(i, t, tab[t].mount)
    BY <1>3, <2>1 DEF Makers
  <2> QED BY <2>1, <2>2 DEF Made, Calm, Kept
<1>4. ASSUME NEW e \in MyCalls(t)',
             \/ e.kind = "create" /\ e.ok
             \/ Live(e)' /\ tab[t].fresh /\ e.kind \in {"update", "submit", "docs"}
      PROVE  Made(e.id, t, e.mount)'
  <2>1. PICK c \in MyCalls(t) : Reply(c, e) /\ (Live(e)' <=> Live(c))
    BY <1>1
  <2>2. c.kind = e.kind /\ c.id = e.id /\ c.mount = e.mount /\ (c.kind = "create" /\ e.ok => c.ok)
    BY <2>1 DEF Reply
  <2>3. Made(c.id, t, c.mount)
    BY <1>4, <2>1, <2>2 DEF Makers
  <2>4. e.id \in Ids
    <3>1. c \in calls
      BY DEF MyCalls
    <3> QED BY <1>4, <2>2, <3>1, InvOfCall, NamedIds DEF Carries, Loads
  <2>5. Made(e.id, t, e.mount)
    BY <2>2, <2>3
  <2> QED BY <2>4, <2>5, MadeSame DEF Calm
<1> QED BY <1>2, <1>3, <1>4 DEF Makers

\* An answer without a write keeps the invariant, once the locks are right.
LEMMA ReplyKeep ==
  ASSUME EditorInv, SaveInv, Calm, tab' = tab, \A e \in calls' : \E c \in calls : Reply(c, e),
         \A t \in Tabs : Entitled(t)'
  PROVE  SaveInv'
<1>1. Unwritten'
  BY DEF SaveInv, Unwritten, Calm, Kept
<1>2. \A t \in Tabs : Opening(t)' /\ Makers(t)' /\ Own(t)' /\ Others(t)' /\ Stored(t)'
  BY ReplyQuiet, ReplyOwn, ReplyOthers, ReplyStored DEF SaveInv
<1> QED BY <1>1, <1>2 DEF SaveInv

\* The lock is given: to a user, who alone goes on, or others have lost it.
LEMMA LockEntitles ==
  ASSUME EditorInv, \A t \in Tabs : Entitled(t), taken \subseteq taken', Note,
         NEW u \in Users, NEW k \in Ids, lock[k] \in {u, Nobody}, lock' = [lock EXCEPT ![k] = u],
         \A s \in Tabs : \A i \in Ids :
           Granted(s, i)' => Granted(s, i) \/ (UserOf[s] = u /\ i = k),
         NEW t \in Tabs
  PROVE  Entitled(t)'
<1>1. lock \in [Ids -> Users \cup {Nobody}] /\ Nobody \notin Users
      /\ \A s \in Tabs : UserOf[s] \in Users
  BY EditorAssumption DEF EditorInv, TablesOK
<1>2. lock'[k] = u /\ \A i \in Ids \ {k} : lock'[i] = lock[i]
  BY <1>1
<1>3. ASSUME NEW s \in Tabs, s \notin taken', Granted(s, k)
      PROVE  UserOf[s] = u
  <2>1. lock[k] \in {UserOf[s], Nobody}
    BY <1>3 DEF Entitled
  <2>2. WorksOn(s, k)
    BY <1>3 DEF Granted, WorksOn
  <2>3. ASSUME UserOf[s] # u
        PROVE  FALSE
    <3>1. lock'[k] \notin {lock[k], Nobody} /\ lock'[k] # UserOf[s]
      BY <1>1, <1>2, <2>1, <2>3
    <3> QED BY <1>3, <2>2, <3>1 DEF Note
  <2> QED BY <2>3
<1>4. ASSUME NEW s \in Tabs, s \notin taken', Granted(s, k)'
      PROVE  UserOf[s] = u
  BY <1>3, <1>4
<1>5. ASSUME t \notin taken', NEW i \in Ids, Granted(t, i)'
      PROVE  /\ lock'[i] \in {UserOf[t], Nobody}
             /\ \A s \in Tabs \ taken' : Granted(s, i)' => UserOf[s] = UserOf[t]
  <2>1. CASE i = k
    BY <1>2, <1>4, <1>5, <2>1
  <2>2. CASE i # k
    <3>1. /\ lock'[i] = lock[i] /\ Granted(t, i) /\ t \notin taken
          /\ \A s \in Tabs \ taken' : s \notin taken /\ (Granted(s, i)' => Granted(s, i))
      BY <1>2, <1>5, <2>2
    <3> QED BY <3>1 DEF Entitled
  <2> QED BY <2>1, <2>2
<1> QED BY <1>5 DEF Entitled

\* A step that leaves the table of the campaigns alone is calm.
LEMMA CalmUnchanged ==
  ASSUME store' = store, Note
  PROVE  Calm
BY DEF Calm, Kept, TypedIn, Note

\* One call was answered or let through.
LEMMA OneReply ==
  ASSUME EditorInv, SaveInv, Calm, tab' = tab, NEW c \in calls, NEW d, Reply(c, d),
         calls' = (calls \ {c}) \cup {d},
         \/ NotGiven(c, d) /\ \A i \in Ids : lock'[i] \in {lock[i], Nobody}
         \/ \A t \in Tabs : Entitled(t)'
  PROVE  SaveInv'
<1>1. \A e \in calls' : \E b \in calls : Reply(b, e)
  BY DEF Reply
<1>2. ASSUME \A i \in Ids : lock'[i] \in {lock[i], Nobody}, NotGiven(c, d)
      PROVE  \A t \in Tabs : Entitled(t)'
  <2>1. \A e \in calls' : \E b \in calls : /\ e.tab = b.tab /\ e.mount = b.mount
                                           /\ e.kind = b.kind /\ e.id = b.id /\ NotGiven(b, e)
    BY <1>2 DEF Reply, NotGiven
  <2>2. \A s \in Tabs : \A i \in Ids : Granted(s, i)' => Granted(s, i)
    BY <2>1, NotGivenGranted DEF Calm
  <2> QED BY <1>2, <2>2, EntitledKept DEF SaveInv, Calm
<1> QED BY <1>1, <1>2, ReplyKeep

\* The lock of a campaign is asked for.
LEMMA LockKeeps ==
  ASSUME EditorInv, SaveInv, Note, NEW c \in calls, ServeLock(c)
  PROVE  SaveInv'
<1>1. c \in CallType /\ c.tab \in Tabs /\ c.id \in Ids /\ UserOf[c.tab] \in Users
  BY InvOfCall, EditorAssumption DEF ServeLock
<1>2. Calm /\ tab' = tab
  BY CalmUnchanged DEF ServeLock
<1>3. CASE CanLock(UserOf[c.tab], c.id)
  <2>1. lock' = [lock EXCEPT ![c.id] = UserOf[c.tab]] /\ lock[c.id] \in {UserOf[c.tab], Nobody}
    BY <1>3 DEF ServeLock, CanLock
  <2>2. PICK d : /\ calls' = (calls \ {c}) \cup {d}
                 /\ d.tab = c.tab /\ d.mount = c.mount /\ d.kind = c.kind /\ d.id = c.id
                 /\ d.values = c.values /\ (d.ok => c.ok \/ c.kind = "acquire")
    <3>1. CASE c.kind = "acquire"
      <4>1. PICK d : d = [c EXCEPT !.step = "answered", !.ok = TRUE, !.values = c.values]
        OBVIOUS
      <4>2. calls' = (calls \ {c}) \cup {d}
        BY <1>3, <3>1, <4>1 DEF ServeLock, Answer
      <4>3. d.tab = c.tab /\ d.mount = c.mount /\ d.kind = c.kind /\ d.id = c.id
            /\ d.values = c.values
        BY <1>1, <4>1 DEF CallType
      <4> QED BY <3>1, <4>2, <4>3
    <3>2. CASE c.kind # "acquire"
      <4>1. PICK d : d = [c EXCEPT !.step = "checked"]
        OBVIOUS
      <4>2. calls' = (calls \ {c}) \cup {d}
        BY <1>3, <3>2, <4>1 DEF ServeLock
      <4>3. d.tab = c.tab /\ d.mount = c.mount /\ d.kind = c.kind /\ d.id = c.id
            /\ d.values = c.values /\ d.ok = c.ok
        BY <1>1, <4>1 DEF CallType
      <4> QED BY <4>2, <4>3
    <3> QED BY <3>1, <3>2
  <2>3. Reply(c, d)
    BY <2>2 DEF Reply
  <2>4. ASSUME NEW s \in Tabs, NEW i \in Ids, Granted(s, i)'
        PROVE  Granted(s, i) \/ (UserOf[s] = UserOf[c.tab] /\ i = c.id)
    <3>1. ASSUME NEW e \in MyCalls(s)', e.id = i,
                 \/ e.kind = "update" /\ (e.step = "checked" \/ ~Made(i, s, e.mount)')
                 \/ e.kind = "acquire" /\ e.ok
          PROVE  Granted(s, i) \/ (UserOf[s] = UserOf[c.tab] /\ i = c.id)
      <4>1. e \in calls' /\ e.tab = s
        BY DEF MyCalls
      <4>2. Made(i, s, e.mount)' <=> Made(i, s, e.mount)
        BY <1>2, MadeSame DEF Calm
      <4>3. CASE e = d
        BY <2>2, <3>1, <4>1, <4>3
      <4>4. CASE e # d
        <5>1. e \in MyCalls(s)
          BY <2>2, <4>1, <4>4 DEF MyCalls
        <5> QED BY <3>1, <4>2, <5>1 DEF Granted
      <4> QED BY <4>3, <4>4
    <3>2. CASE tab[s].id = i /\ ~tab[s].fresh /\ (tab[s].at = "editing" \/ tab[s].held)
      BY <3>2 DEF Granted
    <3> QED BY <1>2, <2>4, <3>1, <3>2 DEF Granted
  <2>5. \A t \in Tabs : Entitled(t)'
    <3>1. PICK u \in Users, k \in Ids : u = UserOf[c.tab] /\ k = c.id
      BY <1>1
    <3> QED BY <1>2, <2>1, <2>4, <3>1, LockEntitles DEF SaveInv, Calm
  <2> QED BY <1>2, <2>2, <2>3, <2>5, OneReply
<1>4. CASE ~CanLock(UserOf[c.tab], c.id)
  <2>1. PICK d : d = [c EXCEPT !.step = "answered", !.ok = FALSE, !.values = c.values]
    OBVIOUS
  <2>2. calls' = (calls \ {c}) \cup {d} /\ lock' = lock
    BY <1>4, <2>1 DEF ServeLock, Answer
  <2>3. Reply(c, d) /\ NotGiven(c, d)
    BY <1>1, <2>1 DEF CallType, Reply, NotGiven
  <2> QED BY <1>2, <2>2, <2>3, OneReply
<1> QED BY <1>3, <1>4

\* The handlers that write no form are calm.
LEMMA ServerCalm ==
  ASSUME EditorInv, Note, NEW c \in calls,
         \/ ServeLock(c) \/ ServeRelease(c) \/ ServeRead(c) \/ ServeSubmit(c) \/ CallFails(c)
         \/ ServeUpdate(c) /\ store[c.id].status # "in_progress"
  PROVE  Calm
<1>1. c.kind # "create" => c.id \in Ids
  BY InvOfCall
<1>2. store \in [Ids -> StoreType]
  BY DEF EditorInv, TablesOK
<1>3. CASE store' = store
  BY <1>3, CalmUnchanged
<1>4. CASE ServeSubmit(c) /\ c.kind = "submit"
  <2>1. store' = [store EXCEPT ![c.id].status = "submitted"] /\ c.id \in Ids
    BY <1>1, <1>4 DEF ServeSubmit
  <2>2. PICK i \in Ids : i = c.id
    BY <2>1
  <2>3. store[i] \in StoreType
    BY <1>2
  <2>4. store[i].status # "absent"
    BY <1>1, <1>4, <2>2, InvOfCall
  <2>5. store'[i] = [store[i] EXCEPT !.status = "submitted"]
        /\ \A j \in Ids \ {i} : store'[j] = store[j]
    BY <1>2, <2>1, <2>2
  <2>6. /\ store'[i].by = store[i].by /\ store'[i].values = store[i].values
        /\ store'[i].maker = store[i].maker /\ store'[i].status = "submitted"
    BY <2>3, <2>5 DEF StoreType
  <2> QED BY <2>4, <2>5, <2>6 DEF Calm, Kept, TypedIn, Note
<1> QED BY <1>3, <1>4 DEF ServeLock, ServeRelease, ServeRead, ServeSubmit, CallFails, ServeUpdate

\* The other handlers that write no form.
LEMMA ServerKeeps ==
  ASSUME EditorInv, EditorInv', SaveInv, Note, NEW c \in calls,
         \/ ServeRelease(c) \/ ServeRead(c) \/ ServeSubmit(c) \/ CallFails(c)
         \/ ServeUpdate(c) /\ store[c.id].status # "in_progress"
  PROVE  SaveInv'
<1>1. c \in CallType /\ c.tab \in Tabs /\ CallFine(Used, c) /\ (c.kind # "create" => c.id \in Ids)
  BY InvOfCall
<1>2. store \in [Ids -> StoreType] /\ lock \in [Ids -> Users \cup {Nobody}]
  BY DEF EditorInv, TablesOK
<1>3. tab' = tab
  BY DEF ServeRelease, ServeRead, ServeSubmit, CallFails, ServeUpdate
<1>4. Calm
  BY ServerCalm
<1>5. \A i \in Ids : lock'[i] \in {lock[i], Nobody}
  BY <1>2 DEF ServeRelease, ServeRead, ServeSubmit, CallFails, ServeUpdate
<1>6. PICK d : calls' = (calls \ {c}) \cup {d} /\ Reply(c, d) /\ NotGiven(c, d)
  <2>1. CASE ServeRelease(c)
    <3>1. PICK d : d = [c EXCEPT !.step = "answered", !.ok = TRUE, !.values = c.values]
      OBVIOUS
    <3>2. calls' = (calls \ {c}) \cup {d} /\ c.kind = "release"
      BY <2>1, <3>1 DEF ServeRelease, Answer
    <3>3. Reply(c, d) /\ NotGiven(c, d)
      BY <1>1, <3>1, <3>2 DEF CallType, Reply, NotGiven
    <3> QED BY <3>2, <3>3
  <2>2. CASE ServeRead(c)
    <3>1. PICK d, st, b :
            d = [c EXCEPT !.step = "answered", !.values = store[c.id].values, !.status = st,
                          !.ok = b]
            /\ calls' = (calls \ {c}) \cup {d}
      BY <2>2 DEF ServeRead
    <3>2. c.kind \in {"fetch", "docs"}
      BY <2>2 DEF ServeRead
    <3>3. Reply(c, d) /\ NotGiven(c, d)
      BY <1>1, <3>1, <3>2 DEF CallType, Reply, NotGiven
    <3> QED BY <3>1, <3>3
  <2>3. CASE ServeSubmit(c)
    <3>1. PICK d : d = [c EXCEPT !.step = "answered", !.ok = TRUE, !.values = store[c.id].values]
      OBVIOUS
    <3>2. calls' = (calls \ {c}) \cup {d} /\ c.kind \in {"submit", "po"}
      BY <2>3, <3>1 DEF ServeSubmit, Answer
    <3>3. Reply(c, d) /\ NotGiven(c, d)
      BY <1>1, <3>1, <3>2 DEF CallType, Reply, NotGiven
    <3> QED BY <3>2, <3>3
  <2>4. CASE CallFails(c) \/ (ServeUpdate(c) /\ store[c.id].status # "in_progress")
    <3>1. PICK d : d = [c EXCEPT !.step = "answered", !.ok = FALSE, !.values = c.values]
      OBVIOUS
    <3>2. calls' = (calls \ {c}) \cup {d}
      BY <2>4, <3>1 DEF CallFails, ServeUpdate, Answer
    <3>3. Reply(c, d) /\ NotGiven(c, d)
      BY <1>1, <3>1 DEF CallType, Reply, NotGiven
    <3> QED BY <3>2, <3>3
  <2> QED BY <2>1, <2>2, <2>3, <2>4
<1> QED BY <1>3, <1>4, <1>5, <1>6, OneReply

-----------------------------------------------------------------------------
(* A save is written.                                                      *)

\* The save c replaces the form of campaign i, and is answered as d.
Writes(c, d, i) ==
  /\ c \in calls /\ c.kind = "update" /\ c.step = "checked" /\ c.id = i /\ i \in Ids
  /\ calls' = (calls \ {c}) \cup {d} /\ tab' = tab /\ lock' = lock
  /\ d.tab = c.tab /\ d.mount = c.mount /\ d.kind = c.kind /\ d.id = i /\ d.values = c.values
  /\ d.step = "answered"
  /\ store'[i].by = c.tab /\ TypedIn(i)' = c.values.typed /\ store'[i].values = c.values
  /\ \A j \in Ids \ {i} : store'[j].by = store[j].by /\ TypedIn(j)' = TypedIn(j)
  /\ Kept /\ store[i].status # "absent"
  /\ taken \subseteq taken' /\ overlapped \subseteq overlapped'

\* An update of a campaign that is not submitted is such a save.
LEMMA UpdateWrites ==
  ASSUME EditorInv, Note, NEW c \in calls, ServeUpdate(c), store[c.id].status = "in_progress"
  PROVE  \E d, i : Writes(c, d, i)
<1>1. c \in CallType /\ c.id \in Ids /\ c.kind = "update" /\ c.step = "checked"
  BY InvOfCall DEF ServeUpdate
<1>2. store \in [Ids -> StoreType]
  BY DEF EditorInv, TablesOK
<1>3. PICK i, d : /\ i \in Ids /\ i = c.id
                  /\ d = [c EXCEPT !.step = "answered", !.ok = TRUE, !.values = c.values]
  BY <1>1
<1>4. calls' = (calls \ {c}) \cup {d} /\ tab' = tab /\ lock' = lock
  BY <1>3 DEF ServeUpdate, Answer
<1>5. /\ d.tab = c.tab /\ d.mount = c.mount /\ d.kind = c.kind /\ d.id = i /\ d.values = c.values
      /\ d.step = "answered"
  BY <1>1, <1>3 DEF CallType
<1>6. store' = [store EXCEPT ![i].values = c.values, ![i].by = c.tab]
  BY <1>3 DEF ServeUpdate
<1>7. /\ store'[i] = [[store[i] EXCEPT !.values = c.values] EXCEPT !.by = c.tab]
      /\ \A j \in Ids \ {i} : store'[j] = store[j]
  BY <1>2, <1>3, <1>6
<1>8. store[i] \in StoreType
  BY <1>2, <1>3
<1>9. /\ store'[i].by = c.tab /\ store'[i].values = c.values
      /\ store'[i].maker = store[i].maker /\ store'[i].status = store[i].status
  BY <1>7, <1>8 DEF StoreType
<1>10. Kept /\ store[i].status # "absent"
  BY <1>3, <1>7, <1>9 DEF Kept
<1>11. taken \subseteq taken' /\ overlapped \subseteq overlapped'
  BY DEF Note
<1>12. TypedIn(i)' = c.values.typed /\ \A j \in Ids \ {i} : /\ store'[j].by = store[j].by
                                                          /\ TypedIn(j)' = TypedIn(j)
  BY <1>7, <1>9 DEF TypedIn
<1> QED BY <1>1, <1>3, <1>4, <1>5, <1>9, <1>10, <1>11, <1>12 DEF Writes

\* What a tab works on, the writer of a campaign works on only as the same user.
LEMMA OneUser ==
  ASSUME \A t \in Tabs : Entitled(t), NEW t \in Tabs \ taken, NEW s \in Tabs \ taken,
         NEW i \in Ids,
         Granted(t, i), Granted(s, i)
  PROVE  UserOf[s] = UserOf[t]
BY DEF Entitled

\* The editor that shows a campaign, and the calls that bring or write its
\* form, are at work on it.
LEMMA AtWork ==
  ASSUME EditorInv, NEW t \in Tabs, Opening(t)
  PROVE  /\ tab[t].at = "editing" /\ ~tab[t].fresh => Granted(t, tab[t].id)
         /\ \A c \in MyCalls(t) :
              \/ c.kind = "update" /\ ~Made(c.id, t, c.mount)
              \/ c.ok /\ c.kind \in Loads \cup {"update"} /\ Live(c) /\ ~tab[t].fresh
              => Granted(t, c.id)
<1>1. tab[t].at = "editing" /\ ~tab[t].fresh => Granted(t, tab[t].id)
  BY DEF Granted
<1>2. ASSUME NEW c \in MyCalls(t), c.kind = "update", ~Made(c.id, t, c.mount)
      PROVE  Granted(t, c.id)
  BY <1>2 DEF Granted
<1>3. ASSUME NEW c \in MyCalls(t), c.kind \in Loads \cup {"update"}, Live(c), ~tab[t].fresh
      PROVE  Granted(t, c.id)
  <2>1. c.id = tab[t].id /\ c.kind # "create"
    BY <1>3, InvOfCall DEF MyCalls, CallFits, Live
  <2>2. tab[t].at \in {"opening", "editing"}
    BY <1>3, InvOfTab DEF MyCalls, Live, TabType
  <2>3. tab[t].at = "opening" => tab[t].held
    BY <1>3, <2>1 DEF Opening, Loads
  <2> QED BY <1>3, <2>1, <2>2, <2>3 DEF Granted
<1> QED BY <1>1, <1>2, <1>3

\* The stored edits that a save drops: the promise, case by case.
LEMMA SaveGrows ==
  ASSUME EditorInv, SaveInv, NEW c, NEW d, NEW i, Writes(c, d, i)
  PROVE  \/ TypedIn(i) \subseteq c.values.typed
         \/ c.tab \in taken \/ store[i].by \in taken
         \/ store[i].by = c.tab /\ c.tab \in overlapped
         \/ store[i].by \in Tabs \ {c.tab} /\ UserOf[store[i].by] = UserOf[c.tab]
         \/ store[i].maker = <<c.tab, c.mount>>
<1>1. c \in MyCalls(c.tab) /\ c.tab \in Tabs /\ c.kind = "update" /\ c.id = i /\ i \in Ids
      /\ store[i].status # "absent"
  BY InvOfCall DEF Writes, MyCalls
<1>2. store[i].by \in Tabs \cup {Nobody}
  BY <1>1 DEF EditorInv, TablesOK, StoreType
<1>3. CASE store[i].by = Nobody
  BY <1>1, <1>3 DEF SaveInv, Unwritten
<1>4. CASE store[i].by = c.tab
  BY <1>1, <1>4 DEF SaveInv, Own, Carries
<1>5. CASE store[i].by \in Tabs /\ store[i].by # c.tab
  <2>1. ASSUME c.tab \notin taken, store[i].by \notin taken,
               UserOf[store[i].by] # UserOf[c.tab], ~Made(i, c.tab, c.mount)
        PROVE  TypedIn(i) \subseteq c.values.typed
    <3>1. WrittenByOther(c.tab, i)
      BY <1>5, <2>1 DEF WrittenByOther
    <3> QED BY <1>1, <2>1, <3>1 DEF SaveInv, Others
  <2> QED BY <1>1, <1>5, <2>1 DEF Made
<1> QED BY <1>2, <1>3, <1>4, <1>5

\* After a save, what its tab wrote last is what its call carried: the tab has
\* no other call with the form, unless it is marked.
LEMMA WriteOwn ==
  ASSUME EditorInv, NEW c, NEW d, NEW i, Writes(c, d, i), NEW t \in Tabs, Own(t)
  PROVE  Own(t)'
<1>1. t \in overlapped => t \in overlapped'
  BY DEF Writes
<1> SUFFICES ASSUME t \notin overlapped'
             PROVE  Own(t)'
  BY DEF Own
<1>2. t \notin overlapped
  BY <1>1
<1>3. tab' = tab /\ c \in calls /\ c.kind = "update" /\ c.id = i
  BY DEF Writes
<1>4. ASSUME NEW e \in MyCalls(t)'
      PROVE  \/ e \in MyCalls(t) /\ e # c
             \/ e = d /\ c.tab = t /\ c \in MyCalls(t)
  BY DEF Writes, MyCalls
<1>5. \A j \in Ids : j # i => store'[j].by = store[j].by /\ TypedIn(j)' = TypedIn(j)
  BY DEF Writes
<1>6. d.kind = "update" /\ d.id = i /\ d.values = c.values /\ d.mount = c.mount /\ d.tab = c.tab
      /\ store'[i].by = c.tab /\ TypedIn(i)' = c.values.typed
  BY DEF Writes
<1>7. ASSUME NEW e \in MyCalls(t)', Carries(e), store'[e.id].by = t
      PROVE  TypedIn(e.id)' \subseteq e.values.typed
  <2>1. CASE e = d
    BY <1>6, <2>1
  <2>2. CASE e # d
    <3>1. e \in MyCalls(t) /\ e # c
      BY <1>4, <2>2
    <3>2. e.id \in Ids
      BY <1>7, <3>1, NamedIds DEF MyCalls
    <3>3. CASE e.id # i
      BY <1>2, <1>5, <1>7, <3>1, <3>2, <3>3 DEF Own
    <3>4. CASE e.id = i
      <4>1. c \in MyCalls(t)
        BY <1>3, <1>6, <1>7, <3>4 DEF MyCalls
      <4>2. c = e
        BY <1>2, <1>3, <1>7, <3>1, <4>1, OneForm DEF Carries, Loads
      <4> QED BY <3>1, <4>2
    <3> QED BY <3>3, <3>4
  <2> QED BY <2>1, <2>2
<1>8. ASSUME tab[t].at = "editing", tab[t].id # NoId
      PROVE  /\ store'[tab[t].id].by = t => TypedIn(tab[t].id)' \subseteq tab[t].values.typed
             /\ \A e \in MyCalls(t)' :
                  /\ Live(e)' /\ e.kind \in {"update", "docs", "submit"} => e.id = tab[t].id
                  /\ e.kind = "update" /\ e.id = tab[t].id =>
                       /\ tab[t].persisted.typed \subseteq e.values.typed
                       /\ e.values.typed \subseteq tab[t].values.typed
  <2>1. tab[t].id \in Ids /\ TypedIn(tab[t].id)' = store'[tab[t].id].values.typed
    BY <1>3, <1>8, NamedIds DEF TypedIn
  <2>2. ASSUME NEW b \in MyCalls(t)
        PROVE  /\ Live(b) /\ b.kind \in {"update", "docs", "submit"} => b.id = tab[t].id
               /\ b.kind = "update" /\ b.id = tab[t].id =>
                    /\ tab[t].persisted.typed \subseteq b.values.typed
                    /\ b.values.typed \subseteq tab[t].values.typed
    BY <1>2, <1>8 DEF Own
  <2>3. ASSUME NEW e \in MyCalls(t)'
        PROVE  /\ Live(e)' /\ e.kind \in {"update", "docs", "submit"} => e.id = tab[t].id
               /\ e.kind = "update" /\ e.id = tab[t].id =>
                    /\ tab[t].persisted.typed \subseteq e.values.typed
                    /\ e.values.typed \subseteq tab[t].values.typed
    <3>1. CASE e \in MyCalls(t)
      BY <1>3, <2>2, <3>1 DEF Live
    <3>2. CASE e = d /\ c.tab = t /\ c \in MyCalls(t)
      <4>1. Live(d)' <=> Live(c)
        BY <1>3, <1>6 DEF Live
      <4> QED BY <1>3, <1>6, <2>2, <3>2, <4>1
    <3> QED BY <1>4, <3>1, <3>2
  <2>4. ASSUME store'[tab[t].id].by = t
        PROVE  TypedIn(tab[t].id)' \subseteq tab[t].values.typed
    <3>1. PICK j \in Ids : j = tab[t].id
      BY <2>1
    <3>2. TypedIn(j)' = TypedIn(tab[t].id)'
      BY <1>3, <3>1 DEF TypedIn
    <3>3. CASE j # i
      <4>1. store[j].by = t /\ TypedIn(j)' = TypedIn(j)
        BY <1>5, <2>4, <3>1, <3>3
      <4> QED BY <1>2, <1>8, <3>1, <3>2, <4>1 DEF Own
    <3>4. CASE j = i
      <4>1. c \in MyCalls(t)
        BY <1>3, <1>6, <2>4, <3>1, <3>4 DEF MyCalls
      <4> QED BY <1>3, <1>6, <2>2, <3>1, <3>2, <3>4, <4>1
    <3> QED BY <3>3, <3>4
  <2> QED BY <2>3, <2>4
<1>9. \A e : Carries(e)' <=> Carries(e)
  BY DEF Carries
<1> QED BY <1>2, <1>3, <1>7, <1>8, <1>9 DEF Own

\* The tab that writes a campaign excludes the tabs of other users.
LEMMA WriterAlone ==
  ASSUME EditorInv, SaveInv, NEW c, NEW d, NEW i, Writes(c, d, i), c.tab \notin taken,
         NEW t \in Tabs \ taken, Granted(t, i)
  PROVE  UserOf[c.tab] = UserOf[t]
<1>1. c \in MyCalls(c.tab) /\ c.tab \in Tabs /\ c.kind = "update" /\ c.id = i /\ i \in Ids
      /\ c.step = "checked"
  BY InvOfCall DEF Writes, MyCalls
<1>2. Granted(c.tab, i)
  BY <1>1 DEF Granted
<1> QED BY <1>1, <1>2, OneUser DEF SaveInv

\* Who waits for the form of another user is not at work on it: the writer is.
LEMMA WriteOthers ==
  ASSUME EditorInv, SaveInv, NEW c, NEW d, NEW i, Writes(c, d, i), NEW t \in Tabs
  PROVE  Others(t)'
<1>1. t \in taken => t \in taken'
  BY DEF Writes
<1> SUFFICES ASSUME t \notin taken'
             PROVE  Others(t)'
  BY DEF Others
<1>2. t \notin taken /\ Others(t) /\ Opening(t)
  BY <1>1 DEF SaveInv
<1>3. tab' = tab /\ c \in calls /\ c.kind = "update" /\ c.id = i /\ i \in Ids
      /\ store'[i].by = c.tab /\ taken \subseteq taken'
  BY DEF Writes
<1>4. ASSUME NEW j \in Ids, j # i
      PROVE  (WrittenByOther(t, j)' => WrittenByOther(t, j)) /\ TypedIn(j)' = TypedIn(j)
  BY <1>3, <1>4 DEF WrittenByOther, Writes
<1>5. ~(WrittenByOther(t, i)' /\ Granted(t, i))
  <2>1. ASSUME WrittenByOther(t, i)', Granted(t, i)
        PROVE  FALSE
    <3>1. c.tab \notin taken' /\ UserOf[c.tab] # UserOf[t]
      BY <1>3, <2>1 DEF WrittenByOther
    <3> QED BY <1>2, <1>3, <2>1, <3>1, WriterAlone
  <2> QED BY <2>1
<1>6. WrittenByOther(t, i)' => c.tab # t
  BY <1>3 DEF WrittenByOther
<1>7. ASSUME tab[t].at = "editing", ~tab[t].fresh, WrittenByOther(t, tab[t].id)'
      PROVE  TypedIn(tab[t].id)' \subseteq tab[t].values.typed
  <2>1. PICK j \in Ids : j = tab[t].id
    BY <1>7, InvOfTab DEF TabFine, Used
  <2>2. WrittenByOther(t, j)' /\ TypedIn(tab[t].id)' = TypedIn(j)'
    BY <1>3, <1>7, <2>1 DEF WrittenByOther, TypedIn
  <2>3. Granted(t, j)
    BY <1>2, <1>7, <2>1, AtWork
  <2>4. j # i
    BY <1>5, <2>2, <2>3
  <2>5. WrittenByOther(t, tab[t].id) /\ TypedIn(j)' = TypedIn(tab[t].id)
    BY <1>4, <2>1, <2>2, <2>4
  <2> QED BY <1>2, <1>7, <2>2, <2>5 DEF Others
<1>8. ASSUME NEW e \in MyCalls(t)', WrittenByOther(t, e.id)',
             \/ e.kind = "update" /\ ~Made(e.id, t, e.mount)'
             \/ e.ok /\ e.kind \in Loads /\ Live(e)' /\ ~tab[t].fresh
      PROVE  TypedIn(e.id)' \subseteq e.values.typed
  <2>1. e # d
    BY <1>6, <1>8 DEF Writes, MyCalls
  <2>2. e \in MyCalls(t)
    BY <2>1 DEF Writes, MyCalls
  <2>3. e.id \in Ids
    BY <1>8, <2>2, NamedIds DEF Carries, MyCalls
  <2>4. \/ e.kind = "update" /\ ~Made(e.id, t, e.mount)
        \/ e.ok /\ e.kind \in Loads /\ Live(e) /\ ~tab[t].fresh
    <3>1. Made(e.id, t, e.mount)' <=> Made(e.id, t, e.mount)
      BY <2>3, MadeSame DEF Writes
    <3>2. Live(e)' <=> Live(e)
      BY <1>3 DEF Live
    <3> QED BY <1>8, <3>1, <3>2
  <2>5. Granted(t, e.id)
    BY <1>2, <2>2, <2>4, AtWork
  <2>6. e.id # i
    BY <1>5, <1>8, <2>5
  <2>7. WrittenByOther(t, e.id) /\ TypedIn(e.id)' = TypedIn(e.id)
    BY <1>4, <1>8, <2>3, <2>6
  <2> QED BY <1>2, <2>2, <2>4, <2>7 DEF Others
<1>9. \A e : Live(e)' <=> Live(e)
  BY <1>3 DEF Live
<1> QED BY <1>3, <1>7, <1>8, <1>9 DEF Others

\* A save of another tab takes nothing away that this tab goes by.
LEMMA WriteStored ==
  ASSUME EditorInv, SaveInv, NEW c, NEW d, NEW i, Writes(c, d, i), NEW t \in Tabs
  PROVE  Stored(t)'
<1> SUFFICES ASSUME Trusting(t)'
             PROVE  Stored(t)'
  BY DEF Stored
<1>1. tab' = tab /\ c \in calls /\ c.kind = "update" /\ c.id = i /\ i \in Ids
      /\ TypedIn(i)' = c.values.typed /\ c.tab \in Tabs
  BY InvOfCall DEF Writes
<1>2. Trusting(t)
  BY <1>1 DEF Trusting, Writes
<1>3. Own(t) /\ Stored(t) /\ Opening(t) /\ Makers(t) /\ t \notin overlapped /\ taken = {}
  BY <1>2 DEF SaveInv, Trusting
<1>4. \A j \in Ids \ {i} : TypedIn(j)' = TypedIn(j)
  BY DEF Writes
<1>5. ASSUME c.tab # t, ~tab[t].fresh, Granted(t, i)
      PROVE  FALSE
  <2>1. UserOf[c.tab] = UserOf[t]
    BY <1>3, <1>5, WriterAlone
  <2> QED BY <1>1, <1>2, <1>5, <2>1 DEF Trusting
<1>6. ASSUME c.tab # t, tab[t].fresh, NEW m, Made(i, t, m)
      PROVE  TypedIn(i) \subseteq TypedIn(i)'
  <2>1. store[i].maker # <<c.tab, c.mount>>
    BY <1>6 DEF Made
  <2>2. overlapped = {} /\ taken = {} /\ \A r, s \in Tabs : UserOf[r] = UserOf[s] => r = s
    BY <1>2, <1>6 DEF Trusting
  <2> QED BY <1>1, <2>1, <2>2, SaveGrows
<1>7. ASSUME tab[t].at = "editing", tab[t].id # NoId
      PROVE  tab[t].persisted.typed \subseteq TypedIn(tab[t].id)'
  <2>1. PICK j \in Ids : j = tab[t].id
    BY <1>7, NamedIds
  <2>2. TypedIn(tab[t].id)' = TypedIn(j)'
    BY <1>1, <2>1 DEF TypedIn
  <2>3. tab[t].persisted.typed \subseteq TypedIn(j)
    BY <1>2, <1>3, <1>7, <2>1 DEF Stored
  <2>4. CASE j # i
    BY <1>4, <2>2, <2>3, <2>4
  <2>5. CASE j = i /\ c.tab = t
    <3>1. c \in MyCalls(t)
      BY <1>1, <2>5 DEF MyCalls
    <3>2. tab[t].persisted.typed \subseteq c.values.typed
      BY <1>1, <1>3, <1>7, <2>1, <2>5, <3>1 DEF Own
    <3> QED BY <1>1, <2>2, <2>5, <3>2
  <2>6. CASE j = i /\ c.tab # t
    <3>1. tab[t].fresh
      BY <1>3, <1>5, <1>7, <2>1, <2>6, AtWork
    <3>2. Made(i, t, tab[t].mount)
      <4>1. Made(tab[t].id, t, tab[t].mount)
        BY <1>3, <1>7, <3>1 DEF Makers
      <4> QED BY <2>1, <2>6, <4>1
    <3> QED BY <1>6, <2>2, <2>3, <2>6, <3>1, <3>2
  <2> QED BY <2>4, <2>5, <2>6
<1>8. ASSUME NEW e \in MyCalls(t)', Live(e)', e.ok, e.kind \in Loads \cup {"update"}
      PROVE  e.values.typed \subseteq TypedIn(e.id)'
  <2>1. CASE e = d
    BY <1>1, <2>1 DEF Writes
  <2>2. CASE e # d
    <3>1. e \in MyCalls(t) /\ e # c /\ Live(e)
      BY <1>1, <1>8, <2>2 DEF Writes, MyCalls, Live
    <3>2. e.id \in Ids
      BY <1>8, <3>1, NamedIds DEF Carries, MyCalls
    <3>3. e.values.typed \subseteq TypedIn(e.id)
      BY <1>2, <1>3, <1>8, <3>1 DEF Stored
    <3>4. CASE e.id # i
      BY <1>4, <3>2, <3>3, <3>4
    <3>5. CASE e.id = i /\ c.tab = t
      <4>1. c \in MyCalls(t)
        BY <1>1, <3>5 DEF MyCalls
      <4> QED BY <1>1, <1>3, <1>8, <3>1, <4>1, OneForm DEF Loads
    <3>6. CASE e.id = i /\ c.tab # t
      <4>1. tab[t].fresh
        BY <1>3, <1>5, <1>8, <3>1, <3>6, AtWork
      <4>2. e.kind # "fetch"
        BY <3>1, <4>1, InvOfCall DEF MyCalls, CallFits, Live
      <4>3. Made(e.id, t, e.mount)
        BY <1>3, <1>8, <3>1, <4>1, <4>2 DEF Makers, Loads
      <4>4. Made(i, t, e.mount)
        BY <3>6, <4>3
      <4> QED BY <1>6, <3>3, <3>6, <4>1, <4>4
    <3> QED BY <3>4, <3>5, <3>6
  <2> QED BY <2>1, <2>2
<1>9. \A e : Live(e)' <=> Live(e)
  BY <1>1 DEF Live
<1> QED BY <1>1, <1>7, <1>8, <1>9 DEF Stored

\* A save keeps the invariant.
LEMMA WriteKeeps ==
  ASSUME EditorInv, SaveInv, NEW c, NEW d, NEW i, Writes(c, d, i)
  PROVE  SaveInv'
<1>1. tab' = tab /\ c \in calls /\ c.kind = "update" /\ c.id = i /\ i \in Ids
      /\ store'[i].by = c.tab /\ c.tab \in Tabs /\ Kept /\ Nobody \notin Tabs
      /\ lock' = lock /\ taken \subseteq taken'
  BY InvOfCall, EditorAssumption DEF Writes
<1>2. Unwritten'
  BY <1>1 DEF SaveInv, Unwritten, Writes, Kept
<1>3. \A e \in calls' : \E b \in calls : /\ e.tab = b.tab /\ e.mount = b.mount
                                         /\ e.kind = b.kind /\ e.id = b.id /\ NotGiven(b, e)
                                         /\ e.kind # "create" \/ e = b
  BY DEF Writes, NotGiven
<1>4. \A t \in Tabs : Entitled(t)'
  <2>1. \A s \in Tabs : \A j \in Ids : Granted(s, j)' => Granted(s, j)
    BY <1>1, <1>3, NotGivenGranted
  <2> QED BY <1>1, <2>1, EntitledKept DEF SaveInv
<1>5. ASSUME NEW t \in Tabs
      PROVE  Opening(t)' /\ Makers(t)'
  <2>1. Opening(t) /\ Makers(t)
    BY DEF SaveInv
  <2>2. ASSUME NEW e \in MyCalls(t)'
        PROVE  \E b \in MyCalls(t) : /\ e.mount = b.mount /\ e.kind = b.kind /\ e.id = b.id
                                     /\ (Live(e)' <=> Live(b)) /\ (e.kind # "create" \/ e = b)
    BY <1>1, <1>3 DEF MyCalls, Live
  <2>3. Opening(t)'
    BY <1>1, <2>1, <2>2 DEF Opening
  <2>4. ASSUME tab[t].at # "dashboard", tab[t].fresh, tab[t].id # NoId
        PROVE  Made(tab[t].id, t, tab[t].mount)'
    <3>1. PICK j \in Ids : j = tab[t].id
      BY <2>4, NamedIds
    <3>2. Made(j, t, tab[t].mount)
      BY <2>1, <2>4, <3>1 DEF Makers
    <3> QED BY <1>1, <3>1, <3>2 DEF Made, Kept
  <2>5. ASSUME NEW e \in MyCalls(t)',
               \/ e.kind = "create" /\ e.ok
               \/ Live(e)' /\ tab[t].fresh /\ e.kind \in {"update", "submit", "docs"}
        PROVE  Made(e.id, t, e.mount)'
    <3>1. PICK b \in MyCalls(t) : /\ e.mount = b.mount /\ e.kind = b.kind /\ e.id = b.id
                                  /\ (Live(e)' <=> Live(b)) /\ (e.kind # "create" \/ e = b)
      BY <2>2
    <3>2. Made(b.id, t, b.mount)
      BY <2>1, <2>5, <3>1 DEF Makers
    <3>3. e.id \in Ids
      <4>1. b \in calls
        BY DEF MyCalls
      <4> QED BY <2>5, <3>1, <4>1, InvOfCall, NamedIds DEF Carries, Loads
    <3>4. Made(e.id, t, e.mount)
      BY <3>1, <3>2
    <3> QED BY <1>1, <3>3, <3>4, MadeSame
  <2> QED BY <1>1, <2>3, <2>4, <2>5 DEF Makers
<1>6. \A t \in Tabs : Own(t)' /\ Others(t)' /\ Stored(t)'
  BY WriteOwn, WriteOthers, WriteStored DEF SaveInv
<1> QED BY <1>2, <1>4, <1>5, <1>6 DEF SaveInv

-----------------------------------------------------------------------------
(* A campaign is created.                                                  *)

\* Call c creates campaign i, which nobody names yet, and is answered as d.
Creates(c, d, i) ==
  /\ c \in calls /\ c.kind = "create" /\ ~c.ok /\ i \in Ids /\ store[i].status = "absent"
  /\ calls' = (calls \ {c}) \cup {d} /\ tab' = tab /\ lock' = lock
  /\ d.tab = c.tab /\ d.mount = c.mount /\ d.kind = "create" /\ d.id = i /\ d.values = c.values
  /\ store'[i].by = c.tab /\ TypedIn(i)' = c.values.typed /\ Made(i, c.tab, c.mount)'
  /\ store'[i].status # "absent"
  /\ \A j \in Ids \ {i} : store'[j] = store[j]
  /\ \A t \in Tabs : tab[t].id # i
  /\ \A e \in calls : e.kind # "create" \/ Carries(e) => e.id # i
  /\ \A t \in Tabs : c.tab = t /\ Live(c) => tab[t].fresh /\ tab[t].at # "opening"
  /\ c.tab \in Tabs
  /\ taken \subseteq taken' /\ overlapped \subseteq overlapped'

\* A creation is granted.
LEMMA CreationMade ==
  ASSUME EditorInv, Note, NEW c \in calls, ServeCreate(c)
  PROVE  \E d, i : Creates(c, d, i)
<1>1. /\ c \in CallType /\ c.tab \in Tabs /\ CallFine(Used, c) /\ CallFits(c, tab[c.tab])
      /\ c.kind = "create" /\ c.step = "sent"
  BY InvOfCall DEF ServeCreate
<1>2. PICK i \in Ids :
       /\ store[i].status = "absent"
       /\ store' = [store EXCEPT ![i] = [status |-> "in_progress", values |-> c.values,
                                         by |-> c.tab, maker |-> <<c.tab, c.mount>>]]
       /\ calls' = (calls \ {c}) \cup {[c EXCEPT !.step = "answered", !.ok = TRUE, !.id = i]}
  BY DEF ServeCreate
<1>3. PICK d : d = [c EXCEPT !.step = "answered", !.ok = TRUE, !.id = i]
  OBVIOUS
<1>4. d.tab = c.tab /\ d.mount = c.mount /\ d.kind = "create" /\ d.id = i /\ d.values = c.values
  BY <1>1, <1>3 DEF CallType
<1>5. calls' = (calls \ {c}) \cup {d} /\ tab' = tab /\ lock' = lock /\ ~c.ok
  BY <1>1, <1>2, <1>3 DEF ServeCreate, CallFine
<1>6. PICK r : r = [status |-> "in_progress", values |-> c.values, by |-> c.tab,
                    maker |-> <<c.tab, c.mount>>]
  OBVIOUS
<1>7. store'[i] = r /\ \A j \in Ids \ {i} : store'[j] = store[j]
  BY <1>2, <1>6 DEF EditorInv, TablesOK
<1>8. store'[i].by = c.tab /\ TypedIn(i)' = c.values.typed /\ Made(i, c.tab, c.mount)'
      /\ store'[i].status # "absent"
  BY <1>6, <1>7 DEF TypedIn, Made
<1>9. \A t \in Tabs : tab[t].id # i
  BY <1>2, InvOfTab, EditorAssumption DEF TabFine, Used
<1>10. ASSUME NEW e \in calls, e.kind # "create" \/ Carries(e)
       PROVE  e.id # i
  BY <1>2, <1>10, InvOfCall DEF CallFine, Used, Carries, Loads
<1>11. \A t \in Tabs : c.tab = t /\ Live(c) => tab[t].fresh /\ tab[t].at # "opening"
  BY <1>1, InvOfTab DEF CallFits, Live, TabFine
<1>12. taken \subseteq taken' /\ overlapped \subseteq overlapped'
  BY DEF Note
<1>13. Creates(c, d, i)
  BY <1>1, <1>2, <1>4, <1>5, <1>7, <1>8, <1>9, <1>10, <1>11, <1>12 DEF Creates
<1> QED BY <1>13

\* The other campaigns, and the calls about them, are as they were.
LEMMA CreationElsewhere ==
  ASSUME EditorInv, NEW c, NEW d, NEW i, Creates(c, d, i), NEW t \in Tabs
  PROVE  /\ \A e \in MyCalls(t)' : \/ e \in MyCalls(t) /\ e # c
                                   \/ e = d /\ c.tab = t /\ (Live(d)' => tab[t].fresh)
         /\ \A e : Live(e)' <=> Live(e)
         /\ \A e : Carries(e)' <=> Carries(e)
         /\ \A j \in Ids \ {i} : /\ TypedIn(j)' = TypedIn(j)
                                 /\ \A m : Made(j, t, m)' <=> Made(j, t, m)
         /\ tab[t].id # NoId => TypedIn(tab[t].id)' = TypedIn(tab[t].id)
<1>1. tab' = tab /\ \A j \in Ids \ {i} : store'[j] = store[j]
  BY DEF Creates
<1>2. \A e : Live(e)' <=> Live(e)
  BY <1>1 DEF Live
<1>3. Live(d)' /\ c.tab = t => tab[t].fresh
  <2>1. Live(d)' => Live(c)
    BY <1>1 DEF Live, Creates
  <2> QED BY <2>1 DEF Creates
<1>4. \A e \in MyCalls(t)' : \/ e \in MyCalls(t) /\ e # c
                             \/ e = d /\ c.tab = t /\ (Live(d)' => tab[t].fresh)
  BY <1>3 DEF Creates, MyCalls
<1>5. \A e : Carries(e)' <=> Carries(e)
  BY DEF Carries
<1>6. \A j \in Ids \ {i} : /\ TypedIn(j)' = TypedIn(j)
                           /\ \A m : Made(j, t, m)' <=> Made(j, t, m)
  BY <1>1 DEF TypedIn, Made
<1>7. tab[t].id # NoId => TypedIn(tab[t].id)' = TypedIn(tab[t].id)
  <2>1. tab[t].id # NoId => tab[t].id \in Ids \ {i}
    BY NamedIds DEF Creates
  <2> QED BY <1>1, <2>1 DEF TypedIn
<1> QED BY <1>2, <1>4, <1>5, <1>6, <1>7

\* Nobody was given the lock of anything by a creation.
LEMMA CreationGrants ==
  ASSUME EditorInv, NEW c, NEW d, NEW i, Creates(c, d, i), NEW t \in Tabs, NEW j \in Ids,
         Granted(t, j)'
  PROVE  Granted(t, j)
<1>1. tab' = tab /\ d.kind = "create" /\ \A e \in calls : e.kind # "create" => e.id # i
  BY DEF Creates
<1>2. ASSUME NEW e \in MyCalls(t)', e.id = j,
             \/ e.kind = "update" /\ (e.step = "checked" \/ ~Made(j, t, e.mount)')
             \/ e.kind = "acquire" /\ e.ok
      PROVE  Granted(t, j)
  <2>1. e \in MyCalls(t) /\ j # i
    BY <1>1, <1>2, CreationElsewhere DEF MyCalls
  <2>2. Made(j, t, e.mount)' <=> Made(j, t, e.mount)
    BY <2>1, CreationElsewhere
  <2> QED BY <1>2, <2>1, <2>2 DEF Granted
<1>3. CASE tab[t].id = j /\ ~tab[t].fresh /\ (tab[t].at = "editing" \/ tab[t].held)
  BY <1>3 DEF Granted
<1> QED BY <1>1, <1>2, <1>3 DEF Granted

\* What its creator sends next is about the campaign it created.
LEMMA CreationMakers ==
  ASSUME EditorInv, NEW c, NEW d, NEW i, Creates(c, d, i), NEW t \in Tabs, Opening(t), Makers(t)
  PROVE  Opening(t)' /\ Makers(t)'
<1>1. tab' = tab /\ d.tab = c.tab /\ d.kind = "create" /\ d.id = i /\ d.mount = c.mount
      /\ Made(i, c.tab, c.mount)'
      /\ \A e \in calls : e.kind # "create" \/ Carries(e) => e.id # i
  BY DEF Creates
<1>2. Opening(t)'
  <2>1. ASSUME NEW e \in MyCalls(t)', Live(e)', tab[t].at = "opening"
        PROVE  e \in MyCalls(t) /\ Live(e)
    <3>1. ~tab[t].fresh
      BY <2>1, InvOfTab DEF TabFine
    <3> QED BY <2>1, <3>1, CreationElsewhere
  <2> QED BY <1>1, <2>1 DEF Opening
<1>3. ASSUME tab[t].at # "dashboard", tab[t].fresh, tab[t].id # NoId
      PROVE  Made(tab[t].id, t, tab[t].mount)'
  <2>1. PICK j \in Ids \ {i} : j = tab[t].id
    BY <1>3, NamedIds DEF Creates
  <2>2. Made(j, t, tab[t].mount)
    BY <1>3, <2>1 DEF Makers
  <2>3. store'[j] = store[j]
    BY <2>1 DEF Creates
  <2> QED BY <1>1, <2>1, <2>2, <2>3 DEF Made
<1>4. ASSUME NEW e \in MyCalls(t)',
             \/ e.kind = "create" /\ e.ok
             \/ Live(e)' /\ tab[t].fresh /\ e.kind \in {"update", "submit", "docs"}
      PROVE  Made(e.id, t, e.mount)'
  <2>1. CASE e = d /\ c.tab = t
    BY <1>1, <2>1
  <2>2. CASE e \in MyCalls(t)
    <3>1. Made(e.id, t, e.mount)
      BY <1>4, <2>2, CreationElsewhere DEF Makers
    <3>2. e.id \in Ids
      BY <1>4, <2>2, InvOfCall, NamedIds DEF Carries, Loads, MyCalls
    <3>3. e.id # i
      BY <1>1, <1>4, <2>2 DEF Carries, Loads, MyCalls
    <3> QED BY <3>1, <3>2, <3>3, CreationElsewhere
  <2> QED BY <2>1, <2>2, CreationElsewhere
<1> QED BY <1>1, <1>2, <1>3, <1>4 DEF Makers

\* Its creator has written it; nobody else has anything to do with it.
LEMMA CreationOwn ==
  ASSUME EditorInv, NEW c, NEW d, NEW i, Creates(c, d, i), NEW t \in Tabs, Own(t)
  PROVE  Own(t)'
<1>1. t \in overlapped => t \in overlapped'
  BY DEF Creates
<1> SUFFICES ASSUME t \notin overlapped'
             PROVE  Own(t)'
  BY DEF Own
<1>2. tab' = tab /\ d.kind = "create" /\ d.id = i /\ d.values = c.values
      /\ TypedIn(i)' = c.values.typed
      /\ (\A j \in Ids \ {i} : store'[j] = store[j])
      /\ \A e \in calls : Carries(e) => e.id # i
  BY DEF Creates
<1>3. ASSUME NEW e \in MyCalls(t)', Carries(e), store'[e.id].by = t
      PROVE  TypedIn(e.id)' \subseteq e.values.typed
  <2>1. CASE e = d
    BY <1>2, <2>1
  <2>2. CASE e \in MyCalls(t)
    <3>1. e.id \in Ids \ {i}
      BY <1>2, <1>3, <2>2, NamedIds DEF MyCalls
    <3>2. TypedIn(e.id)' = TypedIn(e.id) /\ store'[e.id] = store[e.id]
      BY <1>2, <3>1, CreationElsewhere
    <3> QED BY <1>1, <1>3, <2>2, <3>2 DEF Own
  <2> QED BY <2>1, <2>2, CreationElsewhere
<1>4. ASSUME tab[t].at = "editing", tab[t].id # NoId
      PROVE  /\ store'[tab[t].id].by = t => TypedIn(tab[t].id)' \subseteq tab[t].values.typed
             /\ \A e \in MyCalls(t)' :
                  /\ Live(e)' /\ e.kind \in {"update", "docs", "submit"} => e.id = tab[t].id
                  /\ e.kind = "update" /\ e.id = tab[t].id =>
                       /\ tab[t].persisted.typed \subseteq e.values.typed
                       /\ e.values.typed \subseteq tab[t].values.typed
  <2>1. tab[t].id \in Ids \ {i}
    BY <1>4, NamedIds DEF Creates
  <2>2. store'[tab[t].id] = store[tab[t].id] /\ TypedIn(tab[t].id)' = TypedIn(tab[t].id)
    BY <1>2, <1>4, <2>1, CreationElsewhere
  <2>3. ASSUME NEW e \in MyCalls(t)', e.kind \in {"update", "docs", "submit"}
        PROVE  e \in MyCalls(t) /\ (Live(e)' <=> Live(e))
    BY <1>2, <2>3, CreationElsewhere
  <2> QED BY <1>1, <1>4, <2>2, <2>3 DEF Own
<1> QED BY <1>1, <1>2, <1>3, <1>4, CreationElsewhere DEF Own

\* No other user waits for the form of a campaign that was not there.
LEMMA CreationOthers ==
  ASSUME EditorInv, NEW c, NEW d, NEW i, Creates(c, d, i), NEW t \in Tabs, Others(t)
  PROVE  Others(t)'
<1>1. t \in taken => t \in taken'
  BY DEF Creates
<1> SUFFICES ASSUME t \notin taken'
             PROVE  Others(t)'
  BY DEF Others
<1>2. tab' = tab /\ d.kind = "create" /\ taken \subseteq taken'
      /\ (\A j \in Ids \ {i} : store'[j] = store[j])
      /\ \A e \in calls : e.kind # "create" \/ Carries(e) => e.id # i
  BY DEF Creates
<1>3. ASSUME NEW j \in Ids \ {i}, WrittenByOther(t, j)'
      PROVE  WrittenByOther(t, j)
  BY <1>2, <1>3 DEF WrittenByOther
<1>4. ASSUME tab[t].at = "editing", ~tab[t].fresh, WrittenByOther(t, tab[t].id)'
      PROVE  TypedIn(tab[t].id)' \subseteq tab[t].values.typed
  <2>1. PICK j \in Ids \ {i} : j = tab[t].id
    BY <1>4, InvOfTab DEF TabFine, Used, Creates
  <2>2. WrittenByOther(t, j)' /\ TypedIn(tab[t].id)' = TypedIn(j)'
    BY <1>2, <1>4, <2>1 DEF WrittenByOther, TypedIn
  <2>3. WrittenByOther(t, tab[t].id) /\ TypedIn(j)' = TypedIn(tab[t].id)
    BY <1>3, <2>1, <2>2, CreationElsewhere
  <2> QED BY <1>1, <1>4, <2>2, <2>3 DEF Others
<1>5. ASSUME NEW e \in MyCalls(t)', WrittenByOther(t, e.id)',
             \/ e.kind = "update" /\ ~Made(e.id, t, e.mount)'
             \/ e.ok /\ e.kind \in Loads /\ Live(e)' /\ ~tab[t].fresh
      PROVE  TypedIn(e.id)' \subseteq e.values.typed
  <2>1. e \in MyCalls(t) /\ (Live(e)' <=> Live(e))
    BY <1>2, <1>5, CreationElsewhere
  <2>2. e.id \in Ids \ {i}
    BY <1>2, <1>5, <2>1, NamedIds DEF Carries, MyCalls
  <2>3. WrittenByOther(t, e.id) /\ TypedIn(e.id)' = TypedIn(e.id)
        /\ (Made(e.id, t, e.mount)' <=> Made(e.id, t, e.mount))
    BY <1>3, <1>5, <2>2, CreationElsewhere
  <2> QED BY <1>1, <1>5, <2>1, <2>3 DEF Others
<1> QED BY <1>2, <1>4, <1>5 DEF Others

\* The form of the new campaign is the one its creator is answered with.
LEMMA CreationStored ==
  ASSUME EditorInv, NEW c, NEW d, NEW i, Creates(c, d, i), NEW t \in Tabs, Stored(t)
  PROVE  Stored(t)'
<1> SUFFICES ASSUME Trusting(t)'
             PROVE  Stored(t)'
  BY DEF Stored
<1>1. tab' = tab /\ d.id = i /\ d.values = c.values /\ TypedIn(i)' = c.values.typed
      /\ \A e \in calls : e.kind # "create" \/ Carries(e) => e.id # i
  BY DEF Creates
<1>2. Trusting(t)
  BY <1>1 DEF Trusting, Creates
<1>3. ASSUME tab[t].at = "editing", tab[t].id # NoId
      PROVE  tab[t].persisted.typed \subseteq TypedIn(tab[t].id)'
  <2>1. TypedIn(tab[t].id)' = TypedIn(tab[t].id)
    BY <1>3, CreationElsewhere
  <2> QED BY <1>2, <1>3, <2>1 DEF Stored
<1>4. ASSUME NEW e \in MyCalls(t)', Live(e)', e.ok, e.kind \in Loads \cup {"update"}
      PROVE  e.values.typed \subseteq TypedIn(e.id)'
  <2>1. CASE e = d
    BY <1>1, <2>1
  <2>2. CASE e # d
    <3>1. e \in MyCalls(t) /\ Live(e)
      BY <1>4, <2>2, CreationElsewhere
    <3>2. e.id \in Ids \ {i}
      BY <1>1, <1>4, <3>1, NamedIds DEF Carries, MyCalls
    <3>3. TypedIn(e.id)' = TypedIn(e.id)
      BY <3>2, CreationElsewhere
    <3> QED BY <1>2, <1>4, <3>1, <3>3 DEF Stored
  <2> QED BY <2>1, <2>2
<1>5. \A e : Live(e)' <=> Live(e)
  BY <1>1 DEF Live
<1> QED BY <1>1, <1>3, <1>4, <1>5 DEF Stored

\* A creation keeps the invariant.
LEMMA CreateKeeps ==
  ASSUME EditorInv, SaveInv, NEW c, NEW d, NEW i, Creates(c, d, i)
  PROVE  SaveInv'
<1>1. \A t \in Tabs : Opening(t) /\ Makers(t) /\ Entitled(t) /\ Own(t) /\ Others(t) /\ Stored(t)
  BY DEF SaveInv
<1>2. Unwritten'
  <2>1. /\ store'[i].by = c.tab /\ c.tab # Nobody /\ store'[i].status # "absent"
        /\ \A j \in Ids \ {i} : store'[j] = store[j]
    BY EditorAssumption DEF Creates
  <2> QED BY <2>1 DEF SaveInv, Unwritten, TypedIn
<1>3. \A t \in Tabs : Entitled(t)'
  <2>1. lock' = lock /\ taken \subseteq taken'
    BY DEF Creates
  <2>2. \A s \in Tabs : \A j \in Ids : Granted(s, j)' => Granted(s, j)
    BY CreationGrants
  <2> QED BY <1>1, <2>1, <2>2, EntitledKept
<1>4. \A t \in Tabs : Opening(t)' /\ Makers(t)'
  BY <1>1, CreationMakers
<1>5. \A t \in Tabs : Own(t)' /\ Others(t)' /\ Stored(t)'
  BY <1>1, CreationOwn, CreationOthers, CreationStored
<1> QED BY <1>2, <1>3, <1>4, <1>5 DEF SaveInv

-----------------------------------------------------------------------------
(* The invariant.                                                          *)

\* An upload that ends adds to the artwork of a form, not to its edits.
LEMMA FinishCalm ==
  ASSUME EditorInv, Note, NEW a \in Art, FinishUpload(a)
  PROVE  Calm
<1>1. store \in [Ids -> StoreType] /\ art[a].id \in Ids
  BY DEF EditorInv, TablesOK, FinishUpload
<1>2. CASE store' = store
  BY <1>2, CalmUnchanged
<1>3. CASE store' = [store EXCEPT ![art[a].id].values.art = @ \cup {a}]
  <2>1. PICK i, s : i \in Ids /\ i = art[a].id /\ s = store[i].values.art \cup {a}
    BY <1>1
  <2>2. store' = [store EXCEPT ![i].values.art = s]
    BY <1>3, <2>1
  <2>3. store'[i] = [store[i] EXCEPT !.values.art = s]
        /\ \A j \in Ids \ {i} : store'[j] = store[j]
    BY <1>1, <2>1, <2>2
  <2>4. store[i] \in StoreType /\ store[i].values \in Values
    BY <1>1, <2>1 DEF StoreType
  <2>5. store'[i] = [store[i] EXCEPT !.values = [store[i].values EXCEPT !.art = s]]
    BY <2>3
  <2>6. /\ store'[i].by = store[i].by /\ store'[i].values.typed = store[i].values.typed
        /\ store'[i].maker = store[i].maker /\ store'[i].status = store[i].status
    BY <2>4, <2>5 DEF StoreType, Values
  <2> QED BY <2>3, <2>6 DEF Calm, Kept, TypedIn, Note
<1> QED BY <1>2, <1>3 DEF FinishUpload

\* A tab does something: its own calls and screen change, and nothing else.
LEMMA TabKeeps ==
  ASSUME EditorInv, EditorInv', SaveInv, Note, NEW t \in Tabs, Evolves(t),
         NEW K \in SUBSET Ids, ScreenStep(K, t), store' = store, lock' = lock
  PROVE  SaveInv'
<1>1. ASSUME NEW s \in Tabs \ {t}
      PROVE  Evolves(s)
  <2>1. tab'[s] = tab[s] /\ MyCalls(s)' = MyCalls(s)
    BY DEF ScreenStep, MyCalls
  <2> QED BY <2>1, UntouchedEvolves
<1>2. \A s \in Tabs : Evolves(s)
  BY <1>1
<1>3. Calm /\ \A i \in Ids : lock'[i] \in {lock[i], Nobody}
  BY CalmUnchanged
<1> QED BY <1>2, <1>3, EvolvesKeep

\* A step in which no tab does anything, and no lock is given.
LEMMA NoTabKeeps ==
  ASSUME EditorInv, EditorInv', SaveInv, Calm, tab' = tab, calls' = calls,
         \A i \in Ids : lock'[i] \in {lock[i], Nobody}
  PROVE  SaveInv'
<1>1. \A t \in Tabs : Evolves(t)
  BY UntouchedEvolves DEF MyCalls
<1> QED BY <1>1, EvolvesKeep

\* Every step keeps the invariant.
LEMMA SaveInvNext ==
  ASSUME EditorInv, SaveInv, Next
  PROVE  SaveInv'
<1>1. EditorInv' /\ Note
  BY EditorNext DEF Next
<1>2. PICK K \in SUBSET Ids : K = Used
  BY DEF Used
<1>3. ScreensOK(K) /\ ScreensOK(Used) /\ TablesOK
  BY <1>2 DEF EditorInv
<1>4. ASSUME NEW t \in Tabs, User(t) \/ AutoSave(t) \/ ShellRenders(t) \/ MergeBatch(t)
      PROVE  SaveInv'
  <2>1. Evolves(t)
    BY <1>4, UserEvolves DEF SaveInv
  <2>2. ScreenStep(K, t)
    BY <1>2, <1>3, <1>4, OpenScreen, TypeScreen, BackScreen, DialogScreen, NavigateScreen,
       SavingScreen, ShellScreen, RefreshScreen, MergeScreen DEF User
  <2>3. store' = store /\ lock' = lock
    <3>1. CASE Refresh(t) \/ MergeBatch(t)
      BY <3>1 DEF Refresh, MergeBatch
    <3>2. CASE ~(Refresh(t) \/ MergeBatch(t))
      BY <1>3, <1>4, <3>2, UserQuiet DEF User, Quiet
    <3> QED BY <3>1, <3>2
  <2> QED BY <1>1, <2>1, <2>2, <2>3, TabKeeps
<1>5. ASSUME NEW c \in calls, Answered(c)
      PROVE  SaveInv'
  <2>1. c.tab \in Tabs /\ ScreenStep(K, c.tab)
    BY <1>3, <1>5, AcquireScreen, FetchScreen, SaveScreen, RefusedScreen, HandlerScreen,
       ReleaseScreen, OrphanScreen
       DEF Answered
  <2>2. Evolves(c.tab)
    BY <1>5, <2>1, AnswerEvolves DEF SaveInv
  <2>3. store' = store /\ lock' = lock
    BY <1>3, <1>5, AnsweredQuiet DEF Quiet
  <2> QED BY <1>1, <2>1, <2>2, <2>3, TabKeeps
<1>6. ASSUME NEW c \in calls, Serve(c) \/ CallFails(c)
      PROVE  SaveInv'
  <2>1. CASE ServeLock(c)
    BY <1>1, <2>1, LockKeeps
  <2>2. CASE \/ ServeRelease(c) \/ ServeRead(c) \/ ServeSubmit(c) \/ CallFails(c)
             \/ ServeUpdate(c) /\ store[c.id].status # "in_progress"
    BY <1>1, <2>2, ServerKeeps
  <2>3. CASE ServeUpdate(c) /\ store[c.id].status = "in_progress"
    BY <1>1, <2>3, UpdateWrites, WriteKeeps
  <2>4. CASE ServeCreate(c)
    BY <1>1, <2>4, CreationMade, CreateKeeps
  <2> QED BY <1>6, <2>1, <2>2, <2>3, <2>4 DEF Serve
<1>7. ASSUME NEW i \in Ids, LockExpires(i)
      PROVE  SaveInv'
  <2>1. tab' = tab /\ calls' = calls /\ Calm
    BY <1>1, <1>7, CalmUnchanged DEF LockExpires
  <2>2. \A j \in Ids : lock'[j] \in {lock[j], Nobody}
    BY <1>3, <1>7 DEF LockExpires, TablesOK
  <2> QED BY <1>1, <2>1, <2>2, NoTabKeeps
<1>8. ASSUME NEW a \in Art, Worker(a) \/ RemoveQueued(a)
      PROVE  SaveInv'
  <2>1. tab' = tab /\ calls' = calls /\ lock' = lock
    BY <1>8 DEF Worker, StartUpload, FinishUpload, RemoveQueued
  <2>2. Calm
    BY <1>1, <1>8, CalmUnchanged, FinishCalm DEF Worker, StartUpload, RemoveQueued
  <2> QED BY <1>1, <2>1, <2>2, NoTabKeeps
<1> QED BY <1>4, <1>5, <1>6, <1>7, <1>8 DEF Next

\* Nothing is written, open or under way at the start.
LEMMA SaveInvInit ==
  ASSUME Init
  PROVE  SaveInv
<1>1. calls = {} /\ \A t \in Tabs : tab[t] = Closed /\ MyCalls(t) = {}
  BY DEF Init, MyCalls
<1>2. \A i \in Ids : store[i].by = Nobody /\ TypedIn(i) = {}
  BY DEF Init, TypedIn, Blank
<1>3. Unwritten
  BY <1>2 DEF Unwritten
<1>4. \A t \in Tabs : Opening(t) /\ Makers(t) /\ Own(t) /\ Others(t) /\ Stored(t)
  BY <1>1 DEF Opening, Makers, Own, Others, Stored, Closed
<1>5. \A t \in Tabs : \A i \in Ids : ~Granted(t, i)
  BY <1>1 DEF Granted, Closed
<1> QED BY <1>3, <1>4, <1>5 DEF SaveInv, Entitled

\* The invariant holds in every reachable state.
LEMMA SaveAlways == Spec => []SaveInv
<1>1. EditorInv /\ SaveInv /\ UNCHANGED vars => SaveInv'
  <2> SUFFICES ASSUME EditorInv, SaveInv, UNCHANGED vars
               PROVE  SaveInv'
    OBVIOUS
  <2>1. store' = store /\ lock' = lock /\ tab' = tab /\ calls' = calls
        /\ taken' = taken /\ overlapped' = overlapped
    BY DEF vars
  <2>2. EditorInv'
    BY DEF vars, EditorInv, ScreensOK, TablesOK, MarksOK, MakersOK, Used
  <2>3. Calm
    BY <2>1 DEF Calm, Kept, TypedIn
  <2> QED BY <2>1, <2>2, <2>3, NoTabKeeps
<1> QED BY <1>1, SaveInvInit, SaveInvNext, EditorAlways, PTL DEF Spec

\* What a step may drop of the edits of campaign i.
LEMMA DroppedStep ==
  ASSUME EditorInv, SaveInv, Next, NEW i \in Ids,
         ~(store[i].values.typed \subseteq store'[i].values.typed)
  PROVE  LET by  == store'[i].by
             was == store[i].by
         IN  \/ by \in taken \/ was \in taken
             \/ was = by /\ by \in overlapped
             \/ was # by /\ UserOf[was] = UserOf[by]
             \/ \E c \in MyCalls(by) : /\ c.kind = "update" /\ c.step = "checked" /\ c.id = i
                                       /\ store[i].maker = <<by, c.mount>>
                                       /\ c.values = store'[i].values
<1>1. Note /\ ~Calm
  BY DEF Next, Calm, TypedIn
<1>2. PICK c \in calls : ServeCreate(c) \/ ServeUpdate(c) \/ ServeSubmit(c)
  BY <1>1, StoreSteps, CalmUnchanged, FinishCalm
<1>3. ServeCreate(c) \/ (ServeUpdate(c) /\ store[c.id].status = "in_progress")
  BY <1>1, <1>2, ServerCalm
<1>4. CASE ServeCreate(c)
  <2>1. PICK d, k : Creates(c, d, k)
    BY <1>1, <1>4, CreationMade
  <2>2. CASE k = i
    BY <2>1, <2>2 DEF Creates, SaveInv, Unwritten, TypedIn
  <2>3. CASE k # i
    BY <2>1, <2>3 DEF Creates
  <2> QED BY <2>2, <2>3
<1>5. CASE ServeUpdate(c) /\ store[c.id].status = "in_progress"
  <2>1. PICK d, k : Writes(c, d, k)
    BY <1>1, <1>5, UpdateWrites
  <2>2. k = i
    <3>1. ASSUME k # i
          PROVE  FALSE
      BY <2>1, <3>1 DEF Writes, TypedIn
    <3> QED BY <3>1
  <2>3. /\ store'[i].by = c.tab /\ store'[i].values = c.values /\ c \in MyCalls(c.tab)
        /\ c.kind = "update" /\ c.step = "checked" /\ c.id = i
    BY <2>1, <2>2 DEF Writes, MyCalls
  <2>4. ~(TypedIn(i) \subseteq c.values.typed)
    BY <2>3 DEF TypedIn
  <2>5. \/ c.tab \in taken \/ store[i].by \in taken
        \/ store[i].by = c.tab /\ c.tab \in overlapped
        \/ store[i].by \in Tabs \ {c.tab} /\ UserOf[store[i].by] = UserOf[c.tab]
        \/ store[i].maker = <<c.tab, c.mount>>
    BY <2>1, <2>2, <2>4, SaveGrows
  <2> QED BY <2>3, <2>5
<1> QED BY <1>3, <1>4, <1>5

-----------------------------------------------------------------------------
(* Theorems.                                                               *)

\* A save replaces the whole stored form and the server compares nothing but
\* the lock.  Still no stored edit is lost, unless a tab went on although its
\* lock was taken by another user, two tabs of one user wrote in turn, the
\* previous writer had two saves under way at once, or the editor that created
\* the campaign saved it without ever having had its lock.
THEOREM EditsDroppedOnlyByRaces == Spec => StoredEditsDroppedOnlyByRaces
<1> DEFINE Drops ==
      \A i \in Ids : ~(store[i].values.typed \subseteq store'[i].values.typed) =>
        LET by  == store'[i].by
            was == store[i].by
        IN  \/ by \in taken \/ was \in taken
            \/ was = by /\ by \in overlapped
            \/ was # by /\ UserOf[was] = UserOf[by]
            \/ \E c \in MyCalls(by) : /\ c.kind = "update" /\ c.step = "checked" /\ c.id = i
                                      /\ store[i].maker = <<by, c.mount>>
                                      /\ c.values = store'[i].values
<1>1. EditorInv /\ SaveInv /\ [Next]_vars => [Drops]_vars
  BY DroppedStep DEF vars
<1> QED BY <1>1, EditorAlways, SaveAlways, PTL DEF Spec, StoredEditsDroppedOnlyByRaces

\* What the screen of an orderly tab takes for saved is stored: the answer it
\* goes by is never older than a form another tab has stored meanwhile.
THEOREM PersistedStored == Spec => []PersistedIsStored
<1>1. SaveInv => PersistedIsStored
  BY DEF SaveInv, Stored, Trusting, TypedIn, PersistedIsStored
<1> QED BY <1>1, SaveAlways, PTL
=============================================================================
