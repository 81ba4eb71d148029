---------------------- MODULE PrintIQSubmissionProofs ----------------------
(***************************************************************************)
(* What holds of a submission for every number of requests, users, rows,   *)
(* markets, products, deliveries, attachments and faults.                  *)
(***************************************************************************)
EXTENDS PrintIQSubmission, TLAPS

\* The plan of a market has steps, and the first one exists.
LEMMA PlanShape ==
  /\ NSteps \in Nat /\ QuoteSteps \in Nat /\ NSteps >= 4
  /\ QuoteSteps <= NSteps
  /\ 1 \in Markets /\ 1 \in 1..NSteps
BY PlanAssumption DEF NSteps, QuoteSteps, Markets

\* The loop position of a request names a step of the journal.
LEMMA AtIsKey ==
  ASSUME RequestsOK, NEW h \in Handlers
  PROVE  /\ At(h) \in Keys /\ At(h) # None
         /\ At(h)[1] = pos[h].m /\ At(h)[2] = pos[h].i
<1>1. pos[h].m \in Markets /\ pos[h].i \in 1..NSteps
  BY DEF RequestsOK, LoopPos
<1>2. At(h) \in Keys
  BY <1>1 DEF At, Keys
<1>3. At(h) \in Nat \X Nat
  BY <1>1, PlanAssumption, PlanShape DEF At, Markets
<1> QED BY <1>2, <1>3, NoneAssumption DEF At

\* What the fingerprint hashes is not the mark of a request that saw nothing.
LEMMA InputsNotNone == \A v \in Inputs : v # None
BY NoneAssumption

\* The steps of a new journal.
LEMMA EmptyStepsType ==
  /\ EmptyRow.steps \in JournalSteps
  /\ \A k \in Keys : EmptyRow.steps[k].state = "none"
<1>1. (CHOOSE b \in Builds : TRUE) \in Builds
  BY ValuesAssumption
<1>2. EmptyRow.steps = [k \in Keys |-> NoStep(CHOOSE b \in Builds : TRUE)]
  BY DEF EmptyRow
<1> QED BY <1>1, <1>2 DEF NoStep, JournalSteps, SavedStep, Replies

\* An unused row, and the row of a new journal, have the type of rows.
LEMMA EmptyRowType ==
  /\ EmptyRow \in Row
  /\ \A v \in Inputs, t \in BOOLEAN :
       [EmptyRow EXCEPT !.status = "active", !.inputs = v, !.test = t] \in Row
<1>1. (CHOOSE v \in Inputs : TRUE) \in Inputs
  BY ValuesAssumption
<1>2. EmptyRow \in Row
  BY <1>1, EmptyStepsType DEF EmptyRow, Row
<1> QED BY <1>2 DEF Row

\* The values a request starts and ends with.
LEMMA BlankRequest ==
  /\ NoJournal \in Memory /\ NoJournal.id = None
  /\ AtStart \in LoopPos
  /\ NoRequest \in [user : Users \cup {None}, test : BOOLEAN]
  /\ NotSeen \in [inputs : Inputs \cup {None},
                  status : {"in_progress", "submitted", None},
                  priced : BOOLEAN]
<1>1. NoJournal \in Memory
  BY EmptyStepsType DEF NoJournal, Memory
<1> QED BY <1>1, PlanShape DEF NoJournal, AtStart, LoopPos, NoRequest, NotSeen

\* A request may return at any point.
LEMMA FinishType ==
  ASSUME RequestsOK, NEW h \in Handlers, Finish(h),
         lock \in Handlers \cup {None}
  PROVE  RequestsOK' /\ lock' \in Handlers \cup {None} /\ pc'[h] = "idle"
<1>1. lock' \in Handlers \cup {None}
  BY DEF Finish
<1>2. pc'[h] = "idle" /\ pc' \in [Handlers -> {"idle"} \cup SetupPCs \cup RunningPCs]
  BY DEF Finish, Goto, RequestsOK
<1>3. mem' \in [Handlers -> Memory] /\ pos' \in [Handlers -> LoopPos]
  BY BlankRequest DEF Finish, RequestsOK
<1>4. /\ req' \in [Handlers -> [user : Users \cup {None}, test : BOOLEAN]]
      /\ seen' \in [Handlers -> [inputs : Inputs \cup {None},
                                 status : {"in_progress", "submitted", None},
                  priced : BOOLEAN]]
      /\ gone' \in [Handlers -> BOOLEAN]
  BY BlankRequest DEF Finish, RequestsOK
<1>5. ASSUME NEW g \in Handlers
      PROVE  /\ pc'[g] # "idle" => req'[g].user # None /\ seen'[g].inputs # None
             /\ pc'[g] \in RunningPCs \cup {"supersede"} => mem'[g].id # None
  <2>1. CASE g = h
    BY <2>1, <1>2 DEF RunningPCs
  <2>2. CASE g # h
    BY <2>2 DEF Finish, Goto, RequestsOK
  <2> QED BY <2>1, <2>2
<1> QED BY <1>1, <1>2, <1>3, <1>4, <1>5 DEF RequestsOK

\* A request that moves on within a market keeps its types.
LEMMA ProceedType ==
  ASSUME RequestsOK, NEW h \in Handlers, NEW m \in Memory, m.id # None,
         NEW ok \in BOOLEAN, Proceed(h, m, ok),
         pc[h] # "idle", lock \in Handlers \cup {None}
  PROVE  RequestsOK' /\ lock' \in Handlers \cup {None}
<1>1. CASE Finish(h)
  BY <1>1, FinishType
<1>2. CASE /\ Goto(h, IF pos[h].i = NSteps THEN "record" ELSE "run")
           /\ mem' = [mem EXCEPT ![h] = m]
           /\ pos' = [pos EXCEPT ![h] = [m |-> @.m,
                        i |-> IF pos[h].i = NSteps THEN @.i ELSE @.i + 1,
                        again |-> FALSE, failed |-> pos[h].failed \/ ~ok,
                        acted |-> FALSE]]
           /\ UNCHANGED <<lock, req, seen, gone>>
  <2>1. pc' \in [Handlers -> {"idle"} \cup SetupPCs \cup RunningPCs]
    BY <1>2 DEF Goto, RequestsOK, RunningPCs
  <2>2. mem' \in [Handlers -> Memory]
    BY <1>2 DEF RequestsOK
  <2>3. pos[h] \in LoopPos
    BY DEF RequestsOK
  <2>4. /\ pos[h].m \in Markets /\ (pos[h].failed \/ ~ok) \in BOOLEAN
        /\ (IF pos[h].i = NSteps THEN pos[h].i ELSE pos[h].i + 1) \in 1..NSteps
    BY <2>3, PlanShape DEF LoopPos
  <2>5. pos' \in [Handlers -> LoopPos]
    BY <1>2, <2>4 DEF RequestsOK, LoopPos
  <2>6. ASSUME NEW g \in Handlers
        PROVE  /\ pc'[g] # "idle" => req'[g].user # None /\ seen'[g].inputs # None
               /\ pc'[g] \in RunningPCs \cup {"supersede"} => mem'[g].id # None
    BY <1>2 DEF Goto, RequestsOK
  <2> QED BY <1>2, <2>1, <2>2, <2>5, <2>6 DEF RequestsOK
<1> QED BY <1>1, <1>2 DEF Proceed

\* Saving a journal, in whole or not at all, keeps the rows' type.
LEMMA WrittenType ==
  ASSUME rows \in [JournalIDs -> Row], NEW m \in Memory, m.id # None
  PROVE  Written(m) \in [JournalIDs -> Row]
<1>1. m.id \in JournalIDs /\ m.steps \in JournalSteps /\ m.cur \in Keys \cup {None}
  BY DEF Memory
<1>2. rows[m.id] \in Row
  BY <1>1
<1>3. [rows[m.id] EXCEPT !.steps = m.steps, !.cur = m.cur, !.superseded = FALSE] \in Row
  BY <1>1, <1>2 DEF Row
<1>4. Written(m) = [rows EXCEPT ![m.id] =
        [rows[m.id] EXCEPT !.steps = m.steps, !.cur = m.cur, !.superseded = FALSE]]
  BY <1>1 DEF Written
<1> QED BY <1>3, <1>4

-----------------------------------------------------------------------------
(* Each action preserves the types.                                        *)

\* A campaign nobody has submitted yet is well typed.
LEMMA InitType == Init => TypeOK
<1> SUFFICES ASSUME Init PROVE TypeOK
  OBVIOUS
<1>1. DatabaseOK
  BY EmptyRowType DEF Init, DatabaseOK
<1>2. RequestsOK
  BY BlankRequest DEF Init, RequestsOK, RunningPCs
<1>3. ExternalOK
  BY DEF Init, ExternalOK
<1> QED BY <1>1, <1>2, <1>3 DEF TypeOK

\* Taking the advisory lock and reading the campaign keeps types.
LEMMA BeginType ==
  ASSUME TypeOK, NEW h \in Handlers, NEW u \in Users, NEW t \in BOOLEAN,
         Begin(h, u, t)
  PROVE  TypeOK'
<1>1. DatabaseOK'
  BY DEF TypeOK, Begin, DatabaseOK
<1>2. ExternalOK'
  BY DEF TypeOK, Begin, ExternalOK, external
<1>3. u # None /\ campaign.inputs # None
  BY NoneAssumption, InputsNotNone DEF TypeOK, DatabaseOK
<1>4. /\ campaign.inputs \in Inputs
      /\ campaign.status \in {"in_progress", "submitted"}
      /\ campaign \in [inputs : Inputs \cup {None}, priced : BOOLEAN,
                      status : {"in_progress", "submitted", None}]
  BY DEF TypeOK, DatabaseOK
<1>5. RequestsOK'
  BY <1>3, <1>4 DEF TypeOK, Begin, RequestsOK, Goto, SetupPCs, RunningPCs
<1> QED BY <1>1, <1>2, <1>5 DEF TypeOK

\* Taking or renewing the edit lock, or being refused it, keeps types.
LEMMA AssertEditableType ==
  ASSUME TypeOK, NEW h \in Handlers, AssertEditable(h)
  PROVE  TypeOK'
<1>1. ExternalOK'
  BY DEF TypeOK, AssertEditable, ExternalOK, external
<1>2. CASE Finish(h) /\ UNCHANGED editLock
  BY <1>1, <1>2, FinishType DEF TypeOK, AssertEditable, DatabaseOK
<1>3. CASE /\ editLock' = req[h].user /\ Goto(h, "price")
           /\ UNCHANGED <<lock, req, seen, mem, pos, gone>>
  <2>1. DatabaseOK'
    BY <1>3 DEF TypeOK, AssertEditable, DatabaseOK, RequestsOK
  <2>2. RequestsOK'
    BY <1>3 DEF TypeOK, AssertEditable, RequestsOK, Goto, SetupPCs, RunningPCs
  <2> QED BY <1>1, <2>1, <2>2 DEF TypeOK
<1> QED BY <1>2, <1>3 DEF AssertEditable

\* Calculating a missing summary keeps types.
LEMMA PriceType ==
  ASSUME TypeOK, NEW h \in Handlers, Price(h)
  PROVE  TypeOK'
<1>1. ExternalOK'
  BY DEF TypeOK, Price, ExternalOK, external
<1>2. CASE Finish(h) /\ UNCHANGED campaign
  BY <1>1, <1>2, FinishType DEF TypeOK, Price, DatabaseOK
<1>3. CASE /\ Goto(h, "load")
           /\ UNCHANGED <<campaign, lock, req, seen, mem, pos, gone>>
  <2>1. DatabaseOK'
    BY <1>3 DEF TypeOK, Price, DatabaseOK
  <2>2. RequestsOK'
    BY <1>3 DEF TypeOK, Price, RequestsOK, Goto, SetupPCs, RunningPCs
  <2> QED BY <1>1, <2>1, <2>2 DEF TypeOK
<1>4. CASE /\ campaign' = [campaign EXCEPT !.priced = TRUE]
           /\ seen' = [seen EXCEPT ![h].inputs = campaign.inputs]
           /\ Goto(h, "load")
           /\ UNCHANGED <<lock, req, mem, pos, gone>>
  <2>1. DatabaseOK'
    BY <1>4 DEF TypeOK, Price, DatabaseOK
  <2>2. campaign.inputs \in Inputs /\ campaign.inputs # None
    BY InputsNotNone DEF TypeOK, DatabaseOK
  <2>3. RequestsOK'
    BY <1>4, <2>2 DEF TypeOK, Price, RequestsOK, Goto, SetupPCs, RunningPCs
  <2> QED BY <1>1, <2>1, <2>3 DEF TypeOK
<1> QED BY <1>2, <1>3, <1>4 DEF Price

\* Resuming, restarting or starting keeps types: a journal read from a row
\* is a journal.
LEMMA LoadJournalType ==
  ASSUME TypeOK, NEW h \in Handlers, LoadJournal(h)
  PROVE  TypeOK'
<1>1. ExternalOK' /\ DatabaseOK'
  BY DEF TypeOK, LoadJournal, ExternalOK, external, DatabaseOK
<1>2. CASE Goto(h, "create") /\ UNCHANGED mem
  <2>1. RequestsOK'
    BY <1>2 DEF TypeOK, LoadJournal, RequestsOK, Goto, SetupPCs, RunningPCs
  <2> QED BY <1>1, <2>1 DEF TypeOK
<1>3. ASSUME NEW id \in JournalIDs,
             \/ Goto(h, "supersede") /\ mem' = [mem EXCEPT ![h].id = id]
             \/ /\ Goto(h, "run")
                /\ mem' = [mem EXCEPT ![h] = [id |-> id, steps |-> rows[id].steps,
                                              cur |-> rows[id].cur]]
      PROVE  TypeOK'
  <2>1. id # None /\ rows[id] \in Row
    BY NoneAssumption DEF TypeOK, DatabaseOK
  <2>2. /\ [mem[h] EXCEPT !.id = id] \in Memory
        /\ [id |-> id, steps |-> rows[id].steps, cur |-> rows[id].cur] \in Memory
    <3>1. mem[h] \in Memory
      BY DEF TypeOK, RequestsOK
    <3>2. [mem[h] EXCEPT !.id = id] \in Memory
      BY <3>1 DEF Memory
    <3>3. [id |-> id, steps |-> rows[id].steps, cur |-> rows[id].cur] \in Memory
      BY <2>1 DEF Memory, Row
    <3> QED BY <3>2, <3>3
  <2>3. mem' \in [Handlers -> Memory] /\ mem'[h].id = id
    <3>1. mem \in [Handlers -> Memory] /\ mem[h] \in Memory
      BY DEF TypeOK, RequestsOK
    <3>2. [mem[h] EXCEPT !.id = id].id = id
      BY <3>1 DEF Memory
    <3>3. \E new \in Memory : new.id = id /\ mem' = [mem EXCEPT ![h] = new]
      BY <1>3, <2>2, <3>2
    <3> QED BY <3>1, <3>3
  <2>4. RequestsOK'
    BY <1>3, <2>1, <2>3
    DEF TypeOK, LoadJournal, RequestsOK, Goto, SetupPCs, RunningPCs
  <2> QED BY <1>1, <2>4 DEF TypeOK
<1> QED BY <1>2, <1>3 DEF LoadJournal

\* Closing a journal as superseded keeps types.
LEMMA SupersedeType ==
  ASSUME TypeOK, NEW h \in Handlers, Supersede(h)
  PROVE  TypeOK'
<1>1. ExternalOK'
  BY DEF TypeOK, Supersede, ExternalOK, external, Fault
<1>2. mem[h].id \in JournalIDs
  BY DEF TypeOK, Supersede, RequestsOK, Memory, SetupPCs
<1>3. [rows[mem[h].id] EXCEPT !.status = "completed", !.superseded = TRUE] \in Row
  <2>1. rows[mem[h].id] \in Row
    BY <1>2 DEF TypeOK, DatabaseOK
  <2> QED BY <2>1 DEF Row
<1>4. rows' \in [JournalIDs -> Row]
  BY <1>2, <1>3 DEF TypeOK, DatabaseOK, Supersede
<1>5. CASE Finish(h)
  BY <1>1, <1>4, <1>5, FinishType DEF TypeOK, Supersede, DatabaseOK
<1>6. CASE /\ Goto(h, "create") /\ mem' = [mem EXCEPT ![h] = NoJournal]
           /\ UNCHANGED <<lock, req, seen, pos, gone, faults>>
  <2>1. DatabaseOK'
    BY <1>4, <1>6 DEF TypeOK, Supersede, DatabaseOK
  <2>2. RequestsOK'
    BY <1>6, BlankRequest
    DEF TypeOK, Supersede, RequestsOK, Goto, SetupPCs, RunningPCs
  <2> QED BY <1>1, <2>1, <2>2 DEF TypeOK
<1> QED BY <1>5, <1>6 DEF Supersede

\* Inserting a fresh journal keeps types.
LEMMA CreateJournalType ==
  ASSUME TypeOK, NEW h \in Handlers, CreateJournal(h)
  PROVE  TypeOK'
<1>1. ExternalOK'
  BY DEF TypeOK, CreateJournal, ExternalOK, external, Fault
<1>2. seen[h].inputs \in Inputs /\ req[h].test \in BOOLEAN
  BY DEF TypeOK, CreateJournal, RequestsOK, SetupPCs
<1>3. rows' \in [JournalIDs -> Row]
  <2>1. rows \in [JournalIDs -> Row]
    BY DEF TypeOK, DatabaseOK
  <2>2. \/ rows' = rows
        \/ \E id \in JournalIDs :
             rows' = [rows EXCEPT ![id] = [EmptyRow EXCEPT
                        !.status = "active", !.inputs = seen[h].inputs,
                        !.test = req[h].test]]
    BY DEF CreateJournal
  <2>3. [EmptyRow EXCEPT !.status = "active", !.inputs = seen[h].inputs,
                         !.test = req[h].test] \in Row
    BY <1>2, EmptyRowType
  <2> QED BY <2>1, <2>2, <2>3
<1>4. CASE Finish(h)
  BY <1>1, <1>3, <1>4, FinishType DEF TypeOK, CreateJournal, DatabaseOK
<1>5. ASSUME NEW id \in JournalIDs,
             mem' = [mem EXCEPT ![h] = [NoJournal EXCEPT !.id = id]],
             Goto(h, "run"),
             UNCHANGED <<lock, req, seen, pos, gone, faults>>
      PROVE  TypeOK'
  <2>1. DatabaseOK'
    BY <1>3, <1>5 DEF TypeOK, CreateJournal, DatabaseOK
  <2>2. [NoJournal EXCEPT !.id = id] \in Memory
    BY BlankRequest DEF Memory
  <2>3. id # None
    BY NoneAssumption
  <2>4. mem' \in [Handlers -> Memory] /\ mem'[h].id # None
    BY <1>5, <2>2, <2>3, BlankRequest DEF TypeOK, RequestsOK, Memory
  <2>5. RequestsOK'
    BY <1>5, <2>4 DEF TypeOK, CreateJournal, RequestsOK, Goto, SetupPCs, RunningPCs
  <2> QED BY <1>1, <2>1, <2>5 DEF TypeOK
<1> QED BY <1>4, <1>5 DEF CreateJournal

\* An early return keeps types.
LEMMA SetupFailsType ==
  ASSUME TypeOK, NEW h \in Handlers, SetupFails(h)
  PROVE  TypeOK'
<1>1. ExternalOK'
  BY DEF TypeOK, SetupFails, ExternalOK, external, Fault
<1> QED BY <1>1, FinishType DEF TypeOK, SetupFails, DatabaseOK

\* A running request has a journal in memory.
LEMMA RunningHasJournal ==
  ASSUME TypeOK, NEW h \in Handlers, pc[h] \in RunningPCs
  PROVE  /\ mem[h] \in Memory /\ mem[h].id # None /\ mem[h].id \in JournalIDs
         /\ pc[h] # "idle" /\ pos[h] \in LoopPos
BY DEF TypeOK, RequestsOK, Memory, RunningPCs

\* A journal in memory keeps its type when a call is marked or answered.
LEMMA MarkedType ==
  ASSUME NEW m \in Memory, NEW k \in Keys, build \in Builds
  PROVE  /\ Marked(m, k) \in Memory /\ Marked(m, k).id = m.id
         /\ Marked(m, k).cur = k
         /\ Marked(m, k).steps = [m.steps EXCEPT ![k] =
              [state |-> "pending", payload |-> build, reply |-> "none"]]
<1> DEFINE s == [state |-> "pending", payload |-> build, reply |-> "none"]
<1>1. m.steps \in [Keys -> SavedStep]
  BY DEF Memory, JournalSteps
<1>2. s \in SavedStep /\ s.state # "retryable_timeout"
  BY DEF SavedStep, Attempted, Replies
<1>3. [m.steps EXCEPT ![k] = s] \in JournalSteps
  BY <1>1, <1>2 DEF Memory, JournalSteps
<1> QED BY <1>3 DEF Memory, Marked

\* Filing an answer changes one step and yields a journal.
LEMMA AnsweredType ==
  \A m \in Memory, k \in Keys, st \in Attempted, r \in Replies :
    (st = "retryable_timeout" => IsUpload(k))
      => /\ Answered(m, k, st, r) \in Memory
         /\ Answered(m, k, st, r).id = m.id
         /\ Answered(m, k, st, r).cur = m.cur
         /\ Answered(m, k, st, r).steps[k].state = st
         /\ \A j \in Keys \ {k} : Answered(m, k, st, r).steps[j] = m.steps[j]
<1> SUFFICES ASSUME NEW m \in Memory, NEW k \in Keys,
                    NEW st \in Attempted, NEW r \in Replies,
                    st = "retryable_timeout" => IsUpload(k)
             PROVE  /\ Answered(m, k, st, r) \in Memory
                    /\ Answered(m, k, st, r).id = m.id
                    /\ Answered(m, k, st, r).cur = m.cur
                    /\ Answered(m, k, st, r).steps[k].state = st
                    /\ \A j \in Keys \ {k} :
                         Answered(m, k, st, r).steps[j] = m.steps[j]
  OBVIOUS
<1> DEFINE step  == [m.steps[k] EXCEPT !.state = st, !.reply = r]
           steps == [m.steps EXCEPT ![k] = step]
<1>1. m.steps \in [Keys -> SavedStep] /\ m.steps[k] \in SavedStep
  BY DEF Memory, JournalSteps
<1>2. step \in SavedStep /\ step.state = st
  BY <1>1 DEF SavedStep
<1>3. steps \in JournalSteps
  BY <1>1, <1>2 DEF Memory, JournalSteps
<1>4. Answered(m, k, st, r) = [m EXCEPT !.steps = steps]
  BY <1>1 DEF Memory, SavedStep, Answered
<1>5. steps[k] = step /\ \A j \in Keys \ {k} : steps[j] = m.steps[j]
  BY <1>1
<1>6. DOMAIN m = {"id", "steps", "cur"}
  BY DEF Memory
<1> HIDE DEF steps, step
<1> QED BY <1>2, <1>3, <1>4, <1>5, <1>6 DEF Memory

\* Answering from the journal keeps types.
LEMMA AnswerFromJournalType ==
  ASSUME TypeOK, NEW h \in Handlers, AnswerFromJournal(h)
  PROVE  TypeOK'
<1>1. ExternalOK'
  BY DEF TypeOK, AnswerFromJournal, ExternalOK, external
<1>2. \E ok \in BOOLEAN : Proceed(h, mem[h], ok)
  <2> DEFINE used == mem[h].steps[At(h)].reply \in Usable
  <2>1. used \in BOOLEAN
    OBVIOUS
  <2> HIDE DEF used
  <2>2. Proceed(h, mem[h], used) \/ Proceed(h, mem[h], FALSE)
    BY DEF AnswerFromJournal, used
  <2> QED BY <2>1, <2>2
<1>3. pc[h] \in RunningPCs
  BY DEF AnswerFromJournal, RunningPCs
<1>4. RequestsOK' /\ lock' \in Handlers \cup {None}
  BY <1>2, <1>3, RunningHasJournal, ProceedType DEF TypeOK, DatabaseOK
<1> QED BY <1>1, <1>4 DEF TypeOK, AnswerFromJournal, DatabaseOK

\* The save before a call, successful or not, keeps types.
LEMMA MarkPendingType ==
  ASSUME TypeOK, NEW h \in Handlers, MarkPending(h)
  PROVE  TypeOK'
<1> DEFINE m == Marked(mem[h], At(h))
<1>1. pc[h] \in RunningPCs
  BY DEF MarkPending, RunningPCs
<1>2. m \in Memory /\ m.id # None
  <2>1. mem[h] \in Memory /\ mem[h].id # None
    BY <1>1, RunningHasJournal
  <2>2. At(h) \in Keys /\ build \in Builds
    BY AtIsKey DEF TypeOK, ExternalOK
  <2> QED BY <2>1, <2>2, MarkedType
<1> HIDE DEF m
<1>3. ExternalOK'
  <2>1. faults' = faults \/ faults' = faults + 1
    BY DEF MarkPending, SaveFails, Fault
  <2>2. UNCHANGED <<build, external, drops>>
    BY DEF MarkPending
  <2> QED BY <2>1, <2>2 DEF TypeOK, ExternalOK, external
<1>4. rows' \in {rows, Written(m)}
  BY DEF MarkPending, SaveSucceeds, SaveFails, m
<1>5. rows' \in [JournalIDs -> Row]
  BY <1>2, <1>4, WrittenType DEF TypeOK, DatabaseOK
<1>6. CASE \/ Proceed(h, mem[h], FALSE) \/ Proceed(h, m, FALSE)
  <2>1. RequestsOK' /\ lock' \in Handlers \cup {None}
    BY <1>1, <1>2, <1>6, RunningHasJournal, ProceedType DEF TypeOK, DatabaseOK
  <2> QED BY <1>3, <1>5, <2>1 DEF TypeOK, MarkPending, DatabaseOK
<1>7. CASE /\ Goto(h, "send") /\ mem' = [mem EXCEPT ![h] = m]
           /\ UNCHANGED <<lock, req, seen, pos, gone>>
  <2>1. RequestsOK'
    BY <1>1, <1>2, <1>7 DEF TypeOK, RequestsOK, Goto, SetupPCs, RunningPCs
  <2> QED BY <1>3, <1>5, <1>7, <2>1 DEF TypeOK, MarkPending, DatabaseOK
<1> QED BY <1>6, <1>7 DEF MarkPending, m

\* The failed save before an automatic retry keeps types.
LEMMA RetrySaveFailsType ==
  ASSUME TypeOK, NEW h \in Handlers, RetrySaveFails(h)
  PROVE  TypeOK'
<1>1. pc[h] \in RunningPCs
  BY DEF RetrySaveFails, RunningPCs
<1>2. ExternalOK'
  BY DEF TypeOK, RetrySaveFails, ExternalOK, external, SaveFails, Fault
<1>3. rows' \in [JournalIDs -> Row]
  BY <1>1, RunningHasJournal, WrittenType
  DEF TypeOK, DatabaseOK, RetrySaveFails, SaveFails
<1>4. RequestsOK' /\ lock' \in Handlers \cup {None}
  BY <1>1, RunningHasJournal, ProceedType DEF TypeOK, DatabaseOK, RetrySaveFails
<1> QED BY <1>2, <1>3, <1>4 DEF TypeOK, RetrySaveFails, DatabaseOK

\* Sending a call keeps types.
LEMMA SendType ==
  ASSUME TypeOK, NEW h \in Handlers, Send(h)
  PROVE  TypeOK'
<1>1. mem[h].id \in JournalIDs /\ At(h) \in Keys
  BY AtIsKey, RunningHasJournal DEF Send, RunningPCs, TypeOK
<1>2. ExternalOK'
  <2>1. sent' \in [JournalIDs -> [Keys -> Nat]]
    BY <1>1 DEF TypeOK, Send, ExternalOK
  <2>2. landed' \in [JournalIDs -> [Keys -> Nat]]
    <3>1. CASE landed' = [landed EXCEPT ![mem[h].id][At(h)] = @ + 1]
      BY <1>1, <3>1 DEF TypeOK, ExternalOK
    <3>2. CASE landed' = landed
      BY <3>2 DEF TypeOK, ExternalOK
    <3> QED BY <3>1, <3>2 DEF Send
  <2>3. faults' \in Nat
    BY DEF TypeOK, Send, ExternalOK, Fault
  <2> QED BY <2>1, <2>2, <2>3 DEF TypeOK, Send, ExternalOK
<1>3. DatabaseOK'
  BY DEF TypeOK, Send, DatabaseOK
<1>4. pos' \in [Handlers -> LoopPos]
  <2>1. pos \in [Handlers -> LoopPos] /\ pos[h] \in LoopPos
    BY DEF TypeOK, RequestsOK
  <2>2. [pos[h] EXCEPT !.acted = TRUE] \in LoopPos
    BY <2>1 DEF LoopPos
  <2>3. pos' = pos \/ pos' = [pos EXCEPT ![h] = [pos[h] EXCEPT !.acted = TRUE]]
    BY DEF Send
  <2> HIDE DEF LoopPos
  <2> QED BY <2>1, <2>2, <2>3
<1>5. RequestsOK'
  BY <1>4 DEF TypeOK, Send, RequestsOK, Goto, SetupPCs, RunningPCs
<1> QED BY <1>2, <1>3, <1>5 DEF TypeOK

\* What runOnce makes of an outcome is a state and a reply of the journal.
LEMMA ClassificationType ==
  ASSUME NEW k \in Keys, NEW acted \in BOOLEAN, NEW again \in BOOLEAN,
         NEW outcome \in Outcomes(k, acted)
  PROVE  /\ StateAfter(k, outcome, again) \in Attempted
         /\ ReplyAfter(StateAfter(k, outcome, again), outcome) \in Replies
         /\ StateAfter(k, outcome, again) = "retryable_timeout" => IsUpload(k)
<1>1. outcome \in {"timeout", "lost", "good", "keyless", "rejected", "unusable",
                    "product"}
  BY DEF Outcomes
<1>2. StateAfter(k, outcome, again) \in Attempted
  BY <1>1 DEF StateAfter, Usable, Attempted
<1>3. StateAfter(k, outcome, again) = "retryable_timeout" => IsUpload(k)
  BY <1>1 DEF StateAfter, Usable
<1>4. ReplyAfter(StateAfter(k, outcome, again), outcome) \in Replies
  BY <1>1 DEF StateAfter, ReplyAfter, Replies, Usable
<1> QED BY <1>2, <1>3, <1>4

\* Classifying and saving an answer, successfully or not, keeps types.
LEMMA ReplyType ==
  ASSUME TypeOK, NEW h \in Handlers, Reply(h)
  PROVE  TypeOK'
<1> DEFINE k == At(h)
           state(o) == StateAfter(k, o, pos[h].again)
           m(o) == Answered(mem[h], k, state(o), ReplyAfter(state(o), o))
           lost == Answered(mem[h], k, "pending", "none")
<1>1. pc[h] \in RunningPCs
  BY DEF Reply, RunningPCs
<1>2. /\ mem[h] \in Memory /\ mem[h].id # None /\ mem[h].id \in JournalIDs
      /\ pos[h].again \in BOOLEAN /\ pos[h].acted \in BOOLEAN /\ k \in Keys
  BY <1>1, RunningHasJournal, AtIsKey DEF TypeOK, LoopPos
<1>3. PICK o \in Outcomes(k, pos[h].acted) :
        /\ timeouts' = IF o = "timeout"
                         THEN [timeouts EXCEPT ![mem[h].id][k] = @ + 1]
                         ELSE timeouts
        /\ \/ /\ SaveSucceeds(m(o))
              /\ IF pos[h].acted /\ o # "good" THEN Fault ELSE UNCHANGED faults
              /\ \/ Proceed(h, m(o), o \in Usable)
                 \/ /\ Goto(h, "run")
                    /\ mem' = [mem EXCEPT ![h] = m(o)]
                    /\ pos' = [pos EXCEPT ![h].again = TRUE, ![h].acted = FALSE]
                    /\ UNCHANGED <<lock, req, seen, gone>>
           \/ SaveFails(m(o)) /\ Proceed(h, lost, FALSE)
  BY DEF Reply
<1>4. m(o) \in Memory /\ m(o).id = mem[h].id
  <2>1. /\ state(o) \in Attempted /\ ReplyAfter(state(o), o) \in Replies
        /\ state(o) = "retryable_timeout" => IsUpload(k)
    BY <1>2, ClassificationType
  <2> HIDE DEF state, k
  <2> QED BY <1>2, <2>1, AnsweredType
<1>5. lost \in Memory /\ lost.id = mem[h].id
  <2>1. "pending" \in Attempted /\ "none" \in Replies
    BY DEF Attempted, Replies
  <2>2. "pending" # "retryable_timeout"
    OBVIOUS
  <2> HIDE DEF k
  <2> QED BY <1>2, <2>1, <2>2, AnsweredType
<1> HIDE DEF m, lost, k, state
<1>6. ExternalOK'
  <2>1. faults' = faults \/ faults' = faults + 1
    BY <1>3 DEF SaveFails, Fault
  <2>2. timeouts' \in [JournalIDs -> [Keys -> Nat]]
    BY <1>2, <1>3 DEF TypeOK, ExternalOK
  <2>3. UNCHANGED <<build, sent, landed, drops>>
    BY DEF Reply
  <2> QED BY <2>1, <2>2, <2>3 DEF TypeOK, ExternalOK
<1>7. rows' \in [JournalIDs -> Row]
  <2>1. rows' \in {rows, Written(m(o))}
    BY <1>3 DEF SaveSucceeds, SaveFails
  <2> QED BY <1>2, <1>4, <2>1, WrittenType DEF TypeOK, DatabaseOK
<1>8. CASE \/ Proceed(h, m(o), o \in Usable) \/ Proceed(h, lost, FALSE)
  <2> DEFINE used == o \in Usable
  <2>1. used \in BOOLEAN
    OBVIOUS
  <2>2. Proceed(h, m(o), used) \/ Proceed(h, lost, FALSE)
    BY <1>8
  <2> HIDE DEF used
  <2>3. RequestsOK' /\ lock' \in Handlers \cup {None}
    <3>1. RequestsOK /\ lock \in Handlers \cup {None}
      BY DEF TypeOK, DatabaseOK
    <3>2. pc[h] # "idle"
      BY <1>1, RunningHasJournal
    <3>3. CASE Proceed(h, m(o), used)
      <4>1. m(o) \in Memory /\ m(o).id # None
        BY <1>2, <1>4
      <4> QED BY <2>1, <3>1, <3>2, <3>3, <4>1, ProceedType
    <3>4. CASE Proceed(h, lost, FALSE)
      <4>1. lost \in Memory /\ lost.id # None
        BY <1>2, <1>5
      <4> QED BY <3>1, <3>2, <3>4, <4>1, ProceedType
    <3> QED BY <2>2, <3>3, <3>4
  <2> QED BY <1>6, <1>7, <2>3 DEF TypeOK, Reply, DatabaseOK
<1>9. CASE /\ Goto(h, "run") /\ mem' = [mem EXCEPT ![h] = m(o)]
           /\ pos' = [pos EXCEPT ![h].again = TRUE, ![h].acted = FALSE]
           /\ UNCHANGED <<lock, req, seen, gone>>
  <2>1. pos' \in [Handlers -> LoopPos]
    <3>1. pos \in [Handlers -> LoopPos] /\ pos[h] \in LoopPos
      BY DEF TypeOK, RequestsOK
    <3>2. [pos[h] EXCEPT !.again = TRUE, !.acted = FALSE] \in LoopPos
      BY <3>1 DEF LoopPos
    <3>3. pos' = [pos EXCEPT ![h] = [pos[h] EXCEPT !.again = TRUE, !.acted = FALSE]]
      BY <1>9
    <3> HIDE DEF LoopPos
    <3> QED BY <3>1, <3>2, <3>3
  <2>2. mem' \in [Handlers -> Memory] /\ mem'[h].id # None
    BY <1>2, <1>4, <1>9 DEF TypeOK, RequestsOK
  <2>3. RequestsOK'
    BY <1>1, <1>9, <2>1, <2>2 DEF TypeOK, RequestsOK, Goto, SetupPCs, RunningPCs
  <2> QED BY <1>6, <1>7, <1>9, <2>3 DEF TypeOK, Reply, DatabaseOK
<1> QED BY <1>3, <1>8, <1>9

\* The record transaction, committed, lost or refused, keeps types.
LEMMA RecordType ==
  ASSUME TypeOK, NEW h \in Handlers, Record(h)
  PROVE  TypeOK'
<1>1. pc[h] \in RunningPCs
  BY DEF Record, RunningPCs
<1>2. mem[h].id \in JournalIDs /\ pos[h] \in LoopPos /\ pos[h].m \in Markets
  BY <1>1, RunningHasJournal DEF LoopPos
<1>3. ExternalOK'
  BY DEF TypeOK, Record, ExternalOK, external, Fault
<1>4. /\ rows' \in [JournalIDs -> Row]
      /\ quotes' \in [JournalIDs -> [Markets -> Nat]]
      /\ campaign' \in [inputs : Inputs, status : {"in_progress", "submitted"},
                        priced : BOOLEAN]
  <2>1. CASE UNCHANGED <<rows, quotes, campaign>>
    BY <2>1 DEF TypeOK, DatabaseOK
  <2>2. CASE /\ \E s \in {"completed", "active"} :
                   rows' = [rows EXCEPT ![mem[h].id].recorded = @ \cup {pos[h].m},
                                        ![mem[h].id].status = s]
             /\ quotes' = [quotes EXCEPT ![mem[h].id][pos[h].m] = @ + 1]
             /\ campaign' \in {campaign, [campaign EXCEPT !.status = "submitted"]}
    <3>1. rows[mem[h].id] \in Row
      BY <1>2 DEF TypeOK, DatabaseOK
    <3>2. \A s \in {"completed", "active"} :
            [rows[mem[h].id] EXCEPT !.recorded = @ \cup {pos[h].m}, !.status = s] \in Row
      BY <1>2, <3>1 DEF Row
    <3>3. rows' \in [JournalIDs -> Row]
      <4>1. rows \in [JournalIDs -> Row]
        BY DEF TypeOK, DatabaseOK
      <4>2. PICK s \in {"completed", "active"} :
              rows' = [rows EXCEPT ![mem[h].id] =
                         [rows[mem[h].id] EXCEPT !.recorded = @ \cup {pos[h].m}, !.status = s]]
        <5>1. PICK s \in {"completed", "active"} :
                rows' = [rows EXCEPT ![mem[h].id].recorded = @ \cup {pos[h].m},
                                     ![mem[h].id].status = s]
          BY <2>2
        <5> QED BY <1>2, <4>1, <5>1
      <4> QED BY <1>2, <3>2, <4>1, <4>2
    <3>4. quotes' \in [JournalIDs -> [Markets -> Nat]]
      BY <1>2, <2>2 DEF TypeOK, DatabaseOK
    <3> QED BY <2>2, <3>3, <3>4 DEF TypeOK, DatabaseOK
  <2>3. RecordCommits(h) \/ UNCHANGED <<rows, quotes, campaign>>
    BY DEF Record
  <2> QED BY <2>1, <2>2, <2>3 DEF RecordCommits
<1>5. CASE Finish(h)
  BY <1>3, <1>4, <1>5, FinishType DEF TypeOK, Record, DatabaseOK
<1>6. CASE /\ pos[h].m < NMarkets /\ Goto(h, "run")
           /\ pos' = [pos EXCEPT ![h] = [AtStart EXCEPT !.m = pos[h].m + 1]]
           /\ UNCHANGED <<lock, req, seen, mem, gone>>
  <2>1. pos[h].m + 1 \in Markets
    BY <1>2, <1>6, PlanAssumption DEF Markets
  <2>2. [AtStart EXCEPT !.m = pos[h].m + 1] \in LoopPos
    BY <2>1, BlankRequest DEF LoopPos
  <2>3. RequestsOK'
    BY <1>1, <1>6, <2>2 DEF TypeOK, RequestsOK, Goto, SetupPCs, RunningPCs
  <2> QED BY <1>3, <1>4, <1>6, <2>3 DEF TypeOK, Record, DatabaseOK
<1> QED BY <1>5, <1>6 DEF Record

\* A reconciled row keeps its type.
LEMMA ResolvedType ==
  ASSUME NEW row \in Row, NEW k \in Keys
  PROVE  /\ Resolved(row, k, "done", "good") \in Row
         /\ Resolved(row, k, "failed", "rejected") \in Row
<1>1. row.steps \in [Keys -> SavedStep] /\ row.steps[k] \in SavedStep
  BY DEF Row, JournalSteps
<1>2. ASSUME NEW st \in Attempted \ {"retryable_timeout"}, NEW r \in Replies
      PROVE  Resolved(row, k, st, r) \in Row
  <2> DEFINE step  == [row.steps[k] EXCEPT !.state = st, !.reply = r]
             steps == [row.steps EXCEPT ![k] = step]
  <2>1. step \in SavedStep /\ step.state # "retryable_timeout"
    BY <1>1 DEF SavedStep
  <2>2. steps \in JournalSteps
    BY <1>1, <2>1 DEF Row, JournalSteps
  <2>3. [row EXCEPT !.steps = steps, !.superseded = FALSE] \in Row
    BY <2>2 DEF Row
  <2>4. Resolved(row, k, st, r) = [row EXCEPT !.steps = steps, !.superseded = FALSE]
    BY <1>1 DEF Resolved, SavedStep
  <2> QED BY <2>3, <2>4
<1> QED BY <1>2 DEF Attempted, Replies

\* Edits, reconciliation, status changes and faults keep types.
LEMMA BesideType ==
  ASSUME TypeOK, Beside
  PROVE  TypeOK'
<1>1. ASSUME NEW u \in Users, NEW v \in Inputs, NEW keeps \in BOOLEAN,
             Edit(u, v, keeps)
      PROVE  TypeOK'
  BY <1>1 DEF TypeOK, Edit, DatabaseOK, RequestsOK, ExternalOK, local, external
<1>10. ASSUME NEW v \in Inputs, Append(v)
       PROVE  TypeOK'
  BY <1>10 DEF TypeOK, Append, DatabaseOK, RequestsOK, ExternalOK, local, external
<1>11. ASSUME NEW u \in Users, Calculate(u)
       PROVE  TypeOK'
  BY <1>11 DEF TypeOK, Calculate, DatabaseOK, RequestsOK, ExternalOK, local, external
<1>2. CASE EditLockEnds
  BY <1>2 DEF TypeOK, EditLockEnds, DatabaseOK, RequestsOK, ExternalOK, local, external
<1>3. CASE MarkSubmitted
  BY <1>3 DEF TypeOK, MarkSubmitted, DatabaseOK, RequestsOK, ExternalOK, local, external
<1>4. CASE ResetStatus
  BY <1>4 DEF TypeOK, ResetStatus, DatabaseOK, RequestsOK, ExternalOK, local, external
<1>5. ASSUME NEW id \in JournalIDs, NEW k \in Keys, Reconcile(id, k)
      PROVE  TypeOK'
  <2>1. RequestsOK'
    BY <1>5 DEF TypeOK, Reconcile, RequestsOK, local
  <2>2. ExternalOK'
    <3>1. timeouts' = timeouts \/ timeouts' = [timeouts EXCEPT ![id][k] = 0]
      BY <1>5 DEF Reconcile
    <3>2. timeouts' \in [JournalIDs -> [Keys -> Nat]]
      <4>1. [timeouts[id] EXCEPT ![k] = 0] \in [Keys -> Nat]
        BY DEF TypeOK, ExternalOK
      <4>2. CASE timeouts' = timeouts
        BY <4>2 DEF TypeOK, ExternalOK
      <4>3. CASE timeouts' = [timeouts EXCEPT ![id] = [timeouts[id] EXCEPT ![k] = 0]]
        BY <4>1, <4>3 DEF TypeOK, ExternalOK
      <4> QED BY <3>1, <4>2, <4>3
    <3> QED BY <1>5, <3>2 DEF TypeOK, Reconcile, ExternalOK
  <2>3. rows \in [JournalIDs -> Row] /\ rows[id] \in Row
    BY DEF TypeOK, DatabaseOK
  <2>4. /\ Resolved(rows[id], k, "done", "good") \in Row
        /\ Resolved(rows[id], k, "failed", "rejected") \in Row
    BY <2>3, ResolvedType
  <2>5. rows' \in [JournalIDs -> Row]
    BY <1>5, <2>3, <2>4 DEF Reconcile
  <2> QED BY <1>5, <2>1, <2>2, <2>5 DEF TypeOK, Reconcile, DatabaseOK
<1>6. ASSUME NEW h \in Handlers, Disconnect(h)
      PROVE  TypeOK'
  BY <1>6 DEF TypeOK, Disconnect, DatabaseOK, RequestsOK, ExternalOK, external, Fault
<1>7. ASSUME NEW h \in Handlers, Crash(h)
      PROVE  TypeOK'
  <2>1. ExternalOK'
    BY <1>7 DEF TypeOK, Crash, ExternalOK, external, Fault
  <2> QED BY <1>7, <2>1, FinishType DEF TypeOK, Crash, DatabaseOK
<1>8. ASSUME NEW h \in Handlers, DropLock(h)
      PROVE  TypeOK'
  BY <1>8 DEF TypeOK, DropLock, DatabaseOK, RequestsOK, ExternalOK, local, external
<1>9. CASE Deploy
  BY <1>9 DEF TypeOK, Deploy, DatabaseOK, RequestsOK, ExternalOK, local, external
<1> QED BY <1>1, <1>2, <1>3, <1>4, <1>5, <1>6, <1>7, <1>8, <1>9, <1>10, <1>11 DEF Beside

\* Every step keeps types.
LEMMA NextType == TypeOK /\ [Next]_vars => TypeOK'
<1> SUFFICES ASSUME TypeOK, [Next]_vars PROVE TypeOK'
  OBVIOUS
<1>1. ASSUME NEW h \in Handlers, Advance(h)
      PROVE  TypeOK'
  BY <1>1, AssertEditableType, PriceType, LoadJournalType, SupersedeType,
     CreateJournalType, SetupFailsType, AnswerFromJournalType, MarkPendingType,
     RetrySaveFailsType, SendType, ReplyType, RecordType DEF Advance
<1>2. CASE UNCHANGED vars
  BY <1>2 DEF TypeOK, DatabaseOK, RequestsOK, ExternalOK, vars, local, external
<1> QED BY <1>1, <1>2, BeginType, BesideType DEF Next

\* Every variable keeps its type, whatever the requests, the people and the
\* environment do: retryable_timeout never gets on a quote step.
THEOREM TypeCorrect == Spec => []TypeOK
BY InitType, NextType, PTL DEF Spec

-----------------------------------------------------------------------------
(* The journal and the calls stay in step while the lock's connection does *)
(* not fail.                                                               *)

\* When the request that holds the lock ends, no request runs.
LEMMA FinishEndsRequest ==
  ASSUME RequestsOK, NEW h \in Handlers, OneRequest, lock = h, Finish(h)
  PROVE  \A g \in Handlers : pc'[g] = "idle"
BY DEF RequestsOK, OneRequest, Finish, Goto

\* A request returns, or moves on and keeps the lock; no other one moves.
Moves(h) ==
  \/ Finish(h)
  \/ /\ UNCHANGED lock
     /\ \A g \in Handlers \ {h} : pc'[g] = pc[g]

\* A handler that advances is the lock's holder, and keeps or frees it.
LEMMA OneRequestAdvance ==
  ASSUME TypeOK, OneRequest, NEW h \in Handlers, pc[h] # "idle", Moves(h)
  PROVE  OneRequest'
<1>1. lock = h
  BY DEF OneRequest
<1>2. CASE Finish(h)
  BY <1>1, <1>2, FinishEndsRequest DEF TypeOK, OneRequest
<1>3. CASE /\ UNCHANGED lock
           /\ \A g \in Handlers \ {h} : pc'[g] = pc[g]
  BY <1>1, <1>3 DEF OneRequest
<1> QED BY <1>2, <1>3 DEF Moves

\* Going on within a request moves no other handler and keeps the lock.
LEMMA GotoMoves ==
  ASSUME RequestsOK, NEW h \in Handlers, NEW l, Goto(h, l), UNCHANGED lock
  PROVE  Moves(h)
BY DEF RequestsOK, Goto, Moves

\* So does what the sequence does with an outcome, or the request ends.
LEMMA ProceedMoves ==
  ASSUME RequestsOK, NEW h \in Handlers, NEW m, NEW ok, Proceed(h, m, ok)
  PROVE  Moves(h)
BY GotoMoves DEF Proceed, Moves

\* No step lets a second request past Begin while the connection lives.
LEMMA OneRequestStep ==
  ASSUME MaxDrops = 0, TypeOK, OneRequest, [Next]_vars
  PROVE  OneRequest'
<1>1. ASSUME NEW h \in Handlers, NEW u \in Users, NEW t \in BOOLEAN,
             Begin(h, u, t)
      PROVE  OneRequest'
  <2>1. \A g \in Handlers : pc[g] = "idle"
    BY <1>1, NoneAssumption DEF Begin, OneRequest
  <2> QED BY <1>1, <2>1 DEF Begin, OneRequest, Goto, TypeOK, RequestsOK
<1>2. ASSUME NEW h \in Handlers, Advance(h)
      PROVE  OneRequest'
  <2>1. pc[h] # "idle"
    BY <1>2 DEF Advance, AssertEditable, Price, LoadJournal, Supersede,
       CreateJournal, SetupFails, AnswerFromJournal, MarkPending,
       RetrySaveFails, Send, Reply, Record, SetupPCs
  <2>2. RequestsOK
    BY DEF TypeOK
  <2>3. Moves(h)
    <3>1. CASE AssertEditable(h) \/ Price(h) \/ LoadJournal(h) \/ Supersede(h)
      BY <2>2, <3>1, GotoMoves
      DEF AssertEditable, Price, LoadJournal, Supersede, Moves
    <3>2. CASE CreateJournal(h) \/ SetupFails(h) \/ Send(h) \/ Record(h)
      BY <2>2, <3>2, GotoMoves DEF CreateJournal, SetupFails, Send, Record, Moves
    <3>3. CASE AnswerFromJournal(h) \/ MarkPending(h) \/ RetrySaveFails(h)
      BY <2>2, <3>3, GotoMoves, ProceedMoves
      DEF AnswerFromJournal, MarkPending, RetrySaveFails
    <3>4. CASE Reply(h)
      BY <2>2, <3>4, GotoMoves, ProceedMoves DEF Reply
    <3> QED BY <1>2, <3>1, <3>2, <3>3, <3>4 DEF Advance
  <2> QED BY <2>1, <2>3, OneRequestAdvance
<1>3. CASE Beside
  <2>1. ASSUME NEW h \in Handlers, Crash(h)
        PROVE  OneRequest'
    BY <2>1, OneRequestAdvance DEF Crash, Moves
  <2>2. ASSUME NEW h \in Handlers, DropLock(h)
        PROVE  FALSE
    BY <2>2, MaxDrops = 0 DEF DropLock, TypeOK, ExternalOK
  <2>3. CASE UNCHANGED <<pc, lock>>
    BY <2>3 DEF OneRequest
  <2> QED BY <1>3, <2>1, <2>2, <2>3
    DEF Beside, Edit, Append, Calculate, EditLockEnds, MarkSubmitted, ResetStatus, Reconcile,
        Disconnect, Deploy, local
<1>4. CASE UNCHANGED vars
  BY <1>4 DEF OneRequest, vars, local
<1> QED BY <1>1, <1>2, <1>3, <1>4 DEF Next

\* While one request moves, the others wait.
LEMMA OthersIdle ==
  ASSUME TypeOK, OneRequest, NEW h \in Handlers, pc[h] # "idle", Moves(h)
  PROVE  /\ \A g \in Handlers \ {h} : pc[g] = "idle" /\ pc'[g] = "idle"
BY DEF TypeOK, RequestsOK, OneRequest, Moves, Finish, Goto

\* Steps that neither write a journal's calls nor send one: each request
\* ends, has just read the row, or goes on with what it had.
Keeps(h) ==
  \/ pc'[h] \notin RunningPCs
  \/ /\ pc'[h] = "run"
     /\ mem'[h].id \in JournalIDs /\ mem'[h].steps = rows[mem'[h].id].steps
  \/ /\ pc[h] \in RunningPCs /\ mem'[h] = mem[h]
     /\ pc'[h] \in {"send", "reply"} => pc'[h] = pc[h] /\ pos'[h] = pos[h]

\* A step that changes neither rows nor calls, and no running memory,
\* keeps everything in step.
LEMMA QuietStep ==
  ASSUME TypeOK, CallsMarked, UNCHANGED sent,
         \A id \in JournalIDs :
           /\ rows'[id].steps = rows[id].steps
           /\ rows'[id].status = "absent" => rows[id].status = "absent",
         \A h \in Handlers : Keeps(h)
  PROVE  CallsMarked'
<1>1. \A h \in Handlers :
        pc[h] \in RunningPCs => mem[h].id \in JournalIDs /\ At(h) \in Keys
  BY RunningHasJournal, AtIsKey DEF TypeOK
<1>2. SentIsSaved' /\ AbsentIsBlank'
  BY DEF CallsMarked, SentIsSaved, AbsentIsBlank
<1>3. MemoryKnows'
  BY <1>1 DEF CallsMarked, MemoryKnows, Keeps
<1>4. QuoteStepsAgree'
  BY <1>1 DEF CallsMarked, QuoteStepsAgree, Keeps
<1>5. InFlightIsPending'
  BY <1>1 DEF CallsMarked, InFlightIsPending, Keeps, RunningPCs, At
<1>6. FirstSend'
  BY <1>1 DEF CallsMarked, FirstSend, Keeps, RunningPCs, At
<1>7. QuoteStepsSentOnce'
  BY DEF CallsMarked, QuoteStepsSentOnce
<1> QED BY <1>2, <1>3, <1>4, <1>5, <1>6, <1>7 DEF CallsMarked

\* b has a mark wherever a has one; a and b have the same quote steps.
Knows(a, b)      == \A k \in Keys : a.steps[k].state # "none"
                                    => b.steps[k].state # "none"
SameQuotes(a, b) == \A k \in Keys : ~IsUpload(k) => a.steps[k] = b.steps[k]

\* What a save changes in the rows.
LEMMA WrittenFields ==
  ASSUME rows \in [JournalIDs -> Row], NEW m \in Memory, m.id \in JournalIDs,
         NEW id \in JournalIDs
  PROVE  /\ Written(m)[id].status = rows[id].status
         /\ Written(m)[id].steps = IF id = m.id THEN m.steps ELSE rows[id].steps
BY DEF Written, Row

\* A save of the journal that the one running request works on.
LEMMA SaveStep ==
  ASSUME TypeOK, CallsMarked, UNCHANGED sent,
         NEW h \in Handlers, pc[h] \in RunningPCs,
         \A g \in Handlers \ {h} : pc'[g] = "idle",
         NEW m \in Memory, m.id = mem[h].id, Knows(mem[h], m),
         rows' = rows \/ (rows' = Written(m) /\ Active(m.id)),
         \/ pc'[h] = "idle"
         \/ /\ mem'[h].id = m.id /\ Knows(m, mem'[h])
            /\ SameQuotes(mem'[h], rows'[m.id])
            /\ \/ pc'[h] \in {"run", "record"}
               \/ /\ pc'[h] = "send" /\ mem'[h] = m /\ rows' = Written(m)
                  /\ m.steps[At(h)'].state = "pending"
                  /\ ~IsUpload(At(h)') => sent[m.id][At(h)'] = 0
  PROVE  CallsMarked'
<1>1. mem[h].id \in JournalIDs /\ m.id \in JournalIDs
  BY RunningHasJournal
<1>2. \A id \in JournalIDs :
        /\ rows'[id].status = rows[id].status
        /\ id # m.id => rows'[id].steps = rows[id].steps
        /\ rows'[id].steps \in {rows[id].steps, m.steps}
        /\ rows'[id].steps = rows[id].steps \/ rows[id].status = "active"
  BY <1>1, WrittenFields DEF TypeOK, DatabaseOK, Active
<1>3. \A k \in Keys : rows[m.id].steps[k].state # "none" => m.steps[k].state # "none"
  BY DEF CallsMarked, MemoryKnows, Knows
<1>4. \A id \in JournalIDs, k \in Keys :
        rows[id].steps[k].state # "none" => rows'[id].steps[k].state # "none"
  BY <1>1, <1>2, <1>3
<1>5. SentIsSaved'
  BY <1>4 DEF CallsMarked, SentIsSaved
<1>6. AbsentIsBlank'
  BY <1>2 DEF CallsMarked, AbsentIsBlank
<1>7. MemoryKnows'
  BY <1>1, <1>2, <1>3 DEF MemoryKnows, Knows, RunningPCs
<1>8. QuoteStepsAgree'
  BY DEF QuoteStepsAgree, SameQuotes, RunningPCs
<1>9. InFlightIsPending'
  BY <1>1, WrittenFields DEF InFlightIsPending, TypeOK, DatabaseOK
<1>10. FirstSend'
  BY DEF FirstSend
<1>11. QuoteStepsSentOnce'
  BY DEF CallsMarked, QuoteStepsSentOnce
<1> QED BY <1>5, <1>6, <1>7, <1>8, <1>9, <1>10, <1>11 DEF CallsMarked

\* Nothing was sent and nothing is marked at first.
LEMMA InitInStep == Init => JournalInStep
<1> SUFFICES ASSUME Init PROVE JournalInStep
  OBVIOUS
<1>1. TypeOK
  BY InitType
<1>2. OneRequest
  BY DEF Init, OneRequest
<1>3. CallsMarked
  BY EmptyStepsType
  DEF Init, CallsMarked, SentIsSaved, AbsentIsBlank, MemoryKnows, RunningPCs,
      QuoteStepsAgree, InFlightIsPending, FirstSend, QuoteStepsSentOnce
<1> QED BY <1>1, <1>2, <1>3 DEF JournalInStep

\* A request that begins has not looked at the journal.
LEMMA BeginInStep ==
  ASSUME JournalInStep, NEW h \in Handlers, NEW u \in Users, NEW t \in BOOLEAN,
         Begin(h, u, t)
  PROVE  CallsMarked'
<1>1. \A g \in Handlers : Keeps(g)
  BY DEF JournalInStep, TypeOK, RequestsOK, Begin, Goto, Keeps, RunningPCs
<1> QED BY <1>1, QuietStep DEF JournalInStep, Begin, external

\* Nor do the steps before the journal is loaded touch it.
LEMMA SetupInStep ==
  ASSUME JournalInStep, NEW h \in Handlers,
         AssertEditable(h) \/ Price(h) \/ SetupFails(h)
  PROVE  CallsMarked'
<1>1. \A g \in Handlers : Keeps(g)
  BY DEF JournalInStep, TypeOK, RequestsOK, AssertEditable, Price, SetupFails,
     Finish, Goto, Keeps, RunningPCs
<1>2. UNCHANGED <<rows, sent>>
  BY DEF AssertEditable, Price, SetupFails, external
<1> QED BY <1>1, <1>2, QuietStep DEF JournalInStep

\* A request that resumes has the row's own journal in memory.
LEMMA LoadJournalInStep ==
  ASSUME JournalInStep, NEW h \in Handlers, LoadJournal(h)
  PROVE  CallsMarked'
<1>1. UNCHANGED <<rows, sent>>
  BY DEF LoadJournal, external
<1>2. CASE pc'[h] \in {"supersede", "create"}
  <2>1. \A g \in Handlers : Keeps(g)
    BY <1>2 DEF JournalInStep, TypeOK, RequestsOK, LoadJournal, Goto, Keeps,
       RunningPCs
  <2> QED BY <1>1, <2>1, QuietStep DEF JournalInStep
<1>3. ASSUME NEW id \in JournalIDs, Goto(h, "run"),
             mem' = [mem EXCEPT ![h] = [id |-> id, steps |-> rows[id].steps,
                                        cur |-> rows[id].cur]]
      PROVE  CallsMarked'
  <2>1. \A g \in Handlers : Keeps(g)
    BY <1>3 DEF JournalInStep, TypeOK, RequestsOK, LoadJournal, Goto, Keeps,
       RunningPCs
  <2> QED BY <1>1, <2>1, QuietStep DEF JournalInStep
<1> QED BY <1>2, <1>3
    DEF LoadJournal, Goto, JournalInStep, TypeOK, RequestsOK

\* A superseded row keeps its marks.
LEMMA SupersedeInStep ==
  ASSUME JournalInStep, NEW h \in Handlers, Supersede(h)
  PROVE  CallsMarked'
<1>1. \A g \in Handlers : Keeps(g)
  BY DEF JournalInStep, TypeOK, RequestsOK, Supersede, Finish, Goto, Keeps,
     RunningPCs
<1>2. mem[h].id \in JournalIDs
  BY DEF JournalInStep, TypeOK, RequestsOK, Memory, Supersede, SetupPCs
<1>3. \A id \in JournalIDs :
        /\ rows'[id].steps = rows[id].steps
        /\ rows'[id].status = "absent" => rows[id].status = "absent"
  <2>1. CASE rows' = rows
    BY <2>1
  <2>2. CASE rows' = [rows EXCEPT ![mem[h].id].status = "completed",
                                  ![mem[h].id].superseded = TRUE]
    BY <1>2, <2>2 DEF JournalInStep, TypeOK, DatabaseOK, Row
  <2> QED BY <2>1, <2>2 DEF Supersede
<1> QED BY <1>1, <1>3, QuietStep DEF JournalInStep, Supersede, external

\* Recording a market touches no step of the journal.
LEMMA RecordInStep ==
  ASSUME JournalInStep, NEW h \in Handlers, Record(h)
  PROVE  CallsMarked'
<1>1. \A g \in Handlers : Keeps(g)
  <2>1. CASE Finish(h)
    BY <2>1 DEF JournalInStep, TypeOK, RequestsOK, Finish, Goto, Keeps, RunningPCs
  <2>2. CASE Goto(h, "run") /\ UNCHANGED mem /\ \E p : pos' = [pos EXCEPT ![h] = p]
    BY <2>2 DEF JournalInStep, TypeOK, RequestsOK, Record, Goto, Keeps, RunningPCs
  <2> QED BY <2>1, <2>2 DEF Record
<1>2. mem[h].id \in JournalIDs
  BY RunningHasJournal DEF Record, RunningPCs, JournalInStep
<1>3. \A id \in JournalIDs :
        /\ rows'[id].steps = rows[id].steps
        /\ rows'[id].status = "absent" => rows[id].status = "absent"
  <2>1. CASE rows' = rows
    BY <2>1
  <2>2. ASSUME NEW s \in {"completed", "active"},
               rows' = [rows EXCEPT ![mem[h].id].recorded = @ \cup {pos[h].m},
                                    ![mem[h].id].status = s]
        PROVE  \A id \in JournalIDs :
                 /\ rows'[id].steps = rows[id].steps
                 /\ rows'[id].status = "absent" => rows[id].status = "absent"
    BY <1>2, <2>2 DEF JournalInStep, TypeOK, DatabaseOK, Row
  <2>3. RecordCommits(h) \/ rows' = rows
    BY DEF Record
  <2> QED BY <2>1, <2>2, <2>3 DEF RecordCommits
<1> QED BY <1>1, <1>3, QuietStep DEF JournalInStep, Record, external

\* Reconciliation settles uploads only, and while no request runs.
LEMMA BesideInStep ==
  ASSUME JournalInStep, Beside
  PROVE  CallsMarked'
<1>1. CASE UNCHANGED <<rows, sent>>
  <2>1. \A g \in Handlers : Keeps(g)
    <3>1. CASE UNCHANGED <<pc, mem, pos>>
      BY <3>1 DEF Keeps, RunningPCs
    <3>2. ASSUME NEW h \in Handlers, Crash(h)
          PROVE  \A g \in Handlers : Keeps(g)
      BY <3>2 DEF JournalInStep, TypeOK, RequestsOK, Crash, Finish, Goto, Keeps,
         RunningPCs
    <3> QED BY <3>1, <3>2
      DEF Beside, Edit, Append, Calculate, EditLockEnds, MarkSubmitted, ResetStatus, Reconcile,
          Disconnect, DropLock, Deploy, local
  <2> QED BY <1>1, <2>1, QuietStep DEF JournalInStep
<1>2. ASSUME NEW id \in JournalIDs, NEW k \in Keys, Reconcile(id, k)
      PROVE  CallsMarked'
  <2>1. \A h \in Handlers : pc'[h] = "idle"
    BY <1>2, NoneAssumption DEF JournalInStep, OneRequest, Reconcile, local
  <2>2. rows[id].steps \in [Keys -> SavedStep] /\ rows[id].steps[k] \in SavedStep
        /\ rows[id] \in Row
    BY DEF JournalInStep, TypeOK, DatabaseOK, Row, JournalSteps
  <2>3. ASSUME NEW st \in {"done", "failed"}, NEW r \in {"good", "rejected"}
        PROVE  LET row == Resolved(rows[id], k, st, r)
               IN  /\ row.status = rows[id].status
                   /\ \A j \in Keys : rows[id].steps[j].state # "none"
                                       => row.steps[j].state # "none"
    BY <2>2 DEF Resolved, Row, SavedStep
  <2>4. \A i \in JournalIDs :
          /\ rows'[i].status = rows[i].status
          /\ \A j \in Keys : rows[i].steps[j].state # "none"
                              => rows'[i].steps[j].state # "none"
    BY <1>2, <2>3 DEF JournalInStep, TypeOK, DatabaseOK, Reconcile
  <2>5. sent' = sent /\ rows[id].status = "active"
        /\ \A i \in JournalIDs \ {id} : rows'[i] = rows[i]
    BY <1>2 DEF Reconcile, Active, JournalInStep, TypeOK, DatabaseOK
  <2>6. SentIsSaved' /\ AbsentIsBlank' /\ QuoteStepsSentOnce'
    BY <2>4, <2>5 DEF JournalInStep, CallsMarked, SentIsSaved, AbsentIsBlank,
       QuoteStepsSentOnce
  <2>7. MemoryKnows' /\ QuoteStepsAgree' /\ InFlightIsPending' /\ FirstSend'
    BY <2>1 DEF MemoryKnows, QuoteStepsAgree, InFlightIsPending, FirstSend,
       RunningPCs
  <2> QED BY <2>6, <2>7 DEF CallsMarked
<1> QED BY <1>1, <1>2
    DEF Beside, Edit, Append, Calculate, EditLockEnds, MarkSubmitted, ResetStatus, Disconnect,
        Crash, DropLock, Deploy, external

\* A new row has no marks, and neither has the request's new journal.
LEMMA CreateJournalInStep ==
  ASSUME JournalInStep, NEW h \in Handlers, CreateJournal(h)
  PROVE  CallsMarked'
<1>1. Moves(h) /\ pc[h] # "idle"
  BY GotoMoves DEF CreateJournal, Moves, JournalInStep, TypeOK
<1>2. \A g \in Handlers \ {h} : pc'[g] = "idle"
  BY <1>1, OthersIdle DEF JournalInStep
<1>3. CASE rows' = rows /\ Finish(h)
  <2>1. \A g \in Handlers : Keeps(g)
    BY <1>3 DEF JournalInStep, TypeOK, RequestsOK, Finish, Goto, Keeps, RunningPCs
  <2> QED BY <1>3, <2>1, QuietStep DEF JournalInStep, CreateJournal, external
<1>4. ASSUME NEW id \in JournalIDs, rows[id].status = "absent",
             rows' = [rows EXCEPT ![id] = [EmptyRow EXCEPT
                        !.status = "active", !.inputs = seen[h].inputs,
                        !.test = req[h].test]],
             \/ Finish(h)
             \/ /\ mem' = [mem EXCEPT ![h] = [NoJournal EXCEPT !.id = id]]
                /\ Goto(h, "run")
      PROVE  CallsMarked'
  <2>1. /\ rows'[id].steps = EmptyRow.steps /\ rows'[id].status = "active"
        /\ \A i \in JournalIDs \ {id} : rows'[i] = rows[i]
    BY <1>4 DEF JournalInStep, TypeOK, DatabaseOK, EmptyRow
  <2>2. \A k \in Keys : sent[id][k] = 0
    <3>1. SUFFICES ASSUME NEW k \in Keys PROVE sent[id][k] = 0
      OBVIOUS
    <3>2. sent[id][k] \in Nat
      BY DEF JournalInStep, TypeOK, ExternalOK
    <3>3. rows[id].steps[k].state = "none"
      BY <1>4 DEF JournalInStep, CallsMarked, AbsentIsBlank
    <3>4. ~(sent[id][k] > 0)
      BY <3>3 DEF JournalInStep, CallsMarked, SentIsSaved
    <3> QED BY <3>2, <3>4
  <2>3. UNCHANGED sent
    BY DEF CreateJournal, external
  <2>4. SentIsSaved' /\ AbsentIsBlank' /\ QuoteStepsSentOnce'
    BY <2>1, <2>2, <2>3
    DEF JournalInStep, CallsMarked, SentIsSaved, AbsentIsBlank, QuoteStepsSentOnce
  <2>5. CASE Finish(h)
    <3>1. \A g \in Handlers : pc'[g] = "idle"
      BY <1>2, <2>5, FinishType DEF JournalInStep, TypeOK, DatabaseOK
    <3>2. MemoryKnows' /\ QuoteStepsAgree' /\ InFlightIsPending' /\ FirstSend'
      BY <3>1 DEF MemoryKnows, QuoteStepsAgree, InFlightIsPending, FirstSend,
         RunningPCs
    <3> QED BY <2>4, <3>2 DEF CallsMarked
  <2>6. CASE /\ mem' = [mem EXCEPT ![h] = [NoJournal EXCEPT !.id = id]]
             /\ Goto(h, "run")
    <3>1. mem'[h].id = id /\ mem'[h].steps = EmptyRow.steps /\ pc'[h] = "run"
      BY <2>6 DEF JournalInStep, TypeOK, RequestsOK, NoJournal, Goto
    <3>2. MemoryKnows' /\ QuoteStepsAgree' /\ InFlightIsPending' /\ FirstSend'
      BY <1>2, <2>1, <3>1 DEF MemoryKnows, QuoteStepsAgree, InFlightIsPending,
         FirstSend, RunningPCs
    <3> QED BY <2>4, <3>2 DEF CallsMarked
  <2> QED BY <1>4, <2>5, <2>6
<1> QED BY <1>3, <1>4 DEF CreateJournal

\* The one call whose counter moves is one that was not sent before.
LEMMA SendInStep ==
  ASSUME JournalInStep, NEW h \in Handlers, Send(h)
  PROVE  CallsMarked'
<1>1. Moves(h) /\ pc[h] = "send" /\ pc'[h] = "reply"
  BY GotoMoves DEF Send, Goto, JournalInStep, TypeOK, RequestsOK
<1>2. \A g \in Handlers \ {h} : pc'[g] = "idle"
  BY <1>1, OthersIdle DEF JournalInStep
<1>3. mem[h].id \in JournalIDs /\ At(h) \in Keys
  BY <1>1, RunningHasJournal, AtIsKey DEF JournalInStep, TypeOK, RunningPCs
<1>4. UNCHANGED <<rows, mem>>
  BY DEF Send
<1>5. At(h)' = At(h)
  BY DEF Send, At, JournalInStep, TypeOK, RequestsOK, LoopPos
<1>6. rows[mem[h].id].steps[At(h)].state = "pending"
  BY <1>1 DEF JournalInStep, CallsMarked, InFlightIsPending
<1>7. ~IsUpload(At(h)) => sent[mem[h].id][At(h)] = 0
  BY <1>1 DEF JournalInStep, CallsMarked, FirstSend
<1>8. \A id \in JournalIDs, k \in Keys :
        \/ sent'[id][k] = sent[id][k]
        \/ id = mem[h].id /\ k = At(h) /\ sent'[id][k] = sent[id][k] + 1
  BY <1>3 DEF Send, JournalInStep, TypeOK, ExternalOK
<1>9. SentIsSaved'
  BY <1>4, <1>6, <1>8 DEF JournalInStep, CallsMarked, SentIsSaved
<1>10. QuoteStepsSentOnce'
  BY <1>7, <1>8 DEF JournalInStep, CallsMarked, QuoteStepsSentOnce
<1>11. AbsentIsBlank' /\ MemoryKnows' /\ QuoteStepsAgree'
  BY <1>1, <1>2, <1>4
  DEF JournalInStep, CallsMarked, AbsentIsBlank, MemoryKnows, QuoteStepsAgree,
      RunningPCs
<1>12. InFlightIsPending' /\ FirstSend'
  BY <1>1, <1>2, <1>4, <1>5, <1>6 DEF InFlightIsPending, FirstSend
<1> QED BY <1>9, <1>10, <1>11, <1>12 DEF CallsMarked

\* Where Proceed leaves a request, and what it leaves it with: it is over, or
\* it goes on with m, and then a failed step was an upload.
LEMMA ProceedKeeps ==
  ASSUME RequestsOK, NEW h \in Handlers, NEW m, NEW ok, Proceed(h, m, ok)
  PROVE  \/ pc'[h] = "idle"
         \/ /\ pc'[h] \in {"run", "record"} /\ mem'[h] = m
            /\ ok \/ IsUpload(At(h))
BY DEF Proceed, RequestsOK, Finish, Goto

\* An answer from the journal changes nothing.
LEMMA AnswerFromJournalInStep ==
  ASSUME JournalInStep, NEW h \in Handlers, AnswerFromJournal(h)
  PROVE  CallsMarked'
<1>1. \E ok \in BOOLEAN : Proceed(h, mem[h], ok)
  <2> DEFINE used == mem[h].steps[At(h)].reply \in Usable
  <2>1. used \in BOOLEAN
    OBVIOUS
  <2> HIDE DEF used
  <2>2. Proceed(h, mem[h], used) \/ Proceed(h, mem[h], FALSE)
    BY DEF AnswerFromJournal, used
  <2> QED BY <2>1, <2>2
<1>2. /\ pc[h] = "run" /\ Moves(h) /\ UNCHANGED <<rows, sent>>
      /\ pc'[h] \in {"idle", "run", "record"}
      /\ pc'[h] # "idle" => mem'[h] = mem[h]
  BY <1>1, ProceedMoves, ProceedKeeps
  DEF AnswerFromJournal, JournalInStep, TypeOK, external
<1>3. \A g \in Handlers \ {h} : pc'[g] = "idle"
  BY <1>2, OthersIdle DEF JournalInStep
<1>4. \A g \in Handlers : Keeps(g)
  BY <1>2, <1>3 DEF Keeps, RunningPCs
<1> QED BY <1>2, <1>4, QuietStep DEF JournalInStep

\* The journal in memory knows the marks and quote steps of its row.
LEMMA MemoryKnowsRow ==
  ASSUME JournalInStep, NEW h \in Handlers, pc[h] \in RunningPCs
  PROVE  SameQuotes(mem[h], rows[mem[h].id])
BY DEF JournalInStep, CallsMarked, QuoteStepsAgree, SameQuotes

\* Marking or answering a call changes nothing else, and leaves a mark.
LEMMA MarkedKnows ==
  ASSUME NEW m \in Memory, NEW k \in Keys, build \in Builds
  PROVE  /\ Knows(m, Marked(m, k)) /\ Marked(m, k).steps[k].state = "pending"
         /\ IsUpload(k) => SameQuotes(m, Marked(m, k))
<1> DEFINE s == [state |-> "pending", payload |-> build, reply |-> "none"]
<1>1. m.steps \in [Keys -> SavedStep]
  BY DEF Memory, JournalSteps
<1>2. Marked(m, k).steps = [m.steps EXCEPT ![k] = s] /\ s.state = "pending"
  BY MarkedType
<1> HIDE DEF s
<1>3. /\ Marked(m, k).steps[k].state = "pending"
      /\ \A j \in Keys \ {k} : Marked(m, k).steps[j] = m.steps[j]
  BY <1>1, <1>2
<1> QED BY <1>3 DEF Knows, SameQuotes

\* Filing an answer forgets no mark, and for an upload no quote step.
LEMMA AnsweredKnows ==
  ASSUME NEW m \in Memory, NEW k \in Keys, NEW st \in Attempted,
         NEW r \in Replies, st = "retryable_timeout" => IsUpload(k)
  PROVE  /\ Knows(m, Answered(m, k, st, r))
         /\ IsUpload(k) => SameQuotes(m, Answered(m, k, st, r))
<1>1. st # "none"
  BY DEF Attempted
<1> QED BY <1>1, AnsweredType DEF Knows, SameQuotes

\* After a failed save before a retry, row and memory agree on quote steps.
LEMMA RetrySaveFailsInStep ==
  ASSUME JournalInStep, NEW h \in Handlers, RetrySaveFails(h)
  PROVE  CallsMarked'
<1>1. pc[h] \in RunningPCs /\ UNCHANGED sent
  BY DEF RetrySaveFails, RunningPCs, external
<1>2. mem[h] \in Memory /\ mem[h].id \in JournalIDs /\ pc[h] # "idle"
  BY <1>1, RunningHasJournal DEF JournalInStep
<1>3. /\ Proceed(h, mem[h], FALSE)
      /\ rows' = rows \/ (rows' = Written(mem[h]) /\ Active(mem[h].id))
  BY DEF RetrySaveFails, SaveFails
<1>4. Moves(h)
  BY <1>3, ProceedMoves DEF JournalInStep, TypeOK
<1>5. \A g \in Handlers \ {h} : pc'[g] = "idle"
  BY <1>2, <1>4, OthersIdle DEF JournalInStep
<1>6. rows'[mem[h].id].steps \in {rows[mem[h].id].steps, mem[h].steps}
  BY <1>2, <1>3, WrittenFields DEF JournalInStep, TypeOK, DatabaseOK
<1>7. SameQuotes(mem[h], rows'[mem[h].id]) /\ Knows(mem[h], mem[h])
  BY <1>1, <1>6, MemoryKnowsRow DEF SameQuotes, Knows
<1>8. pc'[h] = "idle" \/ (pc'[h] \in {"run", "record"} /\ mem'[h] = mem[h])
  BY <1>3, ProceedKeeps DEF JournalInStep, TypeOK
<1> QED BY <1>1, <1>2, <1>3, <1>5, <1>7, <1>8, SaveStep DEF JournalInStep

\* After the save before a call the row says pending; if the save failed,
\* a request that goes on was at an upload.
LEMMA MarkPendingInStep ==
  ASSUME JournalInStep, NEW h \in Handlers, MarkPending(h)
  PROVE  CallsMarked'
<1> DEFINE k == At(h)
           m == Marked(mem[h], k)
<1>1. pc[h] \in RunningPCs /\ pc[h] = "run" /\ UNCHANGED sent
  BY DEF MarkPending, RunningPCs, external
<1>2. /\ mem[h] \in Memory /\ mem[h].id \in JournalIDs /\ pc[h] # "idle"
      /\ k \in Keys /\ build \in Builds
  BY <1>1, RunningHasJournal, AtIsKey DEF JournalInStep, TypeOK, ExternalOK
<1>3. /\ m \in Memory /\ m.id = mem[h].id /\ Knows(mem[h], m)
      /\ m.steps[k].state = "pending"
      /\ IsUpload(k) => SameQuotes(mem[h], m)
  BY <1>2, MarkedType, MarkedKnows
<1>4. Moves(h)
  BY GotoMoves, ProceedMoves DEF MarkPending, JournalInStep, TypeOK
<1>5. \A g \in Handlers \ {h} : pc'[g] = "idle"
  BY <1>2, <1>4, OthersIdle DEF JournalInStep
<1>6. CASE Proceed(h, mem[h], FALSE) /\ UNCHANGED rows
  <2>1. pc'[h] = "idle" \/ (pc'[h] \in {"run", "record"} /\ mem'[h] = mem[h])
    BY <1>6, ProceedKeeps DEF JournalInStep, TypeOK
  <2>2. \A g \in Handlers : Keeps(g)
    BY <1>1, <1>5, <2>1 DEF Keeps, RunningPCs
  <2> QED BY <1>1, <1>6, <2>2, QuietStep DEF JournalInStep
<1>7. CASE SaveFails(m) /\ Proceed(h, m, FALSE)
  <2>1. rows' = rows \/ (rows' = Written(m) /\ Active(m.id))
    BY <1>7 DEF SaveFails
  <2>2. \/ pc'[h] = "idle"
        \/ pc'[h] \in {"run", "record"} /\ mem'[h] = m /\ IsUpload(k)
    BY <1>7, ProceedKeeps DEF JournalInStep, TypeOK
  <2>3. rows'[m.id].steps \in {rows[m.id].steps, m.steps}
    BY <1>2, <1>3, <2>1, WrittenFields DEF JournalInStep, TypeOK, DatabaseOK
  <2>4. IsUpload(k) => SameQuotes(m, rows'[m.id])
    BY <1>1, <1>3, <2>3, MemoryKnowsRow DEF SameQuotes
  <2>5. Knows(m, m)
    BY DEF Knows
  <2> HIDE DEF k, m
  <2> QED BY <1>1, <1>3, <1>5, <2>1, <2>2, <2>4, <2>5, SaveStep DEF JournalInStep
<1>8. CASE /\ MustCall(h) /\ SaveSucceeds(m) /\ Goto(h, "send")
           /\ mem' = [mem EXCEPT ![h] = m]
           /\ UNCHANGED <<lock, req, seen, pos, gone>>
  <2>1. rows' = Written(m) /\ Active(m.id)
    BY <1>8 DEF SaveSucceeds
  <2>2. pc'[h] = "send" /\ mem'[h] = m
    BY <1>8 DEF Goto, JournalInStep, TypeOK, RequestsOK
  <2>3. k' = k
    BY <1>8 DEF At
  <2>4. ~IsUpload(k) => sent[m.id][k] = 0
    <3>1. ASSUME ~IsUpload(k)
          PROVE  rows[m.id].steps[k].state = "none"
      BY <1>1, <1>2, <1>3, <1>8, <3>1
      DEF MustCall, JournalInStep, CallsMarked, QuoteStepsAgree
    <3> QED BY <1>2, <1>3, <3>1
        DEF JournalInStep, CallsMarked, SentIsSaved, TypeOK, ExternalOK
  <2>5. rows'[m.id].steps = m.steps
    BY <1>2, <1>3, <2>1, WrittenFields DEF JournalInStep, TypeOK, DatabaseOK
  <2>6. SameQuotes(m, rows'[m.id]) /\ Knows(m, m)
    BY <2>5 DEF SameQuotes, Knows
  <2> QED BY <1>1, <1>3, <1>5, <2>1, <2>2, <2>3, <2>4, <2>6, SaveStep
      DEF JournalInStep
<1> QED BY <1>6, <1>7, <1>8 DEF MarkPending

\* After an answer the row has it; if it could not be saved, a request that
\* goes on was at an upload.
LEMMA ReplyInStep ==
  ASSUME JournalInStep, NEW h \in Handlers, Reply(h)
  PROVE  CallsMarked'
<1> DEFINE k == At(h)
           state(o) == StateAfter(k, o, pos[h].again)
           m(o) == Answered(mem[h], k, state(o), ReplyAfter(state(o), o))
           lost == Answered(mem[h], k, "pending", "none")
<1>1. pc[h] \in RunningPCs /\ UNCHANGED sent
  BY DEF Reply, RunningPCs
<1>2. /\ mem[h] \in Memory /\ mem[h].id \in JournalIDs /\ pc[h] # "idle"
      /\ k \in Keys /\ pos[h].again \in BOOLEAN /\ pos[h].acted \in BOOLEAN
  BY <1>1, RunningHasJournal, AtIsKey DEF JournalInStep, TypeOK, LoopPos
<1>3. PICK o \in Outcomes(k, pos[h].acted) :
        \/ /\ SaveSucceeds(m(o))
           /\ \/ Proceed(h, m(o), o \in Usable)
              \/ Goto(h, "run") /\ mem' = [mem EXCEPT ![h] = m(o)]
        \/ SaveFails(m(o)) /\ Proceed(h, lost, FALSE)
  BY DEF Reply
<1>4. /\ state(o) \in Attempted /\ ReplyAfter(state(o), o) \in Replies
      /\ state(o) = "retryable_timeout" => IsUpload(k)
  BY <1>2, ClassificationType
<1>5. /\ "pending" \in Attempted /\ "none" \in Replies
      /\ "pending" # "retryable_timeout"
  BY DEF Attempted, Replies
<1>6. Moves(h)
  BY GotoMoves, ProceedMoves DEF Reply, JournalInStep, TypeOK
<1>7. \A g \in Handlers \ {h} : pc'[g] = "idle"
  BY <1>2, <1>6, OthersIdle DEF JournalInStep
<1> HIDE DEF k, state
<1>8. /\ m(o) \in Memory /\ m(o).id = mem[h].id /\ Knows(mem[h], m(o))
      /\ m(o).steps[k].state = state(o) /\ state(o) # "none"
      /\ IsUpload(k) => SameQuotes(mem[h], m(o))
  BY <1>2, <1>4, AnsweredType, AnsweredKnows DEF Attempted
<1>9. /\ lost \in Memory /\ lost.id = mem[h].id /\ Knows(mem[h], lost)
      /\ \A j \in Keys \ {k} : lost.steps[j] = mem[h].steps[j]
      /\ lost.steps[k].state = "pending"
      /\ IsUpload(k) => SameQuotes(mem[h], lost)
  BY <1>2, <1>5, AnsweredType, AnsweredKnows
<1>10. Knows(m(o), lost) /\ Knows(m(o), m(o))
  BY <1>2, <1>4, <1>9, AnsweredType DEF Knows
<1> HIDE DEF m, lost
<1>11. CASE SaveSucceeds(m(o)) /\ (pc'[h] = "idle" \/
               (pc'[h] \in {"run", "record"} /\ mem'[h] = m(o)))
  <2>1. rows' = Written(m(o)) /\ Active(m(o).id)
    BY <1>11 DEF SaveSucceeds
  <2>2. rows'[m(o).id].steps = m(o).steps
    BY <1>2, <1>8, <2>1, WrittenFields DEF JournalInStep, TypeOK, DatabaseOK
  <2>3. SameQuotes(m(o), rows'[m(o).id])
    BY <2>2 DEF SameQuotes
  <2> QED BY <1>1, <1>7, <1>8, <1>10, <1>11, <2>1, <2>3, SaveStep DEF JournalInStep
<1>12. CASE SaveFails(m(o)) /\ Proceed(h, lost, FALSE)
  <2>1. rows' = rows \/ (rows' = Written(m(o)) /\ Active(m(o).id))
    BY <1>12 DEF SaveFails
  <2>2. \/ pc'[h] = "idle"
        \/ pc'[h] \in {"run", "record"} /\ mem'[h] = lost /\ IsUpload(k)
    BY <1>12, ProceedKeeps DEF JournalInStep, TypeOK, k
  <2>3. rows'[m(o).id].steps \in {rows[m(o).id].steps, m(o).steps}
    BY <1>2, <1>8, <2>1, WrittenFields DEF JournalInStep, TypeOK, DatabaseOK
  <2>4. IsUpload(k) => SameQuotes(lost, rows'[m(o).id])
    BY <1>1, <1>8, <1>9, <2>3, MemoryKnowsRow DEF SameQuotes
  <2> QED BY <1>1, <1>7, <1>8, <1>9, <1>10, <2>1, <2>2, <2>4, SaveStep
      DEF JournalInStep
<1>13. ASSUME SaveSucceeds(m(o)), Proceed(h, m(o), o \in Usable)
       PROVE  pc'[h] = "idle" \/ (pc'[h] \in {"run", "record"} /\ mem'[h] = m(o))
  BY <1>13, ProceedKeeps DEF JournalInStep, TypeOK
<1>14. ASSUME Goto(h, "run"), mem' = [mem EXCEPT ![h] = m(o)]
       PROVE  pc'[h] = "run" /\ mem'[h] = m(o)
  BY <1>14 DEF Goto, JournalInStep, TypeOK, RequestsOK
<1> QED BY <1>3, <1>11, <1>12, <1>13, <1>14

\* One step of the system keeps the journal and the calls in step.
LEMMA NextInStep ==
  ASSUME MaxDrops = 0, JournalInStep, [Next]_vars
  PROVE  JournalInStep'
<1>1. TypeOK' /\ OneRequest'
  BY NextType, OneRequestStep DEF JournalInStep
<1>2. ASSUME NEW h \in Handlers, Advance(h)
      PROVE  CallsMarked'
  BY <1>2, SetupInStep, LoadJournalInStep, SupersedeInStep, CreateJournalInStep,
     AnswerFromJournalInStep, MarkPendingInStep, RetrySaveFailsInStep,
     SendInStep, ReplyInStep, RecordInStep DEF Advance
<1>3. ASSUME UNCHANGED vars
      PROVE  CallsMarked'
  <2>1. \A g \in Handlers : Keeps(g)
    BY <1>3 DEF Keeps, RunningPCs, vars, local
  <2>2. UNCHANGED <<rows, sent>>
    BY <1>3 DEF vars, external
  <2> QED BY <2>1, <2>2, QuietStep DEF JournalInStep
<1>4. ASSUME NEW h \in Handlers, NEW u \in Users, NEW t \in BOOLEAN,
             Begin(h, u, t)
      PROVE  CallsMarked'
  BY <1>4, BeginInStep
<1>5. ASSUME Beside
      PROVE  CallsMarked'
  BY <1>5, BesideInStep
<1>6. CallsMarked'
  BY <1>2, <1>3, <1>4, <1>5 DEF Next
<1> QED BY <1>1, <1>6 DEF JournalInStep

\* As long as Postgres keeps the connection that holds the advisory lock, the
\* rows, the requests' journals and the calls sent to PrintIQ are in step.
THEOREM StaysInStep == MaxDrops = 0 /\ Spec => []JournalInStep
<1>1. MaxDrops = 0 /\ JournalInStep /\ [Next]_vars => JournalInStep'
  BY NextInStep
<1>2. CASE MaxDrops = 0
  <2>1. JournalInStep /\ [Next]_vars => JournalInStep'
    BY <1>1, <1>2
  <2> QED BY InitInStep, <2>1, PTL DEF Spec
<1> QED BY <1>2

\* However often a submission is interrupted, retried and resumed, no quote,
\* pricing, question or acceptance call of a journal is sent twice.
THEOREM QuoteStepsOnce == MaxDrops = 0 /\ Spec => []QuoteStepsSentOnce
<1>1. JournalInStep => QuoteStepsSentOnce
  BY DEF JournalInStep, CallsMarked
<1> QED BY <1>1, StaysInStep, PTL

\* Only Send changes what was sent, for the call the request is at.
LEMMA OnlySendSends ==
  ASSUME TypeOK, [Next]_vars, NEW id \in JournalIDs, NEW k \in Keys,
         sent'[id][k] # sent[id][k]
  PROVE  \E h \in Handlers : pc[h] = "send" /\ mem[h].id = id /\ At(h) = k
<1>1. ASSUME NEW h \in Handlers, Send(h)
      PROVE  pc[h] = "send" /\ mem[h].id = id /\ At(h) = k
  <2>1. mem[h].id \in JournalIDs /\ At(h) \in Keys
    BY <1>1, RunningHasJournal, AtIsKey DEF TypeOK, Send, RunningPCs
  <2> QED BY <1>1, <2>1 DEF Send, TypeOK, ExternalOK
<1>2. ASSUME NEW h \in Handlers, Advance(h)
      PROVE  Send(h) \/ sent' = sent
  BY <1>2 DEF Advance, AssertEditable, Price, LoadJournal, Supersede,
     CreateJournal, SetupFails, AnswerFromJournal, MarkPending, RetrySaveFails,
     Reply, Record, external
<1>3. CASE Beside
  BY <1>3 DEF Beside, Edit, Append, Calculate, EditLockEnds, MarkSubmitted, ResetStatus, Reconcile,
     Disconnect, Crash, DropLock, Deploy, external
<1> QED BY <1>1, <1>2, <1>3 DEF Next, Begin, vars, external

\* Every request PrintIQ receives was first saved as pending.
THEOREM SavedBeforeSent == MaxDrops = 0 /\ Spec => WriteAhead
<1>1. JournalInStep /\ [Next]_vars
        => [\A id \in JournalIDs, k \in Keys :
              sent'[id][k] # sent[id][k] => rows[id].steps[k].state = "pending"]_vars
  BY OnlySendSends DEF JournalInStep, CallsMarked, InFlightIsPending
<1> QED BY <1>1, StaysInStep, PTL DEF Spec, WriteAhead

\* A save writes a quote step back as it was, unless it is the one the request
\* is at.
LEMMA SaveKeepsQuoteSteps ==
  ASSUME JournalInStep, NEW h \in Handlers, pc[h] \in RunningPCs,
         NEW m \in Memory, m.id = mem[h].id,
         \A j \in Keys \ {At(h)} : m.steps[j] = mem[h].steps[j],
         rows' = rows \/ rows' = Written(m),
         NEW id \in JournalIDs, NEW k \in Keys, ~IsUpload(k),
         id # mem[h].id \/ k # At(h)
  PROVE  rows'[id].steps[k] = rows[id].steps[k]
<1>1. mem[h].id \in JournalIDs
  BY RunningHasJournal DEF JournalInStep
<1>2. mem[h].steps[k] = rows[mem[h].id].steps[k]
  BY DEF JournalInStep, CallsMarked, QuoteStepsAgree
<1>3. CASE rows' = rows
  BY <1>3
<1>4. CASE rows' = Written(m)
  <2>1. rows'[id].steps = IF id = m.id THEN m.steps ELSE rows[id].steps
    BY <1>1, <1>4, WrittenFields DEF JournalInStep, TypeOK, DatabaseOK
  <2> QED BY <1>2, <2>1
<1> QED BY <1>3, <1>4

\* What is done or failed in a quote step stays.
LEMMA NextKeepsQuoteSteps ==
  ASSUME JournalInStep, [Next]_vars,
         NEW id \in JournalIDs, NEW k \in Keys, ~IsUpload(k),
         rows[id].steps[k].state \in {"done", "failed"}
  PROVE  rows'[id].steps[k] = rows[id].steps[k]
<1>1. ASSUME NEW h \in Handlers, Supersede(h)
      PROVE  rows'[id].steps[k] = rows[id].steps[k]
  <2>1. mem[h].id \in JournalIDs
    BY <1>1 DEF JournalInStep, TypeOK, RequestsOK, Memory, Supersede, SetupPCs
  <2>2. CASE rows' = rows
    BY <2>2
  <2>3. CASE rows' = [rows EXCEPT ![mem[h].id].status = "completed",
                                  ![mem[h].id].superseded = TRUE]
    BY <2>1, <2>3 DEF JournalInStep, TypeOK, DatabaseOK, Row
  <2> QED BY <1>1, <2>2, <2>3 DEF Supersede
<1>2. ASSUME NEW h \in Handlers, CreateJournal(h)
      PROVE  rows'[id].steps[k] = rows[id].steps[k]
  <2>1. rows[id].status # "absent"
    BY DEF JournalInStep, CallsMarked, AbsentIsBlank
  <2> QED BY <1>2, <2>1 DEF CreateJournal, JournalInStep, TypeOK, DatabaseOK
<1>3. ASSUME NEW h \in Handlers, MarkPending(h)
      PROVE  rows'[id].steps[k] = rows[id].steps[k]
  <2> DEFINE m == Marked(mem[h], At(h))
  <2>1. /\ pc[h] \in RunningPCs /\ mem[h] \in Memory /\ At(h) \in Keys
        /\ build \in Builds /\ MustCall(h)
    BY <1>3, RunningHasJournal, AtIsKey
    DEF MarkPending, RunningPCs, JournalInStep, TypeOK, ExternalOK
  <2>2. id # mem[h].id \/ k # At(h)
    BY <2>1 DEF MustCall, JournalInStep, CallsMarked, QuoteStepsAgree
  <2>3. /\ m \in Memory /\ m.id = mem[h].id
        /\ m.steps = [mem[h].steps EXCEPT ![At(h)] =
             [state |-> "pending", payload |-> build, reply |-> "none"]]
    BY <2>1, MarkedType
  <2>4. mem[h].steps \in [Keys -> SavedStep]
    BY <2>1 DEF Memory, JournalSteps
  <2> HIDE DEF m
  <2>5. \A j \in Keys \ {At(h)} : m.steps[j] = mem[h].steps[j]
    BY <2>3, <2>4
  <2>6. rows' = rows \/ rows' = Written(m)
    BY <1>3 DEF MarkPending, SaveSucceeds, SaveFails, m
  <2> QED BY <2>1, <2>2, <2>3, <2>5, <2>6, SaveKeepsQuoteSteps
<1>4. ASSUME NEW h \in Handlers, RetrySaveFails(h)
      PROVE  rows'[id].steps[k] = rows[id].steps[k]
  <2>1. /\ pc[h] \in RunningPCs /\ mem[h] \in Memory /\ mem[h].id \in JournalIDs
        /\ rows' = rows \/ rows' = Written(mem[h])
    BY <1>4, RunningHasJournal DEF RetrySaveFails, SaveFails, RunningPCs, JournalInStep
  <2>2. mem[h].steps[k] = rows[mem[h].id].steps[k]
    BY <2>1 DEF JournalInStep, CallsMarked, QuoteStepsAgree
  <2>3. rows' = Written(mem[h]) =>
          rows'[id].steps = IF id = mem[h].id THEN mem[h].steps ELSE rows[id].steps
    BY <2>1, WrittenFields DEF JournalInStep, TypeOK, DatabaseOK
  <2> QED BY <2>1, <2>2, <2>3
<1>5. ASSUME NEW h \in Handlers, Reply(h)
      PROVE  rows'[id].steps[k] = rows[id].steps[k]
  <2>1. /\ pc[h] \in RunningPCs /\ mem[h] \in Memory /\ At(h) \in Keys
        /\ pos[h].again \in BOOLEAN /\ pos[h].acted \in BOOLEAN /\ pc[h] = "reply"
    BY <1>5, RunningHasJournal, AtIsKey DEF Reply, RunningPCs, JournalInStep, TypeOK, LoopPos
  <2>2. id # mem[h].id \/ k # At(h)
    BY <2>1 DEF JournalInStep, CallsMarked, InFlightIsPending
  <2>3. PICK o \in Outcomes(At(h), pos[h].acted) :
          LET st == StateAfter(At(h), o, pos[h].again)
              m  == Answered(mem[h], At(h), st, ReplyAfter(st, o))
          IN  rows' = rows \/ rows' = Written(m)
    BY <1>5 DEF Reply, SaveSucceeds, SaveFails
  <2> DEFINE st == StateAfter(At(h), o, pos[h].again)
             m  == Answered(mem[h], At(h), st, ReplyAfter(st, o))
  <2>4. /\ st \in Attempted /\ ReplyAfter(st, o) \in Replies
        /\ st = "retryable_timeout" => IsUpload(At(h))
    BY <2>1, ClassificationType
  <2> HIDE DEF st
  <2>5. /\ m \in Memory /\ m.id = mem[h].id
        /\ \A j \in Keys \ {At(h)} : m.steps[j] = mem[h].steps[j]
    BY <2>1, <2>4, AnsweredType
  <2>6. rows' = rows \/ rows' = Written(m)
    BY <2>3 DEF st
  <2> HIDE DEF m
  <2> QED BY <2>1, <2>2, <2>5, <2>6, SaveKeepsQuoteSteps
<1>6. ASSUME NEW h \in Handlers, Record(h)
      PROVE  rows'[id].steps[k] = rows[id].steps[k]
  <2>1. mem[h].id \in JournalIDs
    BY <1>6, RunningHasJournal DEF Record, RunningPCs, JournalInStep
  <2>2. ASSUME NEW s, rows' = [rows EXCEPT ![mem[h].id].recorded = @ \cup {pos[h].m},
                                           ![mem[h].id].status = s]
        PROVE  rows'[id].steps[k] = rows[id].steps[k]
    BY <2>1, <2>2 DEF JournalInStep, TypeOK, DatabaseOK, Row
  <2>3. RecordCommits(h) \/ rows' = rows
    BY <1>6 DEF Record
  <2> QED BY <2>2, <2>3 DEF RecordCommits
<1>7. ASSUME NEW i \in JournalIDs, NEW u \in Keys, Reconcile(i, u)
      PROVE  rows'[id].steps[k] = rows[id].steps[k]
  <2>1. k # u
    BY <1>7 DEF Reconcile
  <2>2. rows[i] \in Row /\ rows[i].steps \in [Keys -> SavedStep]
    BY DEF JournalInStep, TypeOK, DatabaseOK, Row, JournalSteps
  <2>3. \A st, r : Resolved(rows[i], u, st, r).steps[k] = rows[i].steps[k]
    BY <2>1, <2>2 DEF Resolved, Row
  <2> QED BY <1>7, <2>3 DEF Reconcile, JournalInStep, TypeOK, DatabaseOK
<1>8. ASSUME NEW h \in Handlers, Advance(h)
      PROVE  \/ rows' = rows
             \/ Supersede(h) \/ CreateJournal(h) \/ MarkPending(h)
             \/ RetrySaveFails(h) \/ Reply(h) \/ Record(h)
  BY <1>8 DEF Advance, AssertEditable, Price, LoadJournal, SetupFails,
     AnswerFromJournal, Send
<1>9. ASSUME Beside
      PROVE  \/ rows' = rows
             \/ \E i \in JournalIDs, u \in Keys : Reconcile(i, u)
  BY <1>9 DEF Beside, Edit, Append, Calculate, EditLockEnds, MarkSubmitted, ResetStatus, Disconnect,
     Crash, DropLock, Deploy
<1> QED BY <1>1, <1>2, <1>3, <1>4, <1>5, <1>6, <1>7, <1>8, <1>9
    DEF Next, Begin, vars

\* No stale copy of a journal, written back whole, undoes what the database
\* knows of a quote step.
THEOREM FinalStepsStay == MaxDrops = 0 /\ Spec => QuoteStepsFinal
<1>1. JournalInStep /\ [Next]_vars
        => [\A id \in JournalIDs, k \in Keys :
              ~IsUpload(k) /\ rows[id].steps[k].state \in {"done", "failed"}
                => rows'[id].steps[k] = rows[id].steps[k]]_vars
  BY NextKeepsQuoteSteps
<1> QED BY <1>1, StaysInStep, PTL DEF Spec, QuoteStepsFinal

-----------------------------------------------------------------------------
(***************************************************************************)
(* What recordSubmission guarantees, the advisory lock lost or not: its    *)
(* transaction alone keeps quotes, recorded markets and closed journals    *)
(* together, and submits the campaign with a whole real run only.          *)
(***************************************************************************)

\* A row and the quotes inserted for it.
Booked(id) ==
  /\ \A m \in Markets : quotes[id][m] = IF m \in rows[id].recorded THEN 1 ELSE 0
  /\ rows[id].status = "completed" /\ ~rows[id].superseded => rows[id].recorded = Markets
  /\ rows[id].status = "absent" => rows[id].recorded = {}

\* A request in the loop works on a row that exists and is of its kind, and
\* every market before its own is recorded there; others start at the first.
Loops(h) ==
  IF pc[h] \in RunningPCs
    THEN /\ rows[mem[h].id].status # "absent"
         /\ rows[mem[h].id].test = req[h].test
         /\ \A m \in Markets : m < pos[h].m => m \in rows[mem[h].id].recorded
    ELSE pos[h].m = 1

RecordInv ==
  TypeOK /\ (\A id \in JournalIDs : Booked(id)) /\ (\A h \in Handlers : Loops(h))

\* No row is closed, reopened for another kind of request, or unrecorded.
RowKept(id) ==
  /\ rows'[id].recorded = rows[id].recorded
  /\ rows'[id].status = "absent" => rows[id].status = "absent"
  /\ rows'[id].test = rows[id].test \/ rows[id].status = "absent"
  /\ rows'[id].status = "completed" /\ ~rows'[id].superseded
       => rows[id].status = "completed" /\ ~rows[id].superseded

\* A request goes on in its market, enters the loop at the first, or is not in it.
Follows(h) ==
  IF pc'[h] \in RunningPCs
    THEN \/ /\ pc[h] \in RunningPCs /\ mem'[h].id = mem[h].id
            /\ pos'[h].m = pos[h].m /\ req'[h] = req[h]
         \/ /\ pos'[h].m = 1
            /\ mem'[h].id \in JournalIDs /\ rows'[mem'[h].id].status # "absent"
            /\ rows'[mem'[h].id].test = req'[h].test
    ELSE pos'[h].m = 1

\* Steps that record nothing keep the invariant.
LEMMA RecordNothing ==
  ASSUME RecordInv, TypeOK', UNCHANGED quotes,
         \A id \in JournalIDs : RowKept(id), \A h \in Handlers : Follows(h)
  PROVE  RecordInv'
<1>1. ASSUME NEW id \in JournalIDs PROVE Booked(id)'
  BY DEF RecordInv, Booked, RowKept
<1>2. ASSUME NEW h \in Handlers PROVE Loops(h)'
  <2>1. CASE pc'[h] \notin RunningPCs
    BY <2>1 DEF Follows, Loops
  <2>2. CASE /\ pc'[h] \in RunningPCs /\ pc[h] \in RunningPCs /\ mem'[h].id = mem[h].id
             /\ pos'[h].m = pos[h].m /\ req'[h] = req[h]
    <3>1. mem[h].id \in JournalIDs
      BY <2>2, RunningHasJournal DEF RecordInv
    <3>2. RowKept(mem[h].id) /\ Loops(h)
      BY <3>1 DEF RecordInv
    <3> QED BY <2>2, <3>2 DEF Loops, RowKept
  <2>3. CASE /\ pc'[h] \in RunningPCs /\ pos'[h].m = 1
             /\ mem'[h].id \in JournalIDs /\ rows'[mem'[h].id].status # "absent"
             /\ rows'[mem'[h].id].test = req'[h].test
    <3>1. \A m \in Markets : ~(m < 1)
      BY PlanAssumption DEF Markets
    <3> QED BY <2>3, <3>1 DEF Loops
  <2> QED BY <2>1, <2>2, <2>3 DEF Follows
<1> QED BY <1>1, <1>2 DEF RecordInv

-----------------------------------------------------------------------------
(* The steps of a request.                                                 *)

\* A request that is left as it is goes on as it did.
LEMMA RestsFollows ==
  ASSUME NEW h \in Handlers, Loops(h), pc'[h] = pc[h], mem'[h] = mem[h],
         pos'[h] = pos[h], req'[h] = req[h]
  PROVE  Follows(h)
BY DEF Loops, Follows

\* A request that returns is no longer in the loop; the others go on.
LEMMA FinishFollows ==
  ASSUME RecordInv, NEW h \in Handlers, Finish(h)
  PROVE  \A g \in Handlers : Follows(g)
<1> SUFFICES ASSUME NEW g \in Handlers PROVE Follows(g)
  OBVIOUS
<1>1. CASE g = h
  BY <1>1 DEF RecordInv, TypeOK, RequestsOK, Finish, Goto, Follows, RunningPCs, AtStart
<1>2. CASE g # h
  BY <1>2, RestsFollows DEF RecordInv, TypeOK, RequestsOK, Finish, Goto
<1> QED BY <1>1, <1>2

\* What the sequence does with an outcome leaves the market and the row.
LEMMA ProceedFollows ==
  ASSUME RecordInv, NEW h \in Handlers, pc[h] \in RunningPCs, NEW m, m.id = mem[h].id,
         NEW ok, Proceed(h, m, ok)
  PROVE  \A g \in Handlers : Follows(g)
<1>1. CASE Finish(h)
  BY <1>1, FinishFollows
<1>2. CASE /\ Goto(h, IF pos[h].i = NSteps THEN "record" ELSE "run")
           /\ mem' = [mem EXCEPT ![h] = m]
           /\ pos' = [pos EXCEPT ![h] = [m |-> @.m,
                        i |-> IF pos[h].i = NSteps THEN @.i ELSE @.i + 1,
                        again |-> FALSE, failed |-> pos[h].failed \/ ~ok,
                        acted |-> FALSE]]
           /\ UNCHANGED <<lock, req, seen, gone>>
  <2> SUFFICES ASSUME NEW g \in Handlers PROVE Follows(g)
    OBVIOUS
  <2>1. CASE g = h
    <3>1. pc'[h] \in RunningPCs
      BY <1>2 DEF RecordInv, TypeOK, RequestsOK, Goto, RunningPCs
    <3>2. mem'[h].id = mem[h].id /\ pos'[h].m = pos[h].m /\ req'[h] = req[h]
      BY <1>2 DEF RecordInv, TypeOK, RequestsOK
    <3> QED BY <2>1, <3>1, <3>2 DEF Follows
  <2>2. CASE g # h
    BY <1>2, <2>2, RestsFollows DEF RecordInv, TypeOK, RequestsOK, Goto
  <2> QED BY <2>1, <2>2
<1> QED BY <1>1, <1>2 DEF Proceed

\* Rows that are as they were are kept.
LEMMA SameRowsKept ==
  ASSUME UNCHANGED rows
  PROVE  \A id \in JournalIDs : RowKept(id)
BY DEF RowKept

\* The journal of a request written over its row, or not, keeps the rows.
LEMMA SaveKept ==
  ASSUME RecordInv, NEW m \in Memory, m.id \in JournalIDs,
         rows' = rows \/ (Active(m.id) /\ rows' = Written(m))
  PROVE  \A id \in JournalIDs : RowKept(id)
<1>1. CASE rows' = rows
  BY <1>1, SameRowsKept
<1>2. CASE Active(m.id) /\ rows' = Written(m)
  BY <1>2 DEF RecordInv, TypeOK, DatabaseOK, Row, Active, Written, RowKept
<1> QED BY <1>1, <1>2

\* Setting up moves a request outside the loop, or ends it.
LEMMA SetupRecords ==
  ASSUME RecordInv, TypeOK', NEW h \in Handlers,
         AssertEditable(h) \/ Price(h) \/ SetupFails(h)
  PROVE  RecordInv'
<1>1. UNCHANGED <<rows, quotes>>
  BY DEF AssertEditable, Price, SetupFails
<1>2. \A g \in Handlers : Follows(g)
  <2>1. CASE Finish(h)
    BY <2>1, FinishFollows
  <2>2. ASSUME NEW l \in SetupPCs, Goto(h, l), UNCHANGED <<req, mem, pos>>, pc[h] \in SetupPCs
        PROVE  \A g \in Handlers : Follows(g)
    <3> SUFFICES ASSUME NEW g \in Handlers PROVE Follows(g)
      OBVIOUS
    <3>1. CASE g = h
      BY <2>2, <3>1 DEF RecordInv, Loops, TypeOK, RequestsOK, Goto, Follows, SetupPCs, RunningPCs
    <3>2. CASE g # h
      BY <2>2, <3>2, RestsFollows DEF RecordInv, TypeOK, RequestsOK, Goto
    <3> QED BY <3>1, <3>2
  <2> QED BY <2>1, <2>2 DEF AssertEditable, Price, SetupFails, SetupPCs
<1> QED BY <1>1, <1>2, SameRowsKept, RecordNothing

\* A resumed journal was made for this kind of request.
LEMMA LoadJournalRecords ==
  ASSUME RecordInv, TypeOK', NEW h \in Handlers, LoadJournal(h)
  PROVE  RecordInv'
<1>1. UNCHANGED <<rows, quotes, req, pos>>
  BY DEF LoadJournal
<1>2. pos[h].m = 1 /\ pc[h] = "load"
  BY DEF LoadJournal, RecordInv, Loops, RunningPCs
<1>3. Follows(h)
  <2>1. CASE pc'[h] \notin RunningPCs
    BY <1>1, <1>2, <2>1 DEF Follows
  <2>2. CASE pc'[h] \in RunningPCs
    <3>1. PICK id \in JournalIDs :
            /\ Active(id)
            /\ ~NeedsFreshSubmission(rows[id], seen[h].inputs, req[h].test)
            /\ mem' = [mem EXCEPT ![h] = [id |-> id, steps |-> rows[id].steps, cur |-> rows[id].cur]]
      BY <2>2 DEF LoadJournal, Goto, RecordInv, TypeOK, RequestsOK, RunningPCs
    <3>2. mem'[h].id = id
      BY <3>1 DEF RecordInv, TypeOK, RequestsOK
    <3> QED BY <1>1, <1>2, <2>2, <3>1, <3>2 DEF Active, NeedsFreshSubmission, Follows
  <2> QED BY <2>1, <2>2
<1>4. \A g \in Handlers : Follows(g)
  <2> SUFFICES ASSUME NEW g \in Handlers, g # h PROVE Follows(g)
    BY <1>3
  <2> QED BY <1>1, RestsFollows DEF LoadJournal, Goto, RecordInv, TypeOK, RequestsOK
<1> QED BY <1>1, <1>4, SameRowsKept, RecordNothing

\* A superseded journal is closed with its mark.
LEMMA SupersedeRecords ==
  ASSUME RecordInv, TypeOK', NEW h \in Handlers, Supersede(h)
  PROVE  RecordInv'
<1>1. mem[h].id \in JournalIDs /\ pos[h].m = 1 /\ pc[h] = "supersede"
  BY DEF Supersede, RecordInv, TypeOK, RequestsOK, Memory, Loops, RunningPCs
<1>2. \A id \in JournalIDs : RowKept(id)
  BY <1>1 DEF Supersede, RowKept, RecordInv, TypeOK, DatabaseOK, Row, Active
<1>3. \A g \in Handlers : Follows(g)
  <2>1. CASE Finish(h)
    BY <2>1, FinishFollows
  <2>2. CASE Goto(h, "create") /\ UNCHANGED <<req, pos>> /\ mem' = [mem EXCEPT ![h] = NoJournal]
    <3> SUFFICES ASSUME NEW g \in Handlers PROVE Follows(g)
      OBVIOUS
    <3>1. CASE g = h
      BY <1>1, <2>2, <3>1 DEF RecordInv, TypeOK, RequestsOK, Goto, Follows, RunningPCs
    <3>2. CASE g # h
      BY <2>2, <3>2, RestsFollows DEF RecordInv, TypeOK, RequestsOK, Goto
    <3> QED BY <3>1, <3>2
  <2> QED BY <2>1, <2>2 DEF Supersede
<1>4. UNCHANGED quotes
  BY DEF Supersede
<1> QED BY <1>2, <1>3, <1>4, RecordNothing

\* A new journal takes a row that has nothing recorded.
LEMMA CreateJournalRecords ==
  ASSUME RecordInv, TypeOK', NEW h \in Handlers, CreateJournal(h)
  PROVE  RecordInv'
<1>1. pos[h].m = 1 /\ pc[h] = "create" /\ UNCHANGED quotes
  BY DEF CreateJournal, RecordInv, Loops, RunningPCs
<1>2. CASE Finish(h) /\ UNCHANGED rows
  BY <1>1, <1>2, FinishFollows, SameRowsKept, RecordNothing
<1>3. ASSUME NEW id \in JournalIDs, rows[id].status = "absent",
             rows' = [rows EXCEPT ![id] = [EmptyRow EXCEPT
                        !.status = "active", !.inputs = seen[h].inputs, !.test = req[h].test]],
             \/ /\ mem' = [mem EXCEPT ![h] = [NoJournal EXCEPT !.id = id]]
                /\ Goto(h, "run") /\ UNCHANGED <<req, pos>>
             \/ Finish(h)
      PROVE  RecordInv'
  <2>1. /\ rows'[id].status = "active" /\ rows'[id].recorded = {} /\ rows'[id].test = req[h].test
        /\ \A other \in JournalIDs : other # id => rows'[other] = rows[other]
    BY <1>3 DEF RecordInv, TypeOK, DatabaseOK, EmptyRow
  <2>2. rows[id].recorded = {}
    BY <1>3 DEF RecordInv, Booked
  <2>3. \A other \in JournalIDs : RowKept(other)
    BY <1>3, <2>1, <2>2 DEF RowKept
  <2>4. CASE Finish(h)
    BY <1>1, <2>3, <2>4, FinishFollows, RecordNothing
  <2>5. CASE /\ mem' = [mem EXCEPT ![h] = [NoJournal EXCEPT !.id = id]]
             /\ Goto(h, "run") /\ UNCHANGED <<req, pos>>
    <3>1. \A g \in Handlers : Follows(g)
      <4> SUFFICES ASSUME NEW g \in Handlers PROVE Follows(g)
        OBVIOUS
      <4>1. CASE g = h
        <5>1. mem'[h].id = id /\ pc'[h] = "run" /\ pos'[h].m = 1 /\ req'[h] = req[h]
          BY <1>1, <2>5 DEF RecordInv, TypeOK, RequestsOK, Goto, NoJournal
        <5> QED BY <1>3, <2>1, <4>1, <5>1 DEF Follows, RunningPCs
      <4>2. CASE g # h
        BY <2>5, <4>2, RestsFollows DEF RecordInv, TypeOK, RequestsOK, Goto
      <4> QED BY <4>1, <4>2
    <3> QED BY <1>1, <2>3, <3>1, RecordNothing
  <2> QED BY <1>3, <2>4, <2>5
<1> QED BY <1>2, <1>3 DEF CreateJournal

\* A call answered from the journal.
LEMMA AnswerFromJournalRecords ==
  ASSUME RecordInv, TypeOK', NEW h \in Handlers, AnswerFromJournal(h)
  PROVE  RecordInv'
<1>1. UNCHANGED <<rows, quotes>> /\ pc[h] \in RunningPCs
  BY DEF AnswerFromJournal, RunningPCs
<1>2. \A g \in Handlers : Follows(g)
  BY <1>1, ProceedFollows DEF AnswerFromJournal
<1> QED BY <1>1, <1>2, SameRowsKept, RecordNothing

\* The journals a request writes have the types of memory, and its own row.
LEMMA MarkedIs ==
  ASSUME RecordInv, NEW h \in Handlers, pc[h] = "run"
  PROVE  /\ Marked(mem[h], At(h)) \in Memory
         /\ Marked(mem[h], At(h)).id = mem[h].id /\ mem[h].id \in JournalIDs
<1>1. mem[h] \in Memory /\ mem[h].id \in JournalIDs
  BY RunningHasJournal DEF RecordInv, RunningPCs
<1>2. At(h) \in Keys /\ build \in Builds
  BY AtIsKey DEF RecordInv, TypeOK, ExternalOK
<1> QED BY <1>1, <1>2, MarkedType

\* An attempt saved as pending, or whose save failed.
LEMMA MarkPendingRecords ==
  ASSUME RecordInv, TypeOK', NEW h \in Handlers, MarkPending(h)
  PROVE  RecordInv'
<1> DEFINE m == Marked(mem[h], At(h))
<1>1. pc[h] = "run" /\ pc[h] \in RunningPCs /\ UNCHANGED quotes
  BY DEF MarkPending, RunningPCs
<1>2. m \in Memory /\ m.id = mem[h].id /\ m.id \in JournalIDs
  BY <1>1, MarkedIs
<1>3. rows' = rows \/ (Active(m.id) /\ rows' = Written(m))
  BY DEF MarkPending, SaveSucceeds, SaveFails
<1>4. \A id \in JournalIDs : RowKept(id)
  <2> HIDE DEF m
  <2> QED BY <1>2, <1>3, SaveKept
<1>5. \A g \in Handlers : Follows(g)
  <2>1. CASE \E ok \in BOOLEAN : Proceed(h, mem[h], ok) \/ Proceed(h, m, ok)
    BY <1>1, <1>2, <2>1, ProceedFollows
  <2>2. CASE Goto(h, "send") /\ mem' = [mem EXCEPT ![h] = m] /\ UNCHANGED <<req, pos>>
    <3> SUFFICES ASSUME NEW g \in Handlers PROVE Follows(g)
      OBVIOUS
    <3> HIDE DEF m
    <3>1. CASE g = h
      <4>1. pc'[h] = "send" /\ mem'[h].id = mem[h].id /\ pos'[h] = pos[h] /\ req'[h] = req[h]
        BY <1>2, <2>2 DEF RecordInv, TypeOK, RequestsOK, Goto
      <4> QED BY <1>1, <3>1, <4>1 DEF Follows, RunningPCs
    <3>2. CASE g # h
      BY <2>2, <3>2, RestsFollows DEF RecordInv, TypeOK, RequestsOK, Goto
    <3> QED BY <3>1, <3>2
  <2> QED BY <2>1, <2>2 DEF MarkPending
<1> HIDE DEF m
<1> QED BY <1>1, <1>4, <1>5, RecordNothing

\* The save before a retry that failed.
LEMMA RetrySaveFailsRecords ==
  ASSUME RecordInv, TypeOK', NEW h \in Handlers, RetrySaveFails(h)
  PROVE  RecordInv'
<1>1. pc[h] \in RunningPCs /\ UNCHANGED quotes
  BY DEF RetrySaveFails, RunningPCs
<1>2. mem[h] \in Memory /\ mem[h].id \in JournalIDs
  BY <1>1, RunningHasJournal DEF RecordInv, TypeOK, RequestsOK
<1>3. \A id \in JournalIDs : RowKept(id)
  BY <1>2, SaveKept DEF RetrySaveFails, SaveFails
<1>4. \A g \in Handlers : Follows(g)
  BY <1>1, ProceedFollows DEF RetrySaveFails
<1> QED BY <1>1, <1>3, <1>4, RecordNothing

\* A call sent.
LEMMA SendRecords ==
  ASSUME RecordInv, TypeOK', NEW h \in Handlers, Send(h)
  PROVE  RecordInv'
<1>1. UNCHANGED <<rows, quotes, req, mem>> /\ pc[h] = "send" /\ Goto(h, "reply")
  BY DEF Send
<1>2. pos'[h].m = pos[h].m /\ \A g \in Handlers : g # h => pos'[g] = pos[g]
  <2>1. pos' = pos \/ pos' = [pos EXCEPT ![h].acted = TRUE]
    BY DEF Send
  <2>2. pos \in [Handlers -> LoopPos]
    BY DEF RecordInv, TypeOK, RequestsOK
  <2> QED BY <2>1, <2>2 DEF LoopPos
<1>3. \A g \in Handlers : Follows(g)
  <2> SUFFICES ASSUME NEW g \in Handlers PROVE Follows(g)
    OBVIOUS
  <2>1. CASE g = h
    BY <1>1, <1>2, <2>1 DEF RecordInv, TypeOK, RequestsOK, Goto, Follows, RunningPCs
  <2>2. CASE g # h
    BY <1>1, <1>2, <2>2, RestsFollows DEF RecordInv, TypeOK, RequestsOK, Goto
  <2> QED BY <2>1, <2>2
<1> QED BY <1>1, <1>3, SameRowsKept, RecordNothing

\* An answer saved, or whose save failed, and the retry of an upload.
LEMMA ReplyRecords ==
  ASSUME RecordInv, TypeOK', NEW h \in Handlers, Reply(h)
  PROVE  RecordInv'
<1> DEFINE k == At(h)
           state(o) == StateAfter(k, o, pos[h].again)
           m(o) == Answered(mem[h], k, state(o), ReplyAfter(state(o), o))
           lost == Answered(mem[h], k, "pending", "none")
<1>1. pc[h] \in RunningPCs /\ UNCHANGED quotes
  BY DEF Reply, RunningPCs
<1>2. /\ mem[h] \in Memory /\ mem[h].id \in JournalIDs
      /\ pos[h].again \in BOOLEAN /\ pos[h].acted \in BOOLEAN /\ k \in Keys
  BY <1>1, RunningHasJournal, AtIsKey DEF RecordInv, TypeOK, LoopPos
<1>3. PICK o \in Outcomes(k, pos[h].acted) :
        \/ /\ SaveSucceeds(m(o))
           /\ \/ Proceed(h, m(o), o \in Usable)
              \/ /\ Goto(h, "run")
                 /\ mem' = [mem EXCEPT ![h] = m(o)]
                 /\ pos' = [pos EXCEPT ![h].again = TRUE, ![h].acted = FALSE]
                 /\ UNCHANGED <<lock, req, seen, gone>>
        \/ SaveFails(m(o)) /\ Proceed(h, lost, FALSE)
  BY DEF Reply
<1>4. m(o) \in Memory /\ m(o).id = mem[h].id
  <2>1. /\ state(o) \in Attempted /\ ReplyAfter(state(o), o) \in Replies
        /\ state(o) = "retryable_timeout" => IsUpload(k)
    BY <1>2, ClassificationType
  <2> HIDE DEF state, k
  <2> QED BY <1>2, <2>1, AnsweredType
<1>5. lost.id = mem[h].id
  <2>1. "pending" \in Attempted /\ "none" \in Replies
    BY DEF Attempted, Replies
  <2>2. "pending" # "retryable_timeout"
    OBVIOUS
  <2> HIDE DEF k
  <2> QED BY <1>2, <2>1, <2>2, AnsweredType
<1> HIDE DEF m, lost, k, state
<1>6. \A id \in JournalIDs : RowKept(id)
  BY <1>2, <1>3, <1>4, SaveKept DEF SaveSucceeds, SaveFails
<1>7. \A g \in Handlers : Follows(g)
  <2>1. CASE Proceed(h, m(o), o \in Usable) \/ Proceed(h, lost, FALSE)
    <3> DEFINE used == o \in Usable
    <3>1. Proceed(h, m(o), used) \/ Proceed(h, lost, FALSE)
      BY <2>1
    <3> HIDE DEF used
    <3> QED BY <1>1, <1>4, <1>5, <3>1, ProceedFollows
  <2>2. CASE /\ Goto(h, "run") /\ mem' = [mem EXCEPT ![h] = m(o)]
             /\ pos' = [pos EXCEPT ![h].again = TRUE, ![h].acted = FALSE]
             /\ UNCHANGED <<lock, req, seen, gone>>
    <3> SUFFICES ASSUME NEW g \in Handlers PROVE Follows(g)
      OBVIOUS
    <3>1. CASE g = h
      <4>1. pc'[h] = "run" /\ mem'[h].id = mem[h].id /\ req'[h] = req[h]
        BY <1>4, <2>2 DEF RecordInv, TypeOK, RequestsOK, Goto
      <4>2. pos \in [Handlers -> LoopPos]
        BY DEF RecordInv, TypeOK, RequestsOK
      <4>3. pos'[h].m = pos[h].m
        BY <2>2, <4>2 DEF LoopPos
      <4> QED BY <1>1, <3>1, <4>1, <4>3 DEF Follows, RunningPCs
    <3>2. CASE g # h
      BY <2>2, <3>2, RestsFollows DEF RecordInv, TypeOK, RequestsOK, Goto
    <3> QED BY <3>1, <3>2
  <2> QED BY <1>3, <2>1, <2>2
<1> QED BY <1>1, <1>6, <1>7, RecordNothing

\* What people and the environment do records nothing.
LEMMA BesideRecords ==
  ASSUME RecordInv, TypeOK', Beside
  PROVE  RecordInv'
<1>1. CASE UNCHANGED <<rows, quotes, pc, mem, pos, req>>
  BY <1>1, SameRowsKept, RestsFollows, RecordNothing DEF RecordInv
<1>2. ASSUME NEW h \in Handlers, Crash(h) PROVE RecordInv'
  BY <1>2, FinishFollows, SameRowsKept, RecordNothing DEF Crash
<1>3. ASSUME NEW id \in JournalIDs, NEW k \in Keys, Reconcile(id, k) PROVE RecordInv'
  <2>1. UNCHANGED <<quotes, pc, mem, pos, req>> /\ rows[id].status = "active"
    BY <1>3 DEF Reconcile, local, Active
  <2>2. PICK state, reply : rows' = [rows EXCEPT ![id] = Resolved(rows[id], k, state, reply)]
    BY <1>3 DEF Reconcile
  <2>3. rows \in [JournalIDs -> Row]
    BY DEF RecordInv, TypeOK, DatabaseOK
  <2>4. LET r == Resolved(rows[id], k, state, reply)
        IN r.recorded = rows[id].recorded /\ r.status = rows[id].status /\ r.test = rows[id].test
    BY <2>3 DEF Resolved, Row
  <2>5. \A other \in JournalIDs : RowKept(other)
    BY <2>1, <2>2, <2>3, <2>4 DEF RowKept
  <2> QED BY <2>1, <2>5, RestsFollows, RecordNothing DEF RecordInv
<1> QED BY <1>1, <1>2, <1>3
    DEF Beside, Edit, Append, Calculate, EditLockEnds, MarkSubmitted, ResetStatus, Disconnect,
        DropLock, Deploy, local

\* A request that begins is not in the loop yet.
LEMMA BeginRecords ==
  ASSUME RecordInv, TypeOK', NEW h \in Handlers, NEW u \in Users, NEW test \in BOOLEAN,
         Begin(h, u, test)
  PROVE  RecordInv'
<1>1. UNCHANGED <<rows, quotes, mem, pos>> /\ pc[h] = "idle"
  BY DEF Begin
<1>2. \A g \in Handlers : Follows(g)
  <2> SUFFICES ASSUME NEW g \in Handlers PROVE Follows(g)
    OBVIOUS
  <2>1. CASE g = h
    BY <1>1, <2>1 DEF Begin, RecordInv, Loops, TypeOK, RequestsOK, Goto, Follows, RunningPCs
  <2>2. CASE g # h
    BY <1>1, <2>2, RestsFollows DEF Begin, RecordInv, TypeOK, RequestsOK, Goto
  <2> QED BY <2>1, <2>2
<1> QED BY <1>1, <1>2, SameRowsKept, RecordNothing

-----------------------------------------------------------------------------
(* The record transaction.                                                 *)

\* What a committed transaction leaves: the market recorded, and nothing of
\* another row touched.
LEMMA CommitRows ==
  ASSUME TypeOK, NEW h \in Handlers, pc[h] \in RunningPCs, RecordCommits(h),
         NEW id \in JournalIDs
  PROVE  /\ rows'[id].recorded = IF id = mem[h].id THEN rows[id].recorded \cup {pos[h].m}
                                                   ELSE rows[id].recorded
         /\ rows'[id].test = rows[id].test /\ rows'[id].superseded = rows[id].superseded
         /\ rows'[id].status = "absent" => rows[id].status = "absent"
         /\ \/ rows'[id] = rows[id]
            \/ /\ id = mem[h].id
               /\ rows'[id].status = IF pos[h].m = NMarkets THEN "completed" ELSE "active"
<1> DEFINE s == IF pos[h].m = NMarkets THEN "completed" ELSE "active"
<1>1. rows \in [JournalIDs -> Row] /\ mem[h].id \in JournalIDs
  BY RunningHasJournal DEF TypeOK, DatabaseOK
<1>2. CASE pos[h].m \in rows[mem[h].id].recorded
  BY <1>1, <1>2 DEF RecordCommits
<1>3. CASE rows' = [rows EXCEPT ![mem[h].id].recorded = @ \cup {pos[h].m}, ![mem[h].id].status = s]
  <2>1. s \in {"completed", "active"}
    OBVIOUS
  <2> HIDE DEF s
  <2>2. CASE id = mem[h].id
    <3>1. /\ rows'[id].recorded = rows[id].recorded \cup {pos[h].m}
          /\ rows'[id].status = s
          /\ rows'[id].test = rows[id].test /\ rows'[id].superseded = rows[id].superseded
      BY <1>1, <1>3, <2>2 DEF Row
    <3> QED BY <2>1, <2>2, <3>1 DEF s
  <2>3. CASE id # mem[h].id
    BY <1>1, <1>3, <2>3
  <2> QED BY <2>2, <2>3
<1> QED BY <1>2, <1>3 DEF RecordCommits

\* It inserts a quote if, and only if, it records the market.
LEMMA CommitQuotes ==
  ASSUME TypeOK, NEW h \in Handlers, pc[h] \in RunningPCs, RecordCommits(h),
         NEW id \in JournalIDs, NEW m \in Markets
  PROVE  quotes'[id][m] =
           IF id = mem[h].id /\ m = pos[h].m /\ m \notin rows[id].recorded
             THEN quotes[id][m] + 1 ELSE quotes[id][m]
<1>1. quotes \in [JournalIDs -> [Markets -> Nat]] /\ mem[h].id \in JournalIDs
  BY RunningHasJournal DEF TypeOK, DatabaseOK
<1> QED BY <1>1 DEF RecordCommits

\* The last market of a request completes its row.
LEMMA LastIsWhole ==
  ASSUME RecordInv, NEW h \in Handlers, pc[h] \in RunningPCs, pos[h].m = NMarkets
  PROVE  rows[mem[h].id].recorded \cup {pos[h].m} = Markets
<1>1. rows[mem[h].id].recorded \subseteq Markets
  BY RunningHasJournal DEF RecordInv, TypeOK, DatabaseOK, Row
<1>2. \A m \in Markets : m < NMarkets => m \in rows[mem[h].id].recorded
  BY DEF RecordInv, Loops
<1> QED BY <1>1, <1>2, PlanAssumption DEF Markets

\* A committed transaction keeps the books of every row.
LEMMA CommitBooks ==
  ASSUME RecordInv, NEW h \in Handlers, pc[h] \in RunningPCs, RecordCommits(h),
         NEW id \in JournalIDs
  PROVE  Booked(id)'
<1>1. TypeOK /\ Booked(id) /\ mem[h].id \in JournalIDs
  BY RunningHasJournal DEF RecordInv
<1>2. ASSUME NEW m \in Markets
      PROVE  quotes'[id][m] = IF m \in rows'[id].recorded THEN 1 ELSE 0
  <2>1. quotes[id][m] = IF m \in rows[id].recorded THEN 1 ELSE 0
    BY <1>1 DEF Booked
  <2>2. rows'[id].recorded = IF id = mem[h].id THEN rows[id].recorded \cup {pos[h].m}
                                               ELSE rows[id].recorded
    BY <1>1, CommitRows
  <2>3. quotes'[id][m] =
          IF id = mem[h].id /\ m = pos[h].m /\ m \notin rows[id].recorded
            THEN quotes[id][m] + 1 ELSE quotes[id][m]
    BY <1>1, CommitQuotes
  <2>4. CASE id = mem[h].id /\ m = pos[h].m
    BY <2>1, <2>2, <2>3, <2>4
  <2>5. CASE ~(id = mem[h].id /\ m = pos[h].m)
    <3>1. quotes'[id][m] = quotes[id][m]
      BY <2>3, <2>5
    <3>2. m \in rows'[id].recorded <=> m \in rows[id].recorded
      BY <2>2, <2>5
    <3> QED BY <2>1, <3>1, <3>2
  <2> QED BY <2>4, <2>5
<1>3. ASSUME rows'[id].status = "completed", ~rows'[id].superseded
      PROVE  rows'[id].recorded = Markets
  <2>1. CASE rows'[id] = rows[id]
    BY <1>1, <1>3, <2>1 DEF Booked
  <2>2. CASE id = mem[h].id /\ pos[h].m = NMarkets
    BY <1>1, <2>2, CommitRows, LastIsWhole
  <2> QED BY <1>1, <1>3, <2>1, <2>2, CommitRows
<1>4. rows'[id].status = "absent" => rows'[id].recorded = {}
  <2>1. mem[h].id = id => rows[id].status # "absent"
    BY DEF RecordInv, Loops
  <2> QED BY <1>1, <2>1, CommitRows DEF Booked
<1> QED BY <1>2, <1>3, <1>4 DEF Booked

\* The next market of a request starts with this one recorded; a request that
\* ends, and every other one, is where it was.
LEMMA CommitLoops ==
  ASSUME RecordInv, NEW h \in Handlers, pc[h] = "record", RecordCommits(h),
         \/ Finish(h)
         \/ /\ pos[h].m < NMarkets /\ Goto(h, "run")
            /\ pos' = [pos EXCEPT ![h] = [AtStart EXCEPT !.m = pos[h].m + 1]]
            /\ UNCHANGED <<req, mem>>,
         NEW g \in Handlers
  PROVE  Loops(g)'
<1>1. TypeOK /\ Loops(g) /\ Loops(h) /\ pc[h] \in RunningPCs /\ mem[h].id \in JournalIDs
  BY RunningHasJournal DEF RecordInv, RunningPCs
<1>2. CASE g # h
  <2>1. pc'[g] = pc[g] /\ mem'[g] = mem[g] /\ pos'[g] = pos[g] /\ req'[g] = req[g]
    BY <1>1, <1>2 DEF Finish, Goto, TypeOK, RequestsOK
  <2>2. CASE pc[g] \in RunningPCs
    <3>1. mem[g].id \in JournalIDs
      BY <1>1, <2>2, RunningHasJournal
    <3>2. /\ rows'[mem[g].id].test = rows[mem[g].id].test
          /\ rows'[mem[g].id].status = "absent" => rows[mem[g].id].status = "absent"
          /\ rows[mem[g].id].recorded \subseteq rows'[mem[g].id].recorded
      BY <1>1, <3>1, CommitRows
    <3> QED BY <1>1, <2>1, <2>2, <3>2 DEF Loops
  <2>3. CASE pc[g] \notin RunningPCs
    BY <1>1, <2>1, <2>3 DEF Loops
  <2> QED BY <2>2, <2>3
<1>3. CASE g = h /\ Finish(h)
  BY <1>1, <1>3 DEF Finish, Goto, TypeOK, RequestsOK, Loops, RunningPCs, AtStart
<1>4. CASE /\ g = h
           /\ pos[h].m < NMarkets /\ Goto(h, "run")
           /\ pos' = [pos EXCEPT ![h] = [AtStart EXCEPT !.m = pos[h].m + 1]]
           /\ UNCHANGED <<req, mem>>
  <2>1. pc'[h] = "run" /\ pos'[h].m = pos[h].m + 1 /\ mem'[h] = mem[h] /\ req'[h] = req[h]
    BY <1>1, <1>4 DEF Goto, TypeOK, RequestsOK, AtStart
  <2>2. pos[h].m \in Markets
    BY <1>1 DEF TypeOK, RequestsOK, LoopPos
  <2>3. \A m \in Markets : m < pos[h].m + 1 => m < pos[h].m \/ m = pos[h].m
    BY <2>2, PlanAssumption DEF Markets
  <2>4. /\ rows'[mem[h].id].recorded = rows[mem[h].id].recorded \cup {pos[h].m}
        /\ rows'[mem[h].id].test = rows[mem[h].id].test
        /\ rows'[mem[h].id].status = "absent" => rows[mem[h].id].status = "absent"
    BY <1>1, CommitRows
  <2> QED BY <1>1, <1>4, <2>1, <2>3, <2>4 DEF Loops, RunningPCs
<1> QED BY <1>2, <1>3, <1>4

\* The record transaction, committed, lost or refused.
LEMMA RecordRecords ==
  ASSUME RecordInv, TypeOK', NEW h \in Handlers, Record(h)
  PROVE  RecordInv'
<1>1. pc[h] = "record" /\ pc[h] \in RunningPCs
  BY DEF Record, RunningPCs
<1>2. CASE UNCHANGED <<rows, quotes>> /\ Finish(h)
  BY <1>2, FinishFollows, SameRowsKept, RecordNothing
<1>3. CASE /\ RecordCommits(h)
           /\ \/ Finish(h)
              \/ /\ pos[h].m < NMarkets /\ Goto(h, "run")
                 /\ pos' = [pos EXCEPT ![h] = [AtStart EXCEPT !.m = pos[h].m + 1]]
                 /\ UNCHANGED <<req, mem>>
  BY <1>1, <1>3, CommitBooks, CommitLoops DEF RecordInv
<1> QED BY <1>2, <1>3 DEF Record

-----------------------------------------------------------------------------
(* The theorems.                                                           *)

\* Nothing is recorded before the first request.
LEMMA InitRecords == Init => RecordInv
<1> SUFFICES ASSUME Init PROVE RecordInv
  OBVIOUS
<1>1. ASSUME NEW id \in JournalIDs PROVE Booked(id)
  BY DEF Init, Booked, EmptyRow
<1>2. ASSUME NEW h \in Handlers PROVE Loops(h)
  BY DEF Init, Loops, RunningPCs, AtStart
<1> QED BY <1>1, <1>2, InitType DEF RecordInv

\* Every step keeps the books, with the advisory lock lost or not.
LEMMA NextRecords == RecordInv /\ [Next]_vars => RecordInv'
<1> SUFFICES ASSUME RecordInv, [Next]_vars PROVE RecordInv'
  OBVIOUS
<1>1. TypeOK'
  BY NextType DEF RecordInv
<1>2. ASSUME NEW h \in Handlers, Advance(h) PROVE RecordInv'
  BY <1>1, <1>2, SetupRecords, LoadJournalRecords, SupersedeRecords, CreateJournalRecords,
     AnswerFromJournalRecords, MarkPendingRecords, RetrySaveFailsRecords, SendRecords,
     ReplyRecords, RecordRecords DEF Advance
<1>3. CASE UNCHANGED vars
  BY <1>1, <1>3, SameRowsKept, RestsFollows, RecordNothing DEF RecordInv, vars, local
<1> QED BY <1>1, <1>2, <1>3, BeginRecords, BesideRecords DEF Next

\* A market gets one quote in FlowIQ's database when it is recorded, and none
\* before, although requests run at once after the lock was lost, commits are
\* not confirmed and markets are recorded again (recordSubmission).
THEOREM OneQuoteEach == Spec => []OneQuotePerRecordedMarket
<1>1. RecordInv => OneQuotePerRecordedMarket
  BY DEF RecordInv, Booked, OneQuotePerRecordedMarket
<1> QED BY <1>1, InitRecords, NextRecords, PTL DEF Spec

\* A journal that is closed, and was not superseded, has every market recorded.
THEOREM ClosedIsWhole == Spec => []CompletedCoversAllMarkets
<1>1. RecordInv => CompletedCoversAllMarkets
  BY DEF RecordInv, Booked, CompletedCoversAllMarkets
<1> QED BY <1>1, InitRecords, NextRecords, PTL DEF Spec

\* Only the record transaction changes rows and the campaign's status at once.
LEMMA OnlyRecordSubmits ==
  ASSUME [Next]_vars, campaign.status # "submitted", campaign'.status = "submitted",
         rows' # rows
  PROVE  \E h \in Handlers : Record(h) /\ RecordCommits(h)
<1>1. campaign' # campaign
  OBVIOUS
<1>2. ASSUME NEW h \in Handlers, Advance(h)
      PROVE  Record(h) /\ RecordCommits(h)
  BY <1>1, <1>2 DEF Advance, AssertEditable, Price, LoadJournal, Supersede, CreateJournal,
     SetupFails, AnswerFromJournal, MarkPending, RetrySaveFails, Send, Reply, Record
<1>3. ~Beside
  BY <1>1 DEF Beside, Edit, Append, Calculate, EditLockEnds, MarkSubmitted, ResetStatus,
     Reconcile, Disconnect, Crash, DropLock, Deploy
<1> QED BY <1>1, <1>2, <1>3 DEF Next, Begin, vars

\* A submission submits the campaign with the last market of a journal that is
\* no test and has every market recorded, and in no other way.
THEOREM OnlyWholeRunsSubmit == Spec => SubmitsOnlyRealWholeRuns
<1>1. ASSUME RecordInv, [Next]_vars, campaign.status # "submitted",
             campaign'.status = "submitted", rows' # rows
      PROVE  \E id \in JournalIDs :
               /\ rows'[id] # rows[id] /\ ~rows[id].test
               /\ rows'[id].status = "completed" /\ rows'[id].recorded = Markets
  <2>1. PICK h \in Handlers : Record(h) /\ RecordCommits(h)
    BY <1>1, OnlyRecordSubmits
  <2>2. TypeOK /\ pc[h] \in RunningPCs /\ mem[h].id \in JournalIDs
    BY <1>1, <2>1, RunningHasJournal DEF Record, RunningPCs, RecordInv
  <2>3. /\ pos[h].m \notin rows[mem[h].id].recorded /\ pos[h].m = NMarkets /\ ~req[h].test
    BY <1>1, <2>1 DEF RecordCommits
  <2>4. rows[mem[h].id].test = req[h].test
    BY <1>1, <2>2 DEF RecordInv, Loops
  <2>5. rows'[mem[h].id].recorded = Markets /\ rows'[mem[h].id] # rows[mem[h].id]
    BY <1>1, <2>1, <2>2, <2>3, CommitRows, LastIsWhole
  <2>6. rows'[mem[h].id].status = "completed"
    BY <2>1, <2>2, <2>3, <2>5, CommitRows
  <2> QED BY <2>2, <2>3, <2>4, <2>5, <2>6
<1>2. RecordInv /\ [Next]_vars =>
        [campaign.status # "submitted" /\ campaign'.status = "submitted" /\ rows' # rows
           => \E id \in JournalIDs :
                /\ rows'[id] # rows[id] /\ ~rows[id].test
                /\ rows'[id].status = "completed" /\ rows'[id].recorded = Markets]_vars
  BY <1>1
<1> QED BY <1>2, InitRecords, NextRecords, PTL DEF Spec, SubmitsOnlyRealWholeRuns

-----------------------------------------------------------------------------
(***************************************************************************)
(* What the journal says of PrintIQ is so, while the advisory lock's       *)
(* connection lives: a market recorded as finished had every call of it    *)
(* answered with success, and an attachment is on its job a second time    *)
(* only after PrintIQ's own timeouts.  The invariant:                      *)
(***************************************************************************)

\* A step that went well, and one that the market can go on after.
Finished(s) == s.state = "done" /\ s.reply = "good"
Served(s)   == s.state = "done" /\ s.reply \in Usable

\* What the step k of a journal says of PrintIQ, which acted on l requests for
\* it and answered t of them with a timeout.
Honest(k, s, l, t) ==
  /\ s.state = "done" => l > 0
  /\ s.state \in {"none", "failed", "retryable_timeout"} => l <= t
  /\ s.reply = "keyless" => k[2] = 1

\* A row tells the truth, and its recorded markets are finished.
Ledger(id) ==
  /\ \A k \in Keys : /\ Honest(k, rows[id].steps[k], landed[id][k], timeouts[id][k])
                     /\ landed[id][k] <= 1 + timeouts[id][k]
  /\ \A m \in rows[id].recorded, i \in 1..NSteps : Finished(rows[id].steps[<<m, i>>])

\* While no attachment of its market has failed, a request has the row's own
\* journal in memory, and every call it has passed was served.
OnCourse(h) ==
  /\ mem[h].steps = rows[mem[h].id].steps
  /\ \A i \in 1..NSteps : i < pos[h].i => Served(mem[h].steps[<<pos[h].m, i>>])
  /\ pos[h].i > Products => mem[h].steps[<<pos[h].m, 1>>].reply = "good"

\* What a request knows of the call it is at.
AtCall(h) ==
  LET l == landed[mem[h].id][At(h)]
      t == timeouts[mem[h].id][At(h)]
  IN /\ pc[h] \in {"send", "reply"} => mem[h].steps[At(h)].state = "pending"
     /\ pc[h] = "send" => l <= t
     /\ pc[h] = "reply" => IF pos[h].acted THEN l > 0 ELSE l <= t
     /\ pc[h] # "reply" => ~pos[h].acted
     /\ pc[h] = "record" => /\ ~pos[h].failed /\ pos[h].i = NSteps
                            /\ Served(mem[h].steps[At(h)])

Course(h) ==
  IF pc[h] \in RunningPCs
    THEN /\ \A k \in Keys : Honest(k, mem[h].steps[k], landed[mem[h].id][k],
                                   timeouts[mem[h].id][k])
         /\ \A m \in rows[mem[h].id].recorded, i \in 1..NSteps :
              Finished(mem[h].steps[<<m, i>>])
         /\ ~pos[h].failed => OnCourse(h)
         /\ AtCall(h)
    ELSE pos[h] = AtStart

Truthful == (\A id \in JournalIDs : Ledger(id)) /\ (\A h \in Handlers : Course(h))

-----------------------------------------------------------------------------
(* Steps, and what is true of them.                                        *)

\* More timeouts make no step less honest.
LEMMA HonestLater ==
  ASSUME NEW k, NEW s, NEW l \in Nat, NEW t \in Nat, NEW u \in Nat, t <= u,
         Honest(k, s, l, t)
  PROVE  Honest(k, s, l, u)
BY DEF Honest

\* A finished step is no step about to be called, and no step in flight.
LEMMA UnfinishedIsUnrecorded ==
  ASSUME Truthful, NEW h \in Handlers, pc[h] \in RunningPCs,
         mem[h].steps[At(h)].state # "done"
  PROVE  \A m \in rows[mem[h].id].recorded, i \in 1..NSteps : <<m, i>> # At(h)
BY DEF Truthful, Course, Finished

\* Marking and answering a call touch no other step.
LEMMA MarkedStep ==
  ASSUME NEW m \in Memory, NEW k \in Keys
  PROVE  /\ Marked(m, k).steps[k] = [state |-> "pending", payload |-> build, reply |-> "none"]
         /\ \A j \in Keys \ {k} : Marked(m, k).steps[j] = m.steps[j]
BY DEF Memory, JournalSteps, Marked

\* An answered call has the state and the reply it was given.
LEMMA AnsweredStep ==
  ASSUME NEW m \in Memory, NEW k \in Keys, NEW st \in Attempted, NEW r \in Replies
  PROVE  /\ Answered(m, k, st, r).steps[k].state = st
         /\ Answered(m, k, st, r).steps[k].reply = r
         /\ \A j \in Keys \ {k} : Answered(m, k, st, r).steps[j] = m.steps[j]
<1> DEFINE step  == [m.steps[k] EXCEPT !.state = st, !.reply = r]
<1>1. m.steps \in [Keys -> SavedStep] /\ m.steps[k] \in SavedStep
  BY DEF Memory, JournalSteps
<1>2. step.state = st /\ step.reply = r
  BY <1>1 DEF SavedStep
<1>3. Answered(m, k, st, r).steps = [m.steps EXCEPT ![k] = step]
  BY <1>1 DEF Memory, SavedStep, Answered
<1> HIDE DEF step
<1> QED BY <1>1, <1>2, <1>3

-----------------------------------------------------------------------------
(* Steps of the system that settle no call.                                *)

\* A request that starts at the first call with the row's own journal.
Enters(h) ==
  /\ pc'[h] = "run" /\ pos'[h] = AtStart
  /\ mem'[h].id \in JournalIDs /\ mem'[h].steps = rows'[mem'[h].id].steps

\* A request that is not in the loop, enters it, or stays where it is.
StaysOn(h) ==
  \/ pc'[h] \notin RunningPCs /\ pos'[h] = AtStart
  \/ Enters(h)
  \/ pc[h] \in RunningPCs /\ pc'[h] = pc[h] /\ mem'[h] = mem[h] /\ pos'[h] = pos[h]

\* The first call of a market has no predecessor.
LEMMA FirstHasNone ==
  /\ AtStart.i = 1 /\ AtStart.m = 1 /\ ~AtStart.failed /\ ~AtStart.acted
  /\ ~(1 > Products) /\ \A i \in 1..NSteps : ~(i < 1)
BY PlanAssumption, PlanShape DEF AtStart

\* A request that enters the loop is on course.
LEMMA EntersOnCourse ==
  ASSUME NEW h \in Handlers, Enters(h), \A id \in JournalIDs : Ledger(id)'
  PROVE  Course(h)'
BY FirstHasNone DEF Enters, Ledger, Course, OnCourse, AtCall, RunningPCs

\* A step that changes no call and records nothing keeps the truth.
LEMMA QuietTruth ==
  ASSUME JournalInStep, Truthful, UNCHANGED <<landed, timeouts>>,
         \A id \in JournalIDs : /\ rows'[id].steps = rows[id].steps
                                /\ rows'[id].recorded = rows[id].recorded,
         \A h \in Handlers : StaysOn(h)
  PROVE  Truthful'
<1>1. ASSUME NEW id \in JournalIDs PROVE Ledger(id)'
  BY DEF Truthful, Ledger
<1>2. ASSUME NEW h \in Handlers PROVE Course(h)'
  <2>1. CASE pc'[h] \notin RunningPCs /\ pos'[h] = AtStart
    BY <2>1 DEF Course
  <2>2. CASE Enters(h)
    BY <1>1, <2>2, EntersOnCourse
  <2>3. CASE pc[h] \in RunningPCs /\ pc'[h] = pc[h] /\ mem'[h] = mem[h] /\ pos'[h] = pos[h]
    <3>1. mem[h].id \in JournalIDs
      BY <2>3, RunningHasJournal DEF JournalInStep
    <3> QED BY <2>3, <3>1 DEF Truthful, Course, OnCourse, AtCall, At
  <2> QED BY <2>1, <2>2, <2>3 DEF StaysOn
<1> QED BY <1>1, <1>2 DEF Truthful

\* A request that ends, or is not in the loop, stays on; so do the idle ones.
LEMMA RestStaysOn ==
  ASSUME Truthful, NEW h \in Handlers, pc'[h] \notin RunningPCs,
         pos'[h] = AtStart \/ (pos'[h] = pos[h] /\ pc[h] \notin RunningPCs)
  PROVE  StaysOn(h)
BY DEF Truthful, Course, StaysOn

\* While one request moves, the others are idle and at their start.
LEMMA OthersRest ==
  ASSUME JournalInStep, Truthful, NEW h \in Handlers, pc[h] # "idle", Moves(h),
         \A g \in Handlers \ {h} : pos'[g] = pos[g]
  PROVE  \A g \in Handlers \ {h} : StaysOn(g) /\ Course(g)'
<1>1. \A g \in Handlers \ {h} : pc[g] = "idle" /\ pc'[g] = "idle"
  BY OthersIdle DEF JournalInStep
<1> QED BY <1>1 DEF Truthful, Course, StaysOn, RunningPCs

\* Where a step leaves the positions of the others.
LEMMA OthersKeepPos ==
  ASSUME JournalInStep, NEW h \in Handlers
  PROVE  /\ Finish(h) => pos'[h] = AtStart /\ pc'[h] = "idle"
                         /\ \A g \in Handlers \ {h} : pos'[g] = pos[g]
         /\ \A m, ok : Proceed(h, m, ok) => \A g \in Handlers \ {h} : pos'[g] = pos[g]
BY DEF Finish, Goto, Proceed, JournalInStep, TypeOK, RequestsOK

\* The steps before the loop.
LEMMA SetupTruth ==
  ASSUME JournalInStep, Truthful, NEW h \in Handlers,
         AssertEditable(h) \/ Price(h) \/ SetupFails(h) \/ Supersede(h)
  PROVE  Truthful'
<1>1. pc[h] # "idle" /\ pc[h] \notin RunningPCs /\ Moves(h)
  BY GotoMoves DEF AssertEditable, Price, SetupFails, Supersede, SetupPCs, RunningPCs,
     Moves, JournalInStep, TypeOK
<1>2. pc'[h] \notin RunningPCs /\ pos'[h] \in {pos[h], AtStart}
      /\ \A g \in Handlers \ {h} : pos'[g] = pos[g]
  BY OthersKeepPos DEF AssertEditable, Price, SetupFails, Supersede, Goto, RunningPCs,
     JournalInStep, TypeOK, RequestsOK
<1>3. \A g \in Handlers : StaysOn(g)
  BY <1>1, <1>2, RestStaysOn, OthersRest
<1>4. \A id \in JournalIDs : /\ rows'[id].steps = rows[id].steps
                             /\ rows'[id].recorded = rows[id].recorded
  <2>1. CASE rows' = rows
    BY <2>1
  <2>2. CASE Supersede(h) /\ rows' # rows
    <3>1. mem[h].id \in JournalIDs
      BY <2>2 DEF JournalInStep, TypeOK, RequestsOK, Memory, Supersede, SetupPCs
    <3>2. rows' = [rows EXCEPT ![mem[h].id].status = "completed",
                               ![mem[h].id].superseded = TRUE]
      BY <2>2 DEF Supersede
    <3> QED BY <3>1, <3>2 DEF JournalInStep, TypeOK, DatabaseOK, Row
  <2> QED BY <2>1, <2>2 DEF AssertEditable, Price, SetupFails
<1>5. UNCHANGED <<landed, timeouts>>
  BY DEF AssertEditable, Price, SetupFails, Supersede, external
<1> QED BY <1>3, <1>4, <1>5, QuietTruth

\* A request that begins.
LEMMA BeginTruth ==
  ASSUME JournalInStep, Truthful, NEW h \in Handlers, NEW u \in Users, NEW t \in BOOLEAN,
         Begin(h, u, t)
  PROVE  Truthful'
<1>1. pc'[h] \notin RunningPCs /\ UNCHANGED <<pos, rows, landed, timeouts, mem>>
      /\ pc[h] \notin RunningPCs /\ \A g \in Handlers \ {h} : pc'[g] = pc[g]
  BY DEF Begin, Goto, RunningPCs, JournalInStep, TypeOK, RequestsOK, external
<1>2. \A g \in Handlers : StaysOn(g)
  BY <1>1 DEF StaysOn, Truthful, Course
<1> QED BY <1>1, <1>2, QuietTruth

\* A request that resumes, or finds nothing to resume.
LEMMA LoadJournalTruth ==
  ASSUME JournalInStep, Truthful, NEW h \in Handlers, LoadJournal(h)
  PROVE  Truthful'
<1>1. pc[h] # "idle" /\ pc[h] \notin RunningPCs /\ Moves(h) /\ UNCHANGED <<rows, pos, landed, timeouts>>
  BY GotoMoves DEF LoadJournal, RunningPCs, JournalInStep, TypeOK, external
<1>2. pos[h] = AtStart
  BY <1>1 DEF Truthful, Course
<1>3. StaysOn(h)
  <2>1. CASE pc'[h] \in {"supersede", "create"}
    BY <1>1, <1>2, <2>1 DEF StaysOn, RunningPCs
  <2>2. ASSUME NEW id \in JournalIDs, Goto(h, "run"),
               mem' = [mem EXCEPT ![h] = [id |-> id, steps |-> rows[id].steps,
                                          cur |-> rows[id].cur]]
        PROVE  Enters(h)
    BY <1>1, <1>2, <2>2 DEF Enters, Goto, JournalInStep, TypeOK, RequestsOK
  <2> QED BY <2>1, <2>2 DEF LoadJournal, Goto, JournalInStep, TypeOK, RequestsOK, StaysOn
<1>4. \A g \in Handlers : StaysOn(g)
  BY <1>1, <1>3, OthersRest
<1> QED BY <1>1, <1>4, QuietTruth

-----------------------------------------------------------------------------
(* Going on, and saving.                                                   *)

\* A market goes on after a call with a journal whose passed calls were
\* served, unless an attachment has failed.
LEMMA ProceedTruth ==
  ASSUME JournalInStep, NEW h \in Handlers, pc[h] \in RunningPCs,
         NEW m \in Memory, m.id = mem[h].id, NEW ok \in BOOLEAN, Proceed(h, m, ok),
         \A k \in Keys : Honest(k, m.steps[k], landed'[m.id][k], timeouts'[m.id][k]),
         \A r \in rows'[m.id].recorded, i \in 1..NSteps : Finished(m.steps[<<r, i>>]),
         ok /\ ~pos[h].failed =>
           /\ m.steps = rows'[m.id].steps
           /\ \A i \in 1..NSteps : i <= pos[h].i => Served(m.steps[<<pos[h].m, i>>])
           /\ pos[h].i > Products => m.steps[<<pos[h].m, 1>>].reply = "good"
  PROVE  Course(h)' /\ \A g \in Handlers \ {h} : pos'[g] = pos[g]
<1> DEFINE last == pos[h].i = NSteps
<1>1. \A g \in Handlers \ {h} : pos'[g] = pos[g]
  BY OthersKeepPos
<1>2. CASE Finish(h)
  BY <1>1, <1>2, OthersKeepPos DEF Course, RunningPCs
<1>3. CASE /\ ~(last /\ (pos[h].failed \/ ~ok))
           /\ ~(pos[h].i = Products /\ m.steps[<<pos[h].m, 1>>].reply = "keyless")
           /\ Goto(h, IF last THEN "record" ELSE "run")
           /\ mem' = [mem EXCEPT ![h] = m]
           /\ pos' = [pos EXCEPT ![h] = [m |-> @.m, i |-> IF last THEN @.i ELSE @.i + 1,
                        again |-> FALSE, failed |-> pos[h].failed \/ ~ok, acted |-> FALSE]]
  <2>1. /\ pos[h].i \in 1..NSteps /\ pos[h].m \in Markets /\ pos[h].failed \in BOOLEAN
        /\ NSteps > Products /\ NSteps \in Nat /\ Products \in Nat
    BY PlanShape, PlanAssumption, RunningHasJournal
    DEF JournalInStep, LoopPos, NSteps, QuoteSteps
  <2>2. /\ mem'[h] = m /\ pc'[h] = (IF last THEN "record" ELSE "run")
        /\ pos'[h].m = pos[h].m /\ pos'[h].i = (IF last THEN pos[h].i ELSE pos[h].i + 1)
        /\ pos'[h].failed = (pos[h].failed \/ ~ok) /\ ~pos'[h].acted
    BY <1>3 DEF Goto, JournalInStep, TypeOK, RequestsOK
  <2>3. ~pos'[h].failed => OnCourse(h)'
    <3> SUFFICES ASSUME ok, ~pos[h].failed PROVE OnCourse(h)'
      BY <2>1, <2>2
    <3>1. \A i \in 1..NSteps : i < pos'[h].i => i <= pos[h].i
      BY <2>1, <2>2
    <3>2. pos'[h].i > Products => m.steps[<<pos[h].m, 1>>].reply = "good"
      <4>1. CASE pos[h].i > Products
        BY <4>1
      <4>2. CASE pos[h].i = Products
        <5>1. Served(m.steps[<<pos[h].m, 1>>])
          BY <2>1, <4>2
        <5> QED BY <1>3, <4>2, <5>1 DEF Served, Usable
      <4>3. CASE pos[h].i < Products
        BY <2>1, <2>2, <4>3
      <4> QED BY <2>1, <4>1, <4>2, <4>3
    <3> QED BY <2>2, <3>1, <3>2 DEF OnCourse
  <2>4. AtCall(h)'
    <3>1. CASE last
      <4>1. ok /\ ~pos[h].failed
        BY <1>3, <2>1, <3>1
      <4>2. Served(m.steps[At(h)'])
        BY <2>1, <2>2, <3>1, <4>1 DEF At
      <4> QED BY <2>1, <2>2, <3>1, <4>1, <4>2 DEF AtCall
    <3>2. CASE ~last
      BY <2>2, <3>2 DEF AtCall
    <3> QED BY <3>1, <3>2
  <2> QED BY <1>1, <2>2, <2>3, <2>4 DEF Course, RunningPCs
<1> QED BY <1>1, <1>2, <1>3 DEF Proceed

\* A failed call needs less: only an honest journal with its recorded markets.
LEMMA FailsTruth ==
  ASSUME JournalInStep, NEW h \in Handlers, pc[h] \in RunningPCs,
         NEW m \in Memory, m.id = mem[h].id, Proceed(h, m, FALSE),
         \A k \in Keys : Honest(k, m.steps[k], landed'[m.id][k], timeouts'[m.id][k]),
         \A r \in rows'[m.id].recorded, i \in 1..NSteps : Finished(m.steps[<<r, i>>])
  PROVE  Course(h)' /\ \A g \in Handlers \ {h} : pos'[g] = pos[g]
BY ProceedTruth

\* A save, in whole or not at all, changes steps of one row only.
LEMMA SavedFields ==
  ASSUME TypeOK, NEW m \in Memory, m.id \in JournalIDs, rows' \in {rows, Written(m)},
         NEW id \in JournalIDs
  PROVE  /\ rows'[id].recorded = rows[id].recorded
         /\ rows'[id].steps = rows[id].steps \/ (id = m.id /\ rows'[id].steps = m.steps)
<1>1. rows \in [JournalIDs -> Row]
  BY DEF TypeOK, DatabaseOK
<1>2. CASE rows' = Written(m)
  BY <1>1, <1>2 DEF Written, Row
<1> QED BY <1>2

\* A save of an honest journal leaves honest rows.
LEMMA SaveTruth ==
  ASSUME TypeOK, Truthful, NEW m \in Memory, m.id \in JournalIDs,
         rows' \in {rows, Written(m)}, UNCHANGED landed,
         timeouts' \in [JournalIDs -> [Keys -> Nat]],
         \A id \in JournalIDs, k \in Keys : timeouts[id][k] <= timeouts'[id][k],
         \A k \in Keys : Honest(k, m.steps[k], landed[m.id][k], timeouts'[m.id][k]),
         \A r \in rows[m.id].recorded, i \in 1..NSteps : Finished(m.steps[<<r, i>>])
  PROVE  \A id \in JournalIDs : Ledger(id)'
<1> SUFFICES ASSUME NEW id \in JournalIDs PROVE Ledger(id)'
  OBVIOUS
<1>1. /\ rows'[id].recorded = rows[id].recorded
      /\ rows'[id].steps = rows[id].steps \/ (id = m.id /\ rows'[id].steps = m.steps)
  BY SavedFields
<1>2. Ledger(id)
  BY DEF Truthful
<1>3. ASSUME NEW k \in Keys
      PROVE  /\ Honest(k, rows'[id].steps[k], landed[id][k], timeouts'[id][k])
             /\ landed[id][k] <= 1 + timeouts'[id][k]
  <2>1. /\ landed[id][k] \in Nat /\ timeouts[id][k] \in Nat /\ timeouts'[id][k] \in Nat
        /\ timeouts[id][k] <= timeouts'[id][k]
    BY DEF TypeOK, ExternalOK
  <2>2. Honest(k, rows[id].steps[k], landed[id][k], timeouts[id][k])
        /\ landed[id][k] <= 1 + timeouts[id][k]
    BY <1>2 DEF Ledger
  <2>3. Honest(k, rows[id].steps[k], landed[id][k], timeouts'[id][k])
    BY <2>1, <2>2, HonestLater
  <2> QED BY <1>1, <2>1, <2>2, <2>3
<1>4. \A r \in rows'[id].recorded, i \in 1..NSteps : Finished(rows'[id].steps[<<r, i>>])
  BY <1>1, <1>2 DEF Ledger
<1> QED BY <1>3, <1>4 DEF Ledger

\* What the other requests need once one has moved.
LEMMA OneMoves ==
  ASSUME JournalInStep, Truthful, NEW h \in Handlers, pc[h] # "idle", Moves(h),
         \A g \in Handlers \ {h} : pos'[g] = pos[g],
         \A id \in JournalIDs : Ledger(id)', Course(h)'
  PROVE  Truthful'
BY OthersRest DEF Truthful

-----------------------------------------------------------------------------
(* The calls of a market.                                                  *)

\* The calls passed, the one before the next included, were served.
LEMMA ServedSoFar ==
  ASSUME NEW h \in Handlers, pos[h] \in LoopPos, NEW s,
         \A i \in 1..NSteps : i < pos[h].i => Served(s[<<pos[h].m, i>>]),
         Served(s[At(h)])
  PROVE  \A i \in 1..NSteps : i <= pos[h].i => Served(s[<<pos[h].m, i>>])
<1>1. pos[h].i \in 1..NSteps /\ At(h) = <<pos[h].m, pos[h].i>>
  BY DEF LoopPos, At
<1> SUFFICES ASSUME NEW i \in 1..NSteps, i <= pos[h].i PROVE Served(s[<<pos[h].m, i>>])
  OBVIOUS
<1>2. i < pos[h].i \/ i = pos[h].i
  BY <1>1, PlanShape
<1> QED BY <1>1, <1>2

\* An answer from the journal.
LEMMA AnswerFromJournalTruth ==
  ASSUME JournalInStep, Truthful, NEW h \in Handlers, AnswerFromJournal(h)
  PROVE  Truthful'
<1> DEFINE step == mem[h].steps[At(h)]
           used == step.reply \in Usable
<1>1. /\ pc[h] = "run" /\ pc[h] \in RunningPCs /\ pc[h] # "idle"
      /\ UNCHANGED <<rows, landed, timeouts>>
  BY DEF AnswerFromJournal, RunningPCs, external
<1>2. /\ mem[h] \in Memory /\ mem[h].id \in JournalIDs /\ Course(h) /\ pos[h] \in LoopPos
      /\ \A id \in JournalIDs : Ledger(id)
  BY <1>1, RunningHasJournal DEF JournalInStep, Truthful
<1>3. /\ \A k \in Keys : Honest(k, mem[h].steps[k], landed'[mem[h].id][k], timeouts'[mem[h].id][k])
      /\ \A r \in rows'[mem[h].id].recorded, i \in 1..NSteps : Finished(mem[h].steps[<<r, i>>])
      /\ ~pos[h].failed => OnCourse(h)
  BY <1>1, <1>2 DEF Course
<1>4. Course(h)' /\ \A g \in Handlers \ {h} : pos'[g] = pos[g]
  <2>1. CASE Proceed(h, mem[h], FALSE)
    BY <1>1, <1>2, <1>3, <2>1, FailsTruth
  <2>2. CASE step.state = "done" /\ Proceed(h, mem[h], used)
    <3>1. used /\ ~pos[h].failed =>
            \A i \in 1..NSteps : i <= pos[h].i => Served(mem[h].steps[<<pos[h].m, i>>])
      <4> SUFFICES ASSUME used, ~pos[h].failed
                   PROVE  \A i \in 1..NSteps : i <= pos[h].i => Served(mem[h].steps[<<pos[h].m, i>>])
        OBVIOUS
      <4>1. Served(mem[h].steps[At(h)])
        BY <2>2 DEF Served
      <4>2. \A i \in 1..NSteps : i < pos[h].i => Served(mem[h].steps[<<pos[h].m, i>>])
        BY <1>3 DEF OnCourse
      <4> QED BY <1>2, <4>1, <4>2, ServedSoFar
    <3>2. used /\ ~pos[h].failed =>
            /\ mem[h].steps = rows'[mem[h].id].steps
            /\ pos[h].i > Products => mem[h].steps[<<pos[h].m, 1>>].reply = "good"
      BY <1>1, <1>3 DEF OnCourse
    <3>3. used \in BOOLEAN
      OBVIOUS
    <3> HIDE DEF used
    <3> QED BY <1>1, <1>2, <1>3, <2>2, <3>1, <3>2, <3>3, ProceedTruth
  <2> QED BY <2>1, <2>2 DEF AnswerFromJournal
<1>5. Moves(h)
  BY ProceedMoves DEF AnswerFromJournal, JournalInStep, TypeOK
<1>6. \A id \in JournalIDs : Ledger(id)'
  BY <1>1, <1>2 DEF Ledger
<1> QED BY <1>1, <1>4, <1>5, <1>6, OneMoves

\* The save before a retry fails.
LEMMA RetrySaveFailsTruth ==
  ASSUME JournalInStep, Truthful, NEW h \in Handlers, RetrySaveFails(h)
  PROVE  Truthful'
<1>1. /\ pc[h] \in RunningPCs /\ pc[h] # "idle" /\ UNCHANGED <<landed, timeouts>>
      /\ rows' \in {rows, Written(mem[h])} /\ Proceed(h, mem[h], FALSE)
  BY DEF RetrySaveFails, RunningPCs, external, SaveFails
<1>2. mem[h] \in Memory /\ mem[h].id \in JournalIDs /\ Course(h) /\ TypeOK
  BY <1>1, RunningHasJournal DEF JournalInStep, Truthful
<1>3. /\ \A k \in Keys : Honest(k, mem[h].steps[k], landed[mem[h].id][k], timeouts'[mem[h].id][k])
      /\ \A r \in rows[mem[h].id].recorded, i \in 1..NSteps : Finished(mem[h].steps[<<r, i>>])
  BY <1>1, <1>2 DEF Course
<1>4. timeouts' \in [JournalIDs -> [Keys -> Nat]]
      /\ \A id \in JournalIDs, k \in Keys : timeouts[id][k] <= timeouts'[id][k]
  BY <1>1, <1>2 DEF TypeOK, ExternalOK
<1>5. \A id \in JournalIDs : Ledger(id)'
  BY <1>1, <1>2, <1>3, <1>4, SaveTruth
<1>6. rows'[mem[h].id].recorded = rows[mem[h].id].recorded
  BY <1>1, <1>2, SavedFields
<1>7. Course(h)' /\ \A g \in Handlers \ {h} : pos'[g] = pos[g]
  BY <1>1, <1>2, <1>3, <1>6, FailsTruth
<1>8. Moves(h)
  BY <1>1, ProceedMoves DEF JournalInStep, TypeOK
<1> QED BY <1>1, <1>5, <1>7, <1>8, OneMoves

\* The save before a call.  Only a call that nothing is known of, or that is
\* known not to stand, is made.
LEMMA MarkPendingTruth ==
  ASSUME JournalInStep, Truthful, NEW h \in Handlers, MarkPending(h)
  PROVE  Truthful'
<1> DEFINE k == At(h)
           m == Marked(mem[h], k)
           l == landed[mem[h].id][k]
           t == timeouts[mem[h].id][k]
<1>1. /\ pc[h] = "run" /\ pc[h] \in RunningPCs /\ pc[h] # "idle"
      /\ UNCHANGED <<landed, timeouts>>
  BY DEF MarkPending, RunningPCs, external
<1>2. /\ mem[h] \in Memory /\ mem[h].id \in JournalIDs /\ Course(h) /\ TypeOK
      /\ k \in Keys /\ build \in Builds /\ pos[h] \in LoopPos
  BY <1>1, RunningHasJournal, AtIsKey DEF JournalInStep, Truthful, TypeOK, ExternalOK
<1>3. /\ m \in Memory /\ m.id = mem[h].id /\ m.steps[k].state = "pending"
      /\ m.steps[k].reply = "none"
      /\ \A j \in Keys \ {k} : m.steps[j] = mem[h].steps[j]
  <2>1. m \in Memory /\ m.id = mem[h].id
    BY <1>2, MarkedType
  <2>2. /\ m.steps[k] = [state |-> "pending", payload |-> build, reply |-> "none"]
        /\ \A j \in Keys \ {k} : m.steps[j] = mem[h].steps[j]
    BY <1>2, MarkedStep
  <2> HIDE DEF m
  <2> QED BY <2>1, <2>2
<1>4. mem[h].steps[k].state \in {"none", "failed", "retryable_timeout"}
  BY DEF MarkPending, MustCall
<1>5. \A j \in Keys : Honest(j, mem[h].steps[j], landed[mem[h].id][j], timeouts[mem[h].id][j])
  BY <1>1, <1>2 DEF Course
<1>6. l <= t
  <2>1. Honest(k, mem[h].steps[k], l, t)
    BY <1>2, <1>5
  <2> HIDE DEF k, l, t
  <2> QED BY <1>4, <2>1 DEF Honest
<1>7. \A j \in Keys : Honest(j, m.steps[j], landed[mem[h].id][j], timeouts[mem[h].id][j])
  <2>1. Honest(k, m.steps[k], l, t)
    BY <1>3 DEF Honest
  <2> QED BY <1>3, <1>5, <2>1
<1>8. \A r \in rows[mem[h].id].recorded, i \in 1..NSteps :
        Finished(mem[h].steps[<<r, i>>]) /\ <<r, i>> # k
  BY <1>1, <1>2, <1>4, UnfinishedIsUnrecorded DEF Course
<1>9. \A r \in rows[mem[h].id].recorded, i \in 1..NSteps : Finished(m.steps[<<r, i>>])
  <2> SUFFICES ASSUME NEW r \in rows[mem[h].id].recorded, NEW i \in 1..NSteps
               PROVE  Finished(m.steps[<<r, i>>])
    OBVIOUS
  <2>1. r \in Markets
    BY <1>2 DEF TypeOK, DatabaseOK, Row
  <2>2. <<r, i>> \in Keys
    BY <2>1 DEF Keys
  <2> QED BY <1>3, <1>8, <2>2
<1>10. timeouts' \in [JournalIDs -> [Keys -> Nat]]
       /\ \A id \in JournalIDs, j \in Keys : timeouts[id][j] <= timeouts'[id][j]
  BY <1>1, <1>2 DEF TypeOK, ExternalOK
<1>11. Moves(h)
  BY GotoMoves, ProceedMoves DEF MarkPending, JournalInStep, TypeOK
<1> HIDE DEF m, k
<1>12. CASE Proceed(h, mem[h], FALSE) /\ UNCHANGED rows
  <2>1. \A id \in JournalIDs : Ledger(id)'
    BY <1>1, <1>12 DEF Truthful, Ledger
  <2>2. Course(h)' /\ \A g \in Handlers \ {h} : pos'[g] = pos[g]
    BY <1>1, <1>2, <1>5, <1>8, <1>12, FailsTruth
  <2> QED BY <1>1, <1>11, <2>1, <2>2, OneMoves
<1>13. CASE SaveFails(m) /\ Proceed(h, m, FALSE)
  <2>1. rows' \in {rows, Written(m)}
    BY <1>13 DEF SaveFails
  <2>2. \A id \in JournalIDs : Ledger(id)'
    BY <1>1, <1>2, <1>3, <1>7, <1>9, <1>10, <2>1, SaveTruth
  <2>3. rows'[m.id].recorded = rows[m.id].recorded
    BY <1>2, <1>3, <2>1, SavedFields
  <2>4. Course(h)' /\ \A g \in Handlers \ {h} : pos'[g] = pos[g]
    BY <1>1, <1>2, <1>3, <1>7, <1>9, <1>13, <2>3, FailsTruth
  <2> QED BY <1>1, <1>11, <2>2, <2>4, OneMoves
<1>14. CASE /\ SaveSucceeds(m) /\ Goto(h, "send")
            /\ mem' = [mem EXCEPT ![h] = m]
            /\ UNCHANGED <<lock, req, seen, pos, gone>>
  <2>1. rows' = Written(m)
    BY <1>14 DEF SaveSucceeds
  <2>2. \A id \in JournalIDs : Ledger(id)'
    BY <1>1, <1>2, <1>3, <1>7, <1>9, <1>10, <2>1, SaveTruth
  <2>3. rows'[m.id].recorded = rows[m.id].recorded /\ rows'[m.id].steps = m.steps
    BY <1>2, <1>3, <2>1, SavedFields, WrittenFields DEF TypeOK, DatabaseOK
  <2>4. pc'[h] = "send" /\ mem'[h] = m /\ pos' = pos /\ At(h)' = k
    BY <1>14 DEF Goto, JournalInStep, TypeOK, RequestsOK, At, k
  <2>5. ~pos[h].failed => OnCourse(h)'
    <3> SUFFICES ASSUME ~pos[h].failed PROVE OnCourse(h)'
      OBVIOUS
    <3>1. OnCourse(h)
      BY <1>1, <1>2 DEF Course
    <3>2. pos[h].m \in Markets /\ pos[h].i \in 1..NSteps /\ k = <<pos[h].m, pos[h].i>>
      BY <1>2 DEF LoopPos, k, At
    <3>3. \A i \in 1..NSteps : i # pos[h].i => m.steps[<<pos[h].m, i>>] = mem[h].steps[<<pos[h].m, i>>]
      BY <1>3, <3>2 DEF Keys
    <3>4. pos[h].i > Products => m.steps[<<pos[h].m, 1>>].reply = "good"
      BY <3>1, <3>2, <3>3, PlanAssumption, PlanShape DEF OnCourse
    <3>5. \A i \in 1..NSteps : i < pos[h].i => Served(m.steps[<<pos[h].m, i>>])
      BY <3>1, <3>2, <3>3, PlanShape DEF OnCourse
    <3> QED BY <1>3, <2>3, <2>4, <3>4, <3>5 DEF OnCourse
  <2>6. ~pos[h].acted
    BY <1>1, <1>2 DEF Course, AtCall
  <2>7. AtCall(h)'
    BY <1>1, <1>3, <1>6, <2>4, <2>6 DEF AtCall, k
  <2>8. Course(h)'
    BY <1>1, <1>3, <1>7, <1>9, <2>3, <2>4, <2>5, <2>7 DEF Course, RunningPCs
  <2> QED BY <1>1, <1>11, <2>2, <2>4, <2>8, OneMoves
<1> QED BY <1>12, <1>13, <1>14 DEF MarkPending, m, k

\* The call is made: PrintIQ acts on it once more, or does not.
LEMMA SendTruth ==
  ASSUME JournalInStep, Truthful, NEW h \in Handlers, Send(h)
  PROVE  Truthful'
<1> DEFINE k == At(h)
           id == mem[h].id
<1>1. /\ pc[h] = "send" /\ pc'[h] = "reply" /\ pc[h] \in RunningPCs /\ pc[h] # "idle"
      /\ UNCHANGED <<rows, mem, timeouts>>
  BY DEF Send, Goto, RunningPCs, JournalInStep, TypeOK, RequestsOK
<1>2. /\ mem[h] \in Memory /\ id \in JournalIDs /\ Course(h) /\ TypeOK
      /\ k \in Keys /\ pos[h] \in LoopPos
  BY <1>1, RunningHasJournal, AtIsKey DEF JournalInStep, Truthful, TypeOK
<1>3. /\ mem[h].steps[k].state = "pending" /\ landed[id][k] <= timeouts[id][k]
      /\ ~pos[h].acted
      /\ \A j \in Keys : Honest(j, mem[h].steps[j], landed[id][j], timeouts[id][j])
      /\ \A r \in rows[id].recorded, i \in 1..NSteps : Finished(mem[h].steps[<<r, i>>])
      /\ ~pos[h].failed => OnCourse(h)
  BY <1>1, <1>2 DEF Course, AtCall
<1>4. rows[id].steps[k].state = "pending"
  BY <1>1 DEF JournalInStep, CallsMarked, InFlightIsPending
<1>5. \A g \in Handlers \ {h} : pos'[g] = pos[g]
  BY DEF Send, JournalInStep, TypeOK, RequestsOK
<1>6. Moves(h)
  BY GotoMoves DEF Send, JournalInStep, TypeOK
<1>7. landed \in [JournalIDs -> [Keys -> Nat]] /\ timeouts \in [JournalIDs -> [Keys -> Nat]]
  BY <1>2 DEF TypeOK, ExternalOK
<1>8. \/ /\ landed' = [landed EXCEPT ![id][k] = @ + 1]
         /\ pos' = [pos EXCEPT ![h].acted = TRUE]
      \/ UNCHANGED <<landed, pos>>
  BY DEF Send
<1>9. /\ \A i \in JournalIDs, j \in Keys : ~(i = id /\ j = k) => landed'[i][j] = landed[i][j]
      /\ landed'[id][k] <= 1 + timeouts[id][k]
      /\ IF pos'[h].acted THEN landed'[id][k] > 0 ELSE landed'[id][k] <= timeouts[id][k]
      /\ pos'[h].m = pos[h].m /\ pos'[h].i = pos[h].i /\ pos'[h].failed = pos[h].failed
  <2>1. CASE UNCHANGED <<landed, pos>>
    BY <1>2, <1>3, <1>7, <2>1
  <2>2. CASE /\ landed' = [landed EXCEPT ![id][k] = @ + 1]
             /\ pos' = [pos EXCEPT ![h].acted = TRUE]
    <3>1. pos'[h] = [pos[h] EXCEPT !.acted = TRUE]
      BY <2>2 DEF JournalInStep, TypeOK, RequestsOK
    <3>2. landed'[id][k] = landed[id][k] + 1
      BY <1>2, <1>7, <2>2
    <3>3. \A i \in JournalIDs, j \in Keys : ~(i = id /\ j = k) => landed'[i][j] = landed[i][j]
      BY <1>2, <1>7, <2>2
    <3>4. landed[id][k] \in Nat /\ timeouts[id][k] \in Nat
      BY <1>2, <1>7
    <3> HIDE DEF id, k
    <3> QED BY <1>2, <1>3, <3>1, <3>2, <3>3, <3>4 DEF LoopPos
  <2> QED BY <1>8, <2>1, <2>2
<1> HIDE DEF id, k
<1>10. At(h)' = k
  BY <1>9 DEF At, k
<1>11. \A j \in Keys : Honest(j, mem[h].steps[j], landed'[id][j], timeouts[id][j])
  BY <1>2, <1>3, <1>9 DEF Honest
<1>12. ASSUME NEW i \in JournalIDs PROVE Ledger(i)'
  <2>1. Ledger(i)
    BY DEF Truthful
  <2>2. \A j \in Keys : /\ Honest(j, rows[i].steps[j], landed'[i][j], timeouts[i][j])
                        /\ landed'[i][j] <= 1 + timeouts[i][j]
    BY <1>4, <1>9, <2>1 DEF Ledger, Honest
  <2> QED BY <1>1, <2>1, <2>2 DEF Ledger
<1>13. ~pos'[h].failed => OnCourse(h)'
  BY <1>1, <1>3, <1>9 DEF OnCourse
<1>14. AtCall(h)'
  BY <1>1, <1>3, <1>9, <1>10 DEF AtCall, id
<1>15. Course(h)'
  <2>1. pc'[h] \in RunningPCs
    BY <1>1 DEF RunningPCs
  <2>2. /\ \A j \in Keys : Honest(j, mem'[h].steps[j], landed'[mem'[h].id][j], timeouts'[mem'[h].id][j])
        /\ \A r \in rows'[mem'[h].id].recorded, i \in 1..NSteps : Finished(mem'[h].steps[<<r, i>>])
    BY <1>1, <1>3, <1>11 DEF id
  <2> QED BY <1>13, <1>14, <2>1, <2>2 DEF Course
<1> QED BY <1>1, <1>5, <1>6, <1>12, <1>15, OneMoves

\* What can come back, and what is made of it.
LEMMA OutcomeIsHonest ==
  ASSUME NEW k \in Keys, NEW acted \in BOOLEAN, NEW again \in BOOLEAN,
         NEW o \in Outcomes(k, acted), NEW l \in Nat, NEW t \in Nat, NEW u \in Nat,
         IF acted THEN l > 0 ELSE l <= t, l <= 1 + t,
         u = IF o = "timeout" THEN t + 1 ELSE t
  PROVE  LET st == StateAfter(k, o, again)
             r  == ReplyAfter(st, o)
         IN  /\ st = "done" => l > 0
             /\ st \in {"none", "failed", "retryable_timeout"} => l <= u
             /\ r = "keyless" => k[2] = 1
             /\ o \in Usable => st = "done" /\ r \in Usable
<1>1. o \in {"timeout", "lost", "good", "rejected", "unusable", "keyless", "product"}
  BY DEF Outcomes
<1>2. CASE o \in {"timeout", "lost"}
  BY <1>2 DEF StateAfter, ReplyAfter, Usable
<1>3. CASE o = "good"
  BY <1>3 DEF StateAfter, ReplyAfter, Usable, Outcomes
<1>4. CASE o = "keyless"
  BY <1>4 DEF StateAfter, ReplyAfter, Usable, Outcomes
<1>5. CASE o = "unusable"
  BY <1>5 DEF StateAfter, ReplyAfter, Usable, Outcomes
<1>6. CASE o \in {"rejected", "product"}
  <2>1. ~acted
    BY <1>6 DEF Outcomes
  <2> QED BY <1>6, <2>1 DEF StateAfter, ReplyAfter, Usable
<1> QED BY <1>1, <1>2, <1>3, <1>4, <1>5, <1>6

\* The answer is classified and saved.
LEMMA ReplyTruth ==
  ASSUME JournalInStep, Truthful, NEW h \in Handlers, Reply(h)
  PROVE  Truthful'
<1> DEFINE k == At(h)
           id == mem[h].id
           state(o) == StateAfter(k, o, pos[h].again)
           r(o) == ReplyAfter(state(o), o)
           m(o) == Answered(mem[h], k, state(o), r(o))
           lost == Answered(mem[h], k, "pending", "none")
<1>1. /\ pc[h] = "reply" /\ pc[h] \in RunningPCs /\ pc[h] # "idle"
      /\ UNCHANGED landed
  BY DEF Reply, RunningPCs
<1>2. /\ mem[h] \in Memory /\ id \in JournalIDs /\ Course(h) /\ TypeOK
      /\ k \in Keys /\ pos[h] \in LoopPos /\ pos[h].again \in BOOLEAN /\ pos[h].acted \in BOOLEAN
  BY <1>1, RunningHasJournal, AtIsKey DEF JournalInStep, Truthful, TypeOK, LoopPos
<1>3. /\ landed \in [JournalIDs -> [Keys -> Nat]] /\ timeouts \in [JournalIDs -> [Keys -> Nat]]
  BY <1>2 DEF TypeOK, ExternalOK
<1>4. /\ mem[h].steps[k].state = "pending"
      /\ IF pos[h].acted THEN landed[id][k] > 0 ELSE landed[id][k] <= timeouts[id][k]
      /\ \A j \in Keys : Honest(j, mem[h].steps[j], landed[id][j], timeouts[id][j])
      /\ \A q \in rows[id].recorded, i \in 1..NSteps : Finished(mem[h].steps[<<q, i>>])
      /\ ~pos[h].failed => OnCourse(h)
  BY <1>1, <1>2 DEF Course, AtCall
<1>5. landed[id][k] <= 1 + timeouts[id][k]
  BY <1>2 DEF Truthful, Ledger
<1>6. PICK o \in Outcomes(k, pos[h].acted) :
        /\ timeouts' = IF o = "timeout" THEN [timeouts EXCEPT ![id][k] = @ + 1] ELSE timeouts
        /\ \/ /\ SaveSucceeds(m(o))
              /\ \/ Proceed(h, m(o), o \in Usable)
                 \/ /\ Goto(h, "run") /\ mem' = [mem EXCEPT ![h] = m(o)]
                    /\ pos' = [pos EXCEPT ![h].again = TRUE, ![h].acted = FALSE]
           \/ SaveFails(m(o)) /\ Proceed(h, lost, FALSE)
  BY DEF Reply
<1>7. state(o) \in Attempted /\ r(o) \in Replies /\ (state(o) = "retryable_timeout" => IsUpload(k))
  BY <1>2, ClassificationType
<1>8. "pending" \in Attempted /\ "none" \in Replies /\ "pending" # "retryable_timeout"
  BY DEF Attempted, Replies
<1>9. Moves(h)
  BY GotoMoves, ProceedMoves DEF Reply, JournalInStep, TypeOK
<1>10. /\ timeouts' \in [JournalIDs -> [Keys -> Nat]]
       /\ timeouts'[id][k] = IF o = "timeout" THEN timeouts[id][k] + 1 ELSE timeouts[id][k]
       /\ \A i \in JournalIDs, j \in Keys : timeouts[i][j] <= timeouts'[i][j]
       /\ \A j \in Keys : timeouts[id][j] \in Nat /\ timeouts'[id][j] \in Nat /\ landed[id][j] \in Nat
  BY <1>2, <1>3, <1>6
<1>11. /\ state(o) = "done" => landed[id][k] > 0
       /\ state(o) \in {"none", "failed", "retryable_timeout"} => landed[id][k] <= timeouts'[id][k]
       /\ r(o) = "keyless" => k[2] = 1
       /\ o \in Usable => state(o) = "done" /\ r(o) \in Usable
  <2> DEFINE l == landed[id][k]
             t == timeouts[id][k]
             u == timeouts'[id][k]
             acted == pos[h].acted
             again == pos[h].again
  <2>1. /\ acted \in BOOLEAN /\ again \in BOOLEAN /\ o \in Outcomes(k, acted)
        /\ l \in Nat /\ t \in Nat /\ u \in Nat /\ l <= 1 + t
        /\ IF acted THEN l > 0 ELSE l <= t
        /\ u = IF o = "timeout" THEN t + 1 ELSE t
    BY <1>2, <1>4, <1>5, <1>6, <1>10
  <2> HIDE DEF l, t, u, acted, again, k
  <2>2. /\ StateAfter(k, o, again) = "done" => l > 0
        /\ StateAfter(k, o, again) \in {"none", "failed", "retryable_timeout"} => l <= u
        /\ ReplyAfter(StateAfter(k, o, again), o) = "keyless" => k[2] = 1
        /\ o \in Usable => /\ StateAfter(k, o, again) = "done"
                           /\ ReplyAfter(StateAfter(k, o, again), o) \in Usable
    BY <1>2, <2>1, OutcomeIsHonest
  <2> QED BY <2>2 DEF l, u, again
<1>12. At(h) = <<pos[h].m, pos[h].i>> /\ pos[h].m \in Markets /\ pos[h].i \in 1..NSteps
  BY <1>2 DEF At, LoopPos
<1> HIDE DEF state, r
<1>13. /\ m(o) \in Memory /\ m(o).id = id
       /\ m(o).steps[k].state = state(o) /\ m(o).steps[k].reply = r(o)
       /\ \A j \in Keys \ {k} : m(o).steps[j] = mem[h].steps[j]
  BY <1>2, <1>7, AnsweredType, AnsweredStep
<1>14. /\ lost \in Memory /\ lost.id = id
       /\ lost.steps[k].state = "pending" /\ lost.steps[k].reply = "none"
       /\ \A j \in Keys \ {k} : lost.steps[j] = mem[h].steps[j]
  BY <1>2, <1>8, AnsweredType, AnsweredStep
<1> HIDE DEF m, lost
<1>15. \A q \in rows[id].recorded, i \in 1..NSteps :
         Finished(mem[h].steps[<<q, i>>]) /\ <<q, i>> \in Keys \ {k}
  <2>1. \A q \in rows[id].recorded, i \in 1..NSteps : <<q, i>> # k
    BY <1>1, <1>4, UnfinishedIsUnrecorded
  <2>2. rows[id].recorded \subseteq Markets
    BY <1>2 DEF TypeOK, DatabaseOK, Row
  <2> QED BY <1>4, <2>1, <2>2 DEF Keys
<1> HIDE DEF k, id
<1>16. \A j \in Keys : Honest(j, mem[h].steps[j], landed[id][j], timeouts'[id][j])
  BY <1>2, <1>4, <1>10, HonestLater
<1>17. /\ \A j \in Keys : Honest(j, m(o).steps[j], landed[id][j], timeouts'[id][j])
       /\ \A q \in rows[id].recorded, i \in 1..NSteps : Finished(m(o).steps[<<q, i>>])
  <2>1. Honest(k, m(o).steps[k], landed[id][k], timeouts'[id][k])
    BY <1>11, <1>13 DEF Honest
  <2> QED BY <1>13, <1>15, <1>16, <2>1
<1>18. /\ \A j \in Keys : Honest(j, lost.steps[j], landed[id][j], timeouts'[id][j])
       /\ \A q \in rows[id].recorded, i \in 1..NSteps : Finished(lost.steps[<<q, i>>])
  <2>1. Honest(k, lost.steps[k], landed[id][k], timeouts'[id][k])
    BY <1>14 DEF Honest
  <2> QED BY <1>14, <1>15, <1>16, <2>1
<1>19. rows' \in {rows, Written(m(o))}
  BY <1>6 DEF SaveSucceeds, SaveFails
<1>20. \A i \in JournalIDs : Ledger(i)'
  BY <1>1, <1>2, <1>10, <1>13, <1>17, <1>19, SaveTruth
<1>21. rows'[id].recorded = rows[id].recorded
  BY <1>2, <1>13, <1>19, SavedFields
<1>22. ~pos[h].failed =>
         /\ \A i \in 1..NSteps : i < pos[h].i => Served(m(o).steps[<<pos[h].m, i>>])
         /\ pos[h].i > Products => m(o).steps[<<pos[h].m, 1>>].reply = "good"
  <2> SUFFICES ASSUME ~pos[h].failed
               PROVE  /\ \A i \in 1..NSteps : i < pos[h].i => Served(m(o).steps[<<pos[h].m, i>>])
                      /\ pos[h].i > Products => m(o).steps[<<pos[h].m, 1>>].reply = "good"
    OBVIOUS
  <2>1. OnCourse(h)
    BY <1>4
  <2>2. \A i \in 1..NSteps : i # pos[h].i => m(o).steps[<<pos[h].m, i>>] = mem[h].steps[<<pos[h].m, i>>]
    BY <1>12, <1>13 DEF Keys, k
  <2>3. \A i \in 1..NSteps : i < pos[h].i => Served(m(o).steps[<<pos[h].m, i>>])
    BY <1>12, <2>1, <2>2, PlanShape DEF OnCourse
  <2>4. pos[h].i > Products => m(o).steps[<<pos[h].m, 1>>].reply = "good"
    BY <1>12, <2>1, <2>2, PlanAssumption, PlanShape DEF OnCourse
  <2> QED BY <2>3, <2>4
<1>23. SaveSucceeds(m(o)) => rows'[id].steps = m(o).steps
  BY <1>2, <1>13, WrittenFields DEF TypeOK, DatabaseOK, SaveSucceeds
<1>24. CASE SaveSucceeds(m(o)) /\ Proceed(h, m(o), o \in Usable)
  <2> DEFINE ok == o \in Usable
  <2>1. ok /\ ~pos[h].failed =>
          /\ m(o).steps = rows'[id].steps
          /\ \A i \in 1..NSteps : i <= pos[h].i => Served(m(o).steps[<<pos[h].m, i>>])
          /\ pos[h].i > Products => m(o).steps[<<pos[h].m, 1>>].reply = "good"
    <3> SUFFICES ASSUME ok, ~pos[h].failed
                 PROVE  \A i \in 1..NSteps : i <= pos[h].i => Served(m(o).steps[<<pos[h].m, i>>])
      BY <1>22, <1>23, <1>24
    <3>1. Served(m(o).steps[At(h)])
      BY <1>11, <1>13 DEF Served, k
    <3> QED BY <1>2, <1>22, <3>1, ServedSoFar
  <2>2. ok \in BOOLEAN /\ Proceed(h, m(o), ok)
    BY <1>24
  <2> HIDE DEF ok
  <2>3. Course(h)' /\ \A g \in Handlers \ {h} : pos'[g] = pos[g]
    BY <1>1, <1>13, <1>17, <1>21, <2>1, <2>2, ProceedTruth DEF id
  <2> QED BY <1>1, <1>9, <1>20, <2>3, OneMoves
<1>25. CASE SaveFails(m(o)) /\ Proceed(h, lost, FALSE)
  <2>1. Course(h)' /\ \A g \in Handlers \ {h} : pos'[g] = pos[g]
    BY <1>1, <1>14, <1>18, <1>21, <1>25, FailsTruth DEF id
  <2> QED BY <1>1, <1>9, <1>20, <2>1, OneMoves
<1>26. CASE /\ SaveSucceeds(m(o))
            /\ Goto(h, "run") /\ mem' = [mem EXCEPT ![h] = m(o)]
            /\ pos' = [pos EXCEPT ![h].again = TRUE, ![h].acted = FALSE]
  <2>1. pc'[h] = "run" /\ mem'[h] = m(o)
        /\ pos'[h] = [pos[h] EXCEPT !.again = TRUE, !.acted = FALSE]
        /\ \A g \in Handlers \ {h} : pos'[g] = pos[g]
    BY <1>26 DEF Goto, JournalInStep, TypeOK, RequestsOK
  <2>2. /\ pos'[h].m = pos[h].m /\ pos'[h].i = pos[h].i /\ pos'[h].failed = pos[h].failed
        /\ ~pos'[h].acted
    BY <1>2, <2>1 DEF LoopPos
  <2>3. ~pos'[h].failed => OnCourse(h)'
    BY <1>13, <1>22, <1>23, <1>26, <2>1, <2>2 DEF OnCourse
  <2>4. Course(h)'
    BY <1>1, <1>13, <1>17, <1>21, <2>1, <2>2, <2>3 DEF Course, AtCall, RunningPCs
  <2> QED BY <1>1, <1>9, <1>20, <2>1, <2>4, OneMoves
<1> QED BY <1>6, <1>24, <1>25, <1>26

-----------------------------------------------------------------------------
(* Recording, starting a journal, and what happens beside.                 *)

\* A market that is recorded has been served in full, by good answers.
LEMMA WholeMarket ==
  ASSUME JournalInStep, Truthful, NEW h \in Handlers, pc[h] = "record"
  PROVE  /\ OnCourse(h)
         /\ \A i \in 1..NSteps : Finished(rows[mem[h].id].steps[<<pos[h].m, i>>])
<1>1. /\ pc[h] \in RunningPCs /\ Course(h) /\ pos[h] \in LoopPos
      /\ \A id \in JournalIDs : Ledger(id)
  BY RunningHasJournal DEF RunningPCs, JournalInStep, Truthful
<1>2. /\ OnCourse(h) /\ pos[h].i = NSteps /\ Served(mem[h].steps[At(h)])
      /\ \A k \in Keys : Honest(k, mem[h].steps[k], landed[mem[h].id][k], timeouts[mem[h].id][k])
  BY <1>1 DEF Course, AtCall
<1>3. pos[h].m \in Markets /\ NSteps > Products /\ NSteps \in Nat /\ Products \in Nat
  BY <1>1, PlanShape, PlanAssumption DEF LoopPos, NSteps, QuoteSteps
<1>4. \A i \in 1..NSteps : Served(mem[h].steps[<<pos[h].m, i>>])
  <2>1. \A i \in 1..NSteps : i < pos[h].i => Served(mem[h].steps[<<pos[h].m, i>>])
    BY <1>2 DEF OnCourse
  <2> QED BY <1>1, <1>2, <1>3, <2>1, ServedSoFar
<1>5. mem[h].steps[<<pos[h].m, 1>>].reply = "good"
  BY <1>2, <1>3 DEF OnCourse
<1>6. ASSUME NEW i \in 1..NSteps PROVE Finished(mem[h].steps[<<pos[h].m, i>>])
  <2>1. <<pos[h].m, i>> \in Keys
    BY <1>3 DEF Keys
  <2>2. mem[h].steps[<<pos[h].m, i>>].reply = "keyless" => i = 1
    BY <1>2, <2>1 DEF Honest
  <2> QED BY <1>4, <1>5, <2>2 DEF Served, Finished, Usable
<1>7. mem[h].steps = rows[mem[h].id].steps
  BY <1>2 DEF OnCourse
<1> QED BY <1>2, <1>6, <1>7

\* The record transaction touches no step.
LEMMA CommitSteps ==
  ASSUME TypeOK, NEW h \in Handlers, mem[h].id \in JournalIDs, RecordCommits(h),
         NEW id \in JournalIDs
  PROVE  rows'[id].steps = rows[id].steps
<1>1. rows \in [JournalIDs -> Row]
  BY DEF TypeOK, DatabaseOK
<1>2. ASSUME NEW s, rows' = [rows EXCEPT ![mem[h].id].recorded = @ \cup {pos[h].m},
                                         ![mem[h].id].status = s]
      PROVE  rows'[id].steps = rows[id].steps
  BY <1>1, <1>2 DEF Row
<1> QED BY <1>2 DEF RecordCommits

\* Recording the market that was just finished.
LEMMA RecordTruth ==
  ASSUME JournalInStep, Truthful, NEW h \in Handlers, Record(h)
  PROVE  Truthful'
<1>1. /\ pc[h] = "record" /\ pc[h] \in RunningPCs /\ pc[h] # "idle"
      /\ UNCHANGED <<landed, timeouts>>
  BY DEF Record, RunningPCs, external
<1>2. mem[h].id \in JournalIDs /\ mem[h] \in Memory /\ TypeOK /\ Course(h) /\ pos[h] \in LoopPos
  BY <1>1, RunningHasJournal DEF JournalInStep, Truthful
<1>3. Moves(h)
  BY GotoMoves DEF Record, Moves, JournalInStep, TypeOK
<1>4. /\ OnCourse(h)
      /\ \A i \in 1..NSteps : Finished(rows[mem[h].id].steps[<<pos[h].m, i>>])
  BY <1>1, WholeMarket
<1>5. \A id \in JournalIDs :
        /\ rows'[id].steps = rows[id].steps
        /\ \/ rows'[id].recorded = rows[id].recorded
           \/ /\ id = mem[h].id
              /\ rows'[id].recorded = rows[id].recorded \cup {pos[h].m}
  <2>1. CASE RecordCommits(h)
    BY <1>1, <1>2, <2>1, CommitRows, CommitSteps
  <2>2. CASE rows' = rows
    BY <2>2
  <2> QED BY <2>1, <2>2 DEF Record
<1>6. ASSUME NEW id \in JournalIDs PROVE Ledger(id)'
  <2>1. Ledger(id)
    BY DEF Truthful
  <2>2. ASSUME NEW m \in rows'[id].recorded, NEW i \in 1..NSteps
        PROVE  Finished(rows'[id].steps[<<m, i>>])
    <3>1. rows'[id].steps = rows[id].steps
      BY <1>5
    <3>2. m \in rows[id].recorded \/ (id = mem[h].id /\ m = pos[h].m)
      BY <1>5, <2>2
    <3> QED BY <1>4, <2>1, <3>1, <3>2 DEF Ledger
  <2> QED BY <1>1, <1>5, <2>1, <2>2 DEF Ledger
<1>7. CASE Finish(h)
  <2>1. Course(h)' /\ \A g \in Handlers \ {h} : pos'[g] = pos[g]
    BY <1>7, OthersKeepPos DEF Course, RunningPCs
  <2> QED BY <1>1, <1>3, <1>6, <2>1, OneMoves
<1>8. CASE /\ pos[h].m < NMarkets
           /\ Goto(h, "run")
           /\ pos' = [pos EXCEPT ![h] = [AtStart EXCEPT !.m = pos[h].m + 1]]
           /\ UNCHANGED <<lock, req, seen, mem, gone>>
  <2>1. /\ pc'[h] = "run" /\ mem'[h] = mem[h] /\ pos'[h] = [AtStart EXCEPT !.m = pos[h].m + 1]
        /\ \A g \in Handlers \ {h} : pos'[g] = pos[g]
    BY <1>8 DEF Goto, JournalInStep, TypeOK, RequestsOK
  <2>2. pos'[h].i = 1 /\ ~pos'[h].acted
    BY <2>1 DEF AtStart
  <2>3. mem[h].steps = rows'[mem[h].id].steps
    BY <1>2, <1>4, <1>5 DEF OnCourse
  <2>4. OnCourse(h)'
    BY <2>1, <2>2, <2>3, FirstHasNone DEF OnCourse
  <2>5. \A m \in rows'[mem[h].id].recorded, i \in 1..NSteps : Finished(mem[h].steps[<<m, i>>])
    BY <1>2, <1>6, <2>3 DEF Ledger
  <2>6. Course(h)'
    BY <1>1, <1>2, <2>1, <2>2, <2>4, <2>5 DEF Course, AtCall, RunningPCs
  <2> QED BY <1>1, <1>3, <1>6, <2>1, <2>6, OneMoves
<1> QED BY <1>7, <1>8 DEF Record

\* A new journal is blank, and PrintIQ has heard nothing of it.
LEMMA CreateJournalTruth ==
  ASSUME JournalInStep, Truthful, NEW h \in Handlers, CreateJournal(h)
  PROVE  Truthful'
<1>1. /\ pc[h] # "idle" /\ pc[h] \notin RunningPCs /\ Moves(h)
      /\ UNCHANGED <<landed, timeouts>> /\ TypeOK
  BY GotoMoves DEF CreateJournal, Moves, RunningPCs, JournalInStep, TypeOK, external
<1>2. pos[h] = AtStart
  BY <1>1 DEF Truthful, Course
<1>3. CASE rows' = rows /\ Finish(h)
  <2>1. pos'[h] = AtStart /\ pc'[h] \notin RunningPCs /\ \A g \in Handlers \ {h} : pos'[g] = pos[g]
    BY <1>3, OthersKeepPos DEF RunningPCs
  <2>2. \A g \in Handlers : StaysOn(g)
    BY <1>1, <2>1, OthersRest DEF StaysOn
  <2> QED BY <1>1, <1>3, <2>2, QuietTruth
<1>4. ASSUME NEW id \in JournalIDs, rows[id].status = "absent",
             rows' = [rows EXCEPT ![id] = [EmptyRow EXCEPT
                        !.status = "active", !.inputs = seen[h].inputs,
                        !.test = req[h].test]],
             \/ Finish(h)
             \/ /\ mem' = [mem EXCEPT ![h] = [NoJournal EXCEPT !.id = id]]
                /\ Goto(h, "run") /\ UNCHANGED pos
      PROVE  Truthful'
  <2>1. /\ rows'[id].steps = EmptyRow.steps /\ rows'[id].recorded = {}
        /\ \A i \in JournalIDs \ {id} : rows'[i] = rows[i]
    BY <1>1, <1>4 DEF TypeOK, DatabaseOK, EmptyRow
  <2>2. \A k \in Keys : EmptyRow.steps[k].state = "none" /\ EmptyRow.steps[k].reply = "none"
    BY EmptyStepsType DEF EmptyRow, NoStep
  <2>3. \A k \in Keys : rows[id].steps[k].state = "none"
    BY <1>4 DEF JournalInStep, CallsMarked, AbsentIsBlank
  <2>4. Ledger(id)
    BY DEF Truthful
  <2>5. \A k \in Keys : /\ Honest(k, EmptyRow.steps[k], landed[id][k], timeouts[id][k])
                        /\ landed[id][k] <= 1 + timeouts[id][k]
    BY <2>2, <2>3, <2>4 DEF Ledger, Honest
  <2>6. \A i \in JournalIDs : Ledger(i)'
    BY <1>1, <2>1, <2>5 DEF Truthful, Ledger
  <2>7. CASE Finish(h)
    <3>1. Course(h)' /\ \A g \in Handlers \ {h} : pos'[g] = pos[g]
      BY <2>7, OthersKeepPos DEF Course, RunningPCs
    <3> QED BY <1>1, <2>6, <3>1, OneMoves
  <2>8. CASE /\ mem' = [mem EXCEPT ![h] = [NoJournal EXCEPT !.id = id]]
             /\ Goto(h, "run") /\ UNCHANGED pos
    <3>1. mem'[h].id = id /\ mem'[h].steps = EmptyRow.steps /\ pc'[h] = "run" /\ pos'[h] = AtStart
      BY <1>2, <2>8 DEF JournalInStep, TypeOK, RequestsOK, NoJournal, Goto
    <3>2. Enters(h)
      BY <2>1, <3>1 DEF Enters
    <3>3. Course(h)'
      BY <2>6, <3>2, EntersOnCourse
    <3> QED BY <1>1, <2>6, <2>8, <3>3, OneMoves
  <2> QED BY <1>4, <2>7, <2>8
<1> QED BY <1>3, <1>4 DEF CreateJournal

\* What a super admin settles is what PrintIQ did.
LEMMA ReconcileTruth ==
  ASSUME JournalInStep, Truthful, NEW id \in JournalIDs, NEW k \in Keys, Reconcile(id, k)
  PROVE  Truthful'
<1>1. /\ UNCHANGED <<pc, mem, pos, landed>> /\ TypeOK
      /\ \A h \in Handlers : pc[h] = "idle"
  BY NoneAssumption DEF JournalInStep, OneRequest, Reconcile, local
<1>2. \A h \in Handlers : Course(h)'
  BY <1>1 DEF Truthful, Course, RunningPCs
<1>3. /\ rows \in [JournalIDs -> Row] /\ rows[id] \in Row /\ rows[id].steps \in [Keys -> SavedStep]
      /\ timeouts \in [JournalIDs -> [Keys -> Nat]] /\ landed \in [JournalIDs -> [Keys -> Nat]]
  BY <1>1 DEF TypeOK, DatabaseOK, ExternalOK, Row, JournalSteps
<1>4. PICK st \in {"done", "failed"}, r \in {"good", "rejected"} :
        /\ rows' = [rows EXCEPT ![id] = Resolved(@, k, st, r)]
        /\ IF st = "done" THEN landed[id][k] > 0 /\ UNCHANGED timeouts
                          ELSE landed[id][k] = 0 /\ timeouts' = [timeouts EXCEPT ![id][k] = 0]
  BY DEF Reconcile
<1>5. rows[id].steps[k].state \in {"pending", "failed"}
  BY DEF Reconcile, Unsettled
<1>6. /\ rows'[id].recorded = rows[id].recorded
      /\ rows'[id].steps[k].state = st /\ rows'[id].steps[k].reply = r
      /\ \A j \in Keys \ {k} : rows'[id].steps[j] = rows[id].steps[j]
  <2>1. rows'[id] = Resolved(rows[id], k, st, r)
    BY <1>3, <1>4
  <2>2. rows[id].steps[k] \in SavedStep
    BY <1>3
  <2> QED BY <1>3, <2>1, <2>2 DEF Resolved, Row, SavedStep
<1>7. \A i \in JournalIDs : Ledger(i)
  BY DEF Truthful
<1>8. \A i \in JournalIDs, j \in Keys :
        ~(i = id /\ j = k) => timeouts'[i][j] = timeouts[i][j]
  BY <1>3, <1>4
<1>9. timeouts'[id][k] \in Nat /\ landed[id][k] \in Nat /\ landed[id][k] <= 1 + timeouts'[id][k]
      /\ Honest(k, rows'[id].steps[k], landed[id][k], timeouts'[id][k])
  <2>1. landed[id][k] \in Nat /\ timeouts[id][k] \in Nat /\ landed[id][k] <= 1 + timeouts[id][k]
    BY <1>3, <1>7 DEF Ledger
  <2>2. CASE st = "done"
    BY <1>4, <1>6, <2>1, <2>2 DEF Honest
  <2>3. CASE st = "failed"
    <3>1. landed[id][k] = 0 /\ timeouts'[id][k] = 0
      BY <1>3, <1>4, <2>3
    <3> QED BY <1>6, <2>1, <2>3, <3>1 DEF Honest
  <2> QED BY <2>2, <2>3
<1>10. \A m \in rows[id].recorded, i \in 1..NSteps : Finished(rows'[id].steps[<<m, i>>])
  <2> SUFFICES ASSUME NEW m \in rows[id].recorded, NEW i \in 1..NSteps
               PROVE  Finished(rows'[id].steps[<<m, i>>])
    OBVIOUS
  <2>1. Finished(rows[id].steps[<<m, i>>]) /\ m \in Markets
    BY <1>3, <1>7 DEF Ledger, Row
  <2>2. <<m, i>> \in Keys \ {k}
    BY <1>5, <2>1 DEF Finished, Keys
  <2> QED BY <1>6, <2>1, <2>2
<1>11. Ledger(id)'
  BY <1>1, <1>6, <1>7, <1>8, <1>9, <1>10 DEF Ledger
<1>12. \A i \in JournalIDs \ {id} : Ledger(i)'
  <2>1. \A i \in JournalIDs \ {id} : rows'[i] = rows[i]
    BY <1>3, <1>4
  <2> QED BY <1>1, <1>7, <1>8, <2>1 DEF Ledger
<1> QED BY <1>2, <1>11, <1>12 DEF Truthful

\* Nothing else beside a submission touches its journal.
LEMMA BesideTruth ==
  ASSUME JournalInStep, Truthful, Beside
  PROVE  Truthful'
<1>1. ASSUME NEW h \in Handlers, Crash(h)
      PROVE  Truthful'
  <2>1. /\ pc[h] # "idle" /\ Moves(h) /\ pos'[h] = AtStart /\ pc'[h] \notin RunningPCs
        /\ \A g \in Handlers \ {h} : pos'[g] = pos[g]
        /\ UNCHANGED <<rows, landed, timeouts>>
    BY <1>1, OthersKeepPos DEF Crash, Moves, RunningPCs, external
  <2>2. \A g \in Handlers : StaysOn(g)
    BY <2>1, OthersRest DEF StaysOn
  <2> QED BY <2>1, <2>2, QuietTruth
<1>2. ASSUME UNCHANGED <<pc, mem, pos, rows, landed, timeouts>>
      PROVE  Truthful'
  <2>1. \A g \in Handlers : StaysOn(g)
    BY <1>2 DEF StaysOn, Truthful, Course
  <2> QED BY <1>2, <2>1, QuietTruth
<1>3. ASSUME NEW id \in JournalIDs, NEW k \in Keys, Reconcile(id, k)
      PROVE  Truthful'
  BY <1>3, ReconcileTruth
<1> QED BY <1>1, <1>2, <1>3
    DEF Beside, Edit, Append, Calculate, EditLockEnds, MarkSubmitted, ResetStatus, Disconnect,
        DropLock, Deploy, external, local

-----------------------------------------------------------------------------
(* The theorems.                                                           *)

\* At first nothing is said of PrintIQ, and nothing is recorded.
LEMMA InitTruth == Init => Truthful
<1> SUFFICES ASSUME Init PROVE Truthful
  OBVIOUS
<1>1. ASSUME NEW id \in JournalIDs PROVE Ledger(id)
  <2>1. rows[id] = EmptyRow /\ \A k \in Keys : landed[id][k] = 0 /\ timeouts[id][k] = 0
    BY DEF Init
  <2>2. \A k \in Keys : EmptyRow.steps[k].state = "none" /\ EmptyRow.steps[k].reply = "none"
    BY EmptyStepsType DEF EmptyRow, NoStep
  <2>3. EmptyRow.recorded = {}
    BY DEF EmptyRow
  <2> QED BY <2>1, <2>2, <2>3 DEF Ledger, Honest
<1>2. \A h \in Handlers : Course(h)
  BY DEF Init, Course, RunningPCs
<1> QED BY <1>1, <1>2 DEF Truthful

\* One step of the system keeps the journals truthful.
LEMMA NextTruth ==
  ASSUME JournalInStep, Truthful, [Next]_vars
  PROVE  Truthful'
<1>1. ASSUME NEW h \in Handlers, Advance(h)
      PROVE  Truthful'
  BY <1>1, SetupTruth, LoadJournalTruth, CreateJournalTruth, AnswerFromJournalTruth,
     MarkPendingTruth, RetrySaveFailsTruth, SendTruth, ReplyTruth, RecordTruth DEF Advance
<1>2. ASSUME UNCHANGED vars
      PROVE  Truthful'
  <2>1. \A g \in Handlers : StaysOn(g)
    BY <1>2 DEF StaysOn, Truthful, Course, vars, local
  <2> QED BY <1>2, <2>1, QuietTruth DEF vars, external
<1> QED BY <1>1, <1>2, BeginTruth, BesideTruth DEF Next

\* What the journals say of PrintIQ stays true.
LEMMA StaysTruthful == MaxDrops = 0 /\ Spec => []Truthful
<1>1. JournalInStep /\ Truthful /\ [Next]_vars => Truthful'
  BY NextTruth
<1> QED BY <1>1, InitTruth, StaysInStep, PTL DEF Spec

\* A market is recorded only when every call of it, attachments included, was
\* answered with success, and PrintIQ acted on each, however often the
\* submission was interrupted, saved in part, resumed or reconciled.
THEOREM RecordedIsDone == MaxDrops = 0 /\ Spec => []RecordedIsFinished
<1>1. JournalInStep /\ Truthful => RecordedIsFinished
  <2> SUFFICES ASSUME JournalInStep, Truthful, NEW id \in JournalIDs,
                      NEW m \in rows[id].recorded, NEW i \in 1..NSteps
               PROVE  /\ rows[id].steps[<<m, i>>].state = "done"
                      /\ rows[id].steps[<<m, i>>].reply = "good"
                      /\ landed[id][<<m, i>>] > 0
    BY DEF RecordedIsFinished
  <2>1. Finished(rows[id].steps[<<m, i>>]) /\ m \in Markets
    BY DEF Truthful, Ledger, JournalInStep, TypeOK, DatabaseOK, Row
  <2>2. <<m, i>> \in Keys
    BY <2>1 DEF Keys
  <2>3. Honest(<<m, i>>, rows[id].steps[<<m, i>>], landed[id][<<m, i>>], timeouts[id][<<m, i>>])
    BY <2>2 DEF Truthful, Ledger
  <2> QED BY <2>1, <2>3 DEF Finished, Honest
<1> QED BY <1>1, StaysInStep, StaysTruthful, PTL

\* PrintIQ acts on an attachment more often than once only as often as it
\* answered with an explicit timeout since a super admin found it missing.
THEOREM DuplicatesAreTimeouts == MaxDrops = 0 /\ Spec => []DuplicatesOnlyAfterTimeouts
<1>1. Truthful => DuplicatesOnlyAfterTimeouts
  BY DEF Truthful, Ledger, DuplicatesOnlyAfterTimeouts
<1> QED BY <1>1, StaysTruthful, PTL
=============================================================================
