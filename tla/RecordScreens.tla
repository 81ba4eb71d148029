---------------------------- MODULE RecordScreens ---------------------------
(***************************************************************************)
(* The settings screens that keep a list of records with a dialog to add   *)
(* and edit one: the quantity mappings, the users, the tenants and the     *)
(* delivery addresses.  None of them reads its list again after a change:  *)
(* each puts the answer of the change into the list it shows, whatever the *)
(* list has become since the change was asked for.  Only the import of     *)
(* mappings reads the whole list.                                          *)
(*                                                                         *)
(* A record has an id and the number of the change that wrote it (n); the  *)
(* id of an address is its text, so that editing one makes another id.     *)
(***************************************************************************)
EXTENDS Naturals, Sequences, SequencesExt

CONSTANTS
  Owners,       \* the tenants
  First,        \* the tenant of the session
  NoRecord,     \* no record is being edited
  MaxChanges,   \* bound: records written
  MaxFailures,  \* bound: calls that fail
  MaxSwitches   \* bound: changes of tenant

VARIABLES
  page,         \* the screen that is open
  owner,        \* selectedTenantId
  list,         \* the records it shows
  loaded,       \* has a load been answered: the markets are known
  busy,         \* the loading flag
  tenantsCall,  \* the call for the tenants is out
  reading,      \* the load of the list
  superseded,   \* tenants whose superseded load is out
  form,         \* the dialog: is it open, and the record it edits
  change,       \* the save under way
  removal,      \* the deletion under way
  import,       \* the import under way
  table,        \* the database: the records of every tenant
  writes,      \* records written so far
  failures, switches,
  adrift        \* history: the list missed a change, or took one not its own

recordVars == <<page, owner, list, loaded, busy, tenantsCall, reading, superseded, form,
                change, removal, import, table, writes, failures, switches, adrift>>

\* The tenant of the session is one of the tenants, and what stands for no record
\* is no id.
RecordAssumption == First \in Owners /\ NoRecord \notin Owners \X Nat

RecordPages == {"mappings", "users", "tenants", "addresses"}
NoCall == [at |-> "no"]
Closed == [open |-> FALSE]
NoRead == [at |-> "no", data |-> {}]

\* The tenants are one list for all.
Scope(o) == IF page = "tenants" THEN First ELSE o
IdsOf(o) == {r.id : r \in table[o]}

RecordInit ==
  /\ page \in RecordPages
  /\ owner = First
  /\ list = <<>>
  /\ loaded = FALSE
  /\ busy = TRUE
  /\ tenantsCall = (page \in {"mappings", "addresses"})
  /\ reading = [at |-> "sent", data |-> {}]
  /\ superseded = {}
  /\ form = Closed
  /\ change = NoCall /\ removal = NoCall /\ import = NoCall
  /\ table = [o \in Owners |-> {[id |-> <<o, 0>>, n |-> 0]}]
  /\ writes = 0 /\ failures = 0 /\ switches = 0
  /\ adrift = FALSE

-----------------------------------------------------------------------------
(* Loading. *)

\* The call for the tenants shares the loading flag with the list's load on
\* the screens of the mappings and of the addresses.
TenantsArrive ==
  /\ tenantsCall
  /\ tenantsCall' = FALSE
  /\ busy' = FALSE
  /\ UNCHANGED <<page, owner, list, loaded, reading, superseded, form, change, removal, import,
                 table, writes, failures, switches, adrift>>

ListRead ==
  /\ reading.at = "sent"
  /\ reading' = [at |-> "read", data |-> table[Scope(owner)]]
  /\ UNCHANGED <<page, owner, list, loaded, busy, tenantsCall, superseded, form, change, removal,
                 import, table, writes, failures, switches, adrift>>

Served(c) == c.at \in {"served", "replacing", "renamed"} /\ c.owner = Scope(owner)

\* The list becomes what was read, older than the table perhaps; a creation
\* that the read has seen and that is answered later is added a second time.
ListLoaded ==
  /\ reading.at = "read"
  /\ list' = SetToSeq(reading.data)
  /\ loaded' = TRUE
  /\ reading' = NoRead
  /\ busy' = FALSE
  /\ adrift' = (reading.data # table[Scope(owner)] \/ Served(change))
  /\ UNCHANGED <<page, owner, tenantsCall, superseded, form, change, removal, import,
                 table, writes, failures, switches>>

LoadMappings == page = "mappings" /\ ListLoaded
LoadUsers == page = "users" /\ ListLoaded
LoadTenants == page = "tenants" /\ ListLoaded
LoadAddresses == page = "addresses" /\ ListLoaded

\* The list stays what it was: another tenant's after a change of tenant.
ListFails ==
  /\ reading.at \in {"sent", "read"}
  /\ failures < MaxFailures
  /\ failures' = failures + 1
  /\ reading' = NoRead
  /\ busy' = FALSE
  /\ adrift' = TRUE
  /\ UNCHANGED <<page, owner, list, loaded, tenantsCall, superseded, form, change, removal, import,
                 table, writes, switches>>

SupersededAnswers(o) ==
  /\ o \in superseded
  /\ superseded' = superseded \ {o}
  /\ UNCHANGED <<page, owner, list, loaded, busy, tenantsCall, reading, form, change, removal,
                 import, table, writes, failures, switches, adrift>>

\* Nothing modal is open: a dialog, the import's while it runs, or the one in
\* which a user or a tenant is being deleted.
InReach ==
  /\ ~form.open
  /\ import = NoCall
  /\ removal # NoCall => page \in {"mappings", "addresses"}

SwitchTenant(o) ==
  /\ page # "tenants"
  /\ InReach /\ ~tenantsCall
  /\ o # owner
  /\ switches < MaxSwitches
  /\ switches' = switches + 1
  /\ owner' = o
  /\ reading' = [at |-> "sent", data |-> {}]
  /\ superseded' = IF reading.at = "no" THEN superseded ELSE superseded \cup {owner}
  /\ busy' = TRUE
  /\ UNCHANGED <<page, list, loaded, tenantsCall, form, change, removal, import, table, writes,
                 failures, adrift>>

-----------------------------------------------------------------------------
(* The dialog. *)

OpenForm(id) ==
  /\ InReach
  /\ form' = [open |-> TRUE, id |-> id]
  /\ UNCHANGED <<page, owner, list, loaded, busy, tenantsCall, reading, superseded, change, removal,
                 import, table, writes, failures, switches, adrift>>

\* Adding a mapping needs a market of the list, adding an address one that
\* was loaded.
OpenAddMappingDialog == page = "mappings" /\ list # <<>> /\ OpenForm(NoRecord)
OpenAddAddressDialog == page = "addresses" /\ loaded /\ OpenForm(NoRecord)
OpenCreateUserDialog == page = "users" /\ OpenForm(NoRecord)
OpenCreateTenantDialog == page = "tenants" /\ OpenForm(NoRecord)

\* The rows, and their buttons, are hidden while the list loads.
OpensRow == ~busy /\ \E i \in DOMAIN list : OpenForm(list[i].id)

OpenEditMappingDialog == page = "mappings" /\ OpensRow
OpenEditUserDialog == page = "users" /\ OpensRow
OpenEditTenantDialog == page = "tenants" /\ OpensRow
OpenEditAddressDialog == page = "addresses" /\ OpensRow

\* The dialog may be closed, and another one opened, while a save is out.
CloseForm ==
  /\ form.open
  /\ form' = Closed
  /\ UNCHANGED <<page, owner, list, loaded, busy, tenantsCall, reading, superseded, change, removal,
                 import, table, writes, failures, switches, adrift>>

-----------------------------------------------------------------------------
(* Saving. *)

\* One save at a time: the dialog's button is off while one is out.
Submits ==
  /\ form.open
  /\ change = NoCall
  /\ writes < MaxChanges
  /\ writes' = writes + 1
  /\ change' = [at |-> "sent", owner |-> Scope(owner), id |-> form.id, n |-> writes + 1]
  /\ UNCHANGED <<page, owner, list, loaded, busy, tenantsCall, reading, superseded, form, removal,
                 import, table, failures, switches, adrift>>

SubmitMapping == page = "mappings" /\ Submits
SubmitUser == page = "users" /\ Submits
SubmitTenant == page = "tenants" /\ Submits
SubmitAddress == page = "addresses" /\ Submits

\* The record that a save writes, and the tables after it.
NewId(c) == <<c.owner, c.n>>
RecordOf(c) == [id |-> IF c.id = NoRecord THEN NewId(c) ELSE c.id, n |-> c.n]
Without(o, id) == {r \in table[o] : r.id # id}

\* The service creates the record, or writes the one of that id it finds in
\* the tenant.
ServesRow(c, after) ==
  /\ c.id = NoRecord \/ c.id \in IdsOf(c.owner)
  /\ after = [table EXCEPT ![c.owner] = Without(c.owner, RecordOf(c).id) \cup {RecordOf(c)}]

HandleSubmit == /\ page = "mappings" /\ ServesRow(change, table')
HandleSaveTenant == /\ page = "tenants" /\ ServesRow(change, table')

\* A user is found by the id alone, and put under the tenant of the request.
HandleSaveUser ==
  /\ page = "users"
  /\ change.id = NoRecord \/ \E o \in Owners : change.id \in IdsOf(o)
  /\ table' = [o \in Owners |->
                 Without(o, RecordOf(change).id) \cup (IF o = change.owner THEN {RecordOf(change)} ELSE {})]

\* An address is saved under its text, which may be the text it had; the
\* address it replaces is deleted by a second request.
HandleSaveDeliveryAddress ==
  /\ page = "addresses"
  /\ \/ /\ change.id = NoRecord \/ change.id \in IdsOf(change.owner)
        /\ table' = [table EXCEPT ![change.owner] =
                       Without(change.owner, RecordOf(change).id) \cup {RecordOf(change)}]
        /\ change' = [change EXCEPT !.at = "served"]
     \/ /\ change.id # NoRecord
        /\ table' = [table EXCEPT ![change.owner] = @ \cup {[id |-> NewId(change), n |-> change.n]}]
        /\ change' = [change EXCEPT !.at = "replacing"]

\* A user whom another tenant had comes to one whose list does not show him, and
\* the answer will not add him.
ChangeServed ==
  /\ change.at = "sent"
  /\ \/ /\ HandleSubmit \/ HandleSaveTenant \/ HandleSaveUser
        /\ change' = [change EXCEPT !.at = "served"]
     \/ HandleSaveDeliveryAddress
  /\ adrift' = (adrift \/ (change.id # NoRecord /\ change.id \notin IdsOf(change.owner)))
  /\ UNCHANGED <<page, owner, list, loaded, busy, tenantsCall, reading, superseded, form, removal,
                 import, writes, failures, switches>>

OldAddressDeleted ==
  /\ change.at = "replacing"
  /\ change.id \in IdsOf(change.owner)
  /\ table' = [table EXCEPT ![change.owner] = Without(change.owner, change.id)]
  /\ change' = [change EXCEPT !.at = "renamed"]
  /\ UNCHANGED <<page, owner, list, loaded, busy, tenantsCall, reading, superseded, form, removal,
                 import, writes, failures, switches, adrift>>

\* The list with the answer of a save: a new record at the end, another one
\* in its place; a record that is no longer there is left out, but for an
\* address, which is added.
Replaced(old, new) == [i \in DOMAIN list |-> IF list[i].id = old THEN new ELSE list[i]]
Shows(id) == \E i \in DOMAIN list : list[i].id = id

WithMapping(c) ==
  IF c.id = NoRecord THEN Append(list, RecordOf(c)) ELSE Replaced(c.id, RecordOf(c))

\* Seeded defect: the address that was replaced stays in the list.
BugWithAddress(c) ==
  LET new == IF c.at = "renamed" THEN [id |-> NewId(c), n |-> c.n] ELSE RecordOf(c)
  IN IF Shows(new.id) THEN Replaced(new.id, new) ELSE Append(list, new)

WithAddress(c) ==
  LET new == IF c.at = "renamed" THEN [id |-> NewId(c), n |-> c.n] ELSE RecordOf(c)
  IN IF Shows(c.id) THEN Replaced(c.id, new)
     ELSE IF Shows(new.id) THEN Replaced(new.id, new)
     ELSE Append(list, new)

\* The answer goes into the list, of whatever tenant, and closes the dialog,
\* whichever it is.  An address deleted while it was saved is added again.
ChangeAnswered ==
  /\ change.at \in {"served", "renamed"}
  /\ list' = IF page = "addresses" THEN WithAddress(change) ELSE WithMapping(change)
  /\ form' = Closed
  /\ change' = NoCall
  /\ adrift' = \/ adrift
                \/ change.owner # Scope(owner)
                \/ (page = "addresses" /\ change.id # NoRecord /\ ~Shows(change.id))
  /\ UNCHANGED <<page, owner, loaded, busy, tenantsCall, reading, superseded, removal, import, table,
                 writes, failures, switches>>

\* The record is gone, the call fails or its answer is lost: the list stays,
\* though the database may have changed, by one request of two perhaps.
Refused(c) ==
  \/ c.at = "sent" /\ c.id # NoRecord /\ \A o \in Owners : c.id \notin IdsOf(o)
  \/ c.at \in {"sent", "replacing"} /\ c.id # NoRecord /\ c.id \notin IdsOf(c.owner)

ChangeFails ==
  /\ change # NoCall
  /\ \/ Refused(change) /\ UNCHANGED failures
     \/ failures < MaxFailures /\ failures' = failures + 1
  /\ change' = NoCall
  /\ adrift' = (adrift \/ change.at # "sent")
  /\ UNCHANGED <<page, owner, list, loaded, busy, tenantsCall, reading, superseded, form, removal,
                 import, table, writes, switches>>

-----------------------------------------------------------------------------
(* Deleting. *)

AsksRemoval(id) ==
  /\ InReach /\ ~busy
  /\ removal = NoCall
  /\ removal' = [at |-> "sent", owner |-> Scope(owner), id |-> id]
  /\ UNCHANGED <<page, owner, list, loaded, busy, tenantsCall, reading, superseded, form, change,
                 import, table, writes, failures, switches, adrift>>

HandleDelete == page = "mappings" /\ \E i \in DOMAIN list : AsksRemoval(list[i].id)
HandleConfirmDeleteUser == page = "users" /\ \E i \in DOMAIN list : AsksRemoval(list[i].id)
HandleConfirmDeleteTenant == page = "tenants" /\ \E i \in DOMAIN list : AsksRemoval(list[i].id)
HandleDeleteAddress == page = "addresses" /\ \E i \in DOMAIN list : AsksRemoval(list[i].id)

\* A user is deleted wherever he is, the others from the tenant selected.
RemovalServed ==
  /\ removal.at = "sent"
  /\ LET from == {o \in Owners : /\ removal.id \in IdsOf(o)
                                 /\ page # "users" => o = removal.owner}
     IN /\ from # {}
        /\ table' = [o \in Owners |-> IF o \in from THEN Without(o, removal.id) ELSE table[o]]
  /\ removal' = [removal EXCEPT !.at = "served"]
  /\ UNCHANGED <<page, owner, list, loaded, busy, tenantsCall, reading, superseded, form, change,
                 import, writes, failures, switches, adrift>>

\* The list without the record of that id.
ListWithout(id) ==
  LET kept[k \in 0 .. Len(list)] ==
        IF k = 0 THEN <<>>
        ELSE IF list[k].id # id THEN Append(kept[k - 1], list[k]) ELSE kept[k - 1]
  IN kept[Len(list)]

\* The record leaves the list.  A form opened in the meantime keeps it: the
\* handler compares with the record that was edited when it started, none.
RemovalAnswered ==
  /\ removal.at = "served"
  /\ list' = ListWithout(removal.id)
  /\ removal' = NoCall
  /\ adrift' = (adrift \/ removal.owner # Scope(owner))
  /\ UNCHANGED <<page, owner, loaded, busy, tenantsCall, reading, superseded, form, change, import,
                 table, writes, failures, switches>>

RemovalFails ==
  /\ removal # NoCall
  /\ \/ /\ removal.at = "sent"
        /\ \A o \in Owners : removal.id \in IdsOf(o) => page # "users" /\ o # removal.owner
        /\ UNCHANGED failures
     \/ failures < MaxFailures /\ failures' = failures + 1
  /\ removal' = NoCall
  /\ adrift' = (adrift \/ removal.at # "sent")
  /\ UNCHANGED <<page, owner, list, loaded, busy, tenantsCall, reading, superseded, form, change,
                 import, table, writes, switches>>

-----------------------------------------------------------------------------
(* The import of mappings. *)

\* The rows of the file are written: a record of the tenant or a new one.
HandleImport ==
  /\ page = "mappings"
  /\ InReach
  /\ writes < MaxChanges
  /\ writes' = writes + 1
  /\ \E id \in IdsOf(owner) \cup {NoRecord} :
       LET r == RecordOf([owner |-> owner, id |-> id, n |-> writes + 1])
       IN table' = [table EXCEPT ![owner] = Without(owner, r.id) \cup {r}]
  /\ import' = [at |-> "stored", data |-> {}]
  /\ UNCHANGED <<page, owner, list, loaded, busy, tenantsCall, reading, superseded, form, change,
                 removal, failures, switches, adrift>>

ImportReads ==
  /\ import.at = "stored"
  /\ import' = [at |-> "read", data |-> table[owner]]
  /\ UNCHANGED <<page, owner, list, loaded, busy, tenantsCall, reading, superseded, form, change,
                 removal, table, writes, failures, switches, adrift>>

\* The whole list is replaced.
ImportShown ==
  /\ import.at = "read"
  /\ list' = SetToSeq(import.data)
  /\ import' = NoCall
  /\ adrift' = (import.data # table[owner] \/ Served(change))
  /\ UNCHANGED <<page, owner, loaded, busy, tenantsCall, reading, superseded, form, change, removal,
                 table, writes, failures, switches>>

ImportFails ==
  /\ import # NoCall
  /\ failures < MaxFailures
  /\ failures' = failures + 1
  /\ import' = NoCall
  /\ adrift' = TRUE
  /\ UNCHANGED <<page, owner, list, loaded, busy, tenantsCall, reading, superseded, form, change,
                 removal, table, writes, switches>>

RecordNext ==
  \/ TenantsArrive \/ ListRead \/ ListFails
  \/ LoadMappings \/ LoadUsers \/ LoadTenants \/ LoadAddresses
  \/ \E o \in Owners : SupersededAnswers(o) \/ SwitchTenant(o)
  \/ OpenAddMappingDialog \/ OpenAddAddressDialog \/ OpenCreateUserDialog
  \/ OpenCreateTenantDialog \/ OpenEditMappingDialog \/ OpenEditUserDialog
  \/ OpenEditTenantDialog \/ OpenEditAddressDialog \/ CloseForm
  \/ SubmitMapping \/ SubmitUser \/ SubmitTenant \/ SubmitAddress
  \/ ChangeServed \/ OldAddressDeleted \/ ChangeAnswered \/ ChangeFails
  \/ HandleDelete \/ HandleConfirmDeleteUser \/ HandleConfirmDeleteTenant \/ HandleDeleteAddress
  \/ RemovalServed \/ RemovalAnswered \/ RemovalFails
  \/ HandleImport \/ ImportReads \/ ImportShown \/ ImportFails

RecordSpec == RecordInit /\ [][RecordNext]_recordVars

-----------------------------------------------------------------------------

\* Once everything is answered the list shows every record of the tenant
\* selected, as the database has it and once, unless an answer came in an
\* order, or under a tenant, that set the list adrift, or a user was moved to
\* a tenant from the list of another one.
ListIsTheTable ==
  LET quiet == reading.at = "no" /\ change = NoCall /\ removal = NoCall /\ import = NoCall
  IN quiet /\ ~adrift =>
       /\ ToSet(list) = table[Scope(owner)]
       /\ IsInjective(list)
=============================================================================
