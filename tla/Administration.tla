--------------------------- MODULE Administration ---------------------------
(***************************************************************************)
(* AdminService (src/admin/admin.service.ts) deciding a withdrawal and     *)
(* configuring a game type, by several requests at once.                   *)
(*                                                                         *)
(* Approval, rejection and update are one procedure: findOne, a check, an  *)
(* assignment of some columns to the row in memory, save, and an entry in  *)
(* audit_logs.  save of TypeORM is a select and an update of the columns   *)
(* that differ, and every query ends a step.  A creation inserts at once.  *)
(* An entry tells what was assigned: the action and the administrator for  *)
(* a withdrawal, the body of the request for a configuration, which a      *)
(* creation records in part only.                                          *)
(*                                                                         *)
(* Requests about different rows have nothing in common, and so the module *)
(* is about one row: a withdrawal, which no code creates or books in the   *)
(* ledger, or the configuration of one game type.                          *)
(***************************************************************************)
EXTENDS Naturals

CONSTANTS
  Request,      \* slots for requests being served
  Admin,        \* administrators
  ConfigColumn, \* columns of game_configs
  NewConfig,    \* the rows a creation may insert
  ConfigUpdate, \* the bodies of an update: values for some columns
  Unset         \* NULL; no row; no request

VARIABLES
  row,      \* the row, or Unset
  entries,  \* audit_logs: the assignments recorded for the row
  rpc,      \* step of each request
  change,   \* the columns it assigns
  will,     \* the row it has in memory
  was,      \* the row its save selected
  found,    \* history: the row its findOne returned
  mixed,    \* history: the row changed between the two queries of a save
  unlogged  \* history: a request failed between its save and its entry

adminVars == <<row, entries, rpc, change, will, was, found, mixed, unlogged>>

WithdrawalColumn == {"status", "rejectionReason", "approvedBy"}

ASSUME ColumnAssumption == ConfigColumn # WithdrawalColumn
ASSUME UpdateAssumption ==
  \A u \in ConfigUpdate : u = [k \in DOMAIN u |-> u[k]] /\ DOMAIN u \subseteq ConfigColumn
ASSUME NewAssumption ==
  \A c \in NewConfig : c = [k \in ConfigColumn |-> c[k]]

(* A withdrawal as it was requested.                                       *)
Requested ==
  [c \in WithdrawalColumn |-> IF c = "status" THEN "PENDING" ELSE Unset]

(* A property of a row in memory that save leaves alone, as it does every  *)
(* undefined one.                                                          *)
Undefined == "undefined"

(* The rows of the two tables, and of the first in memory.                 *)
WithdrawalValue == {"PENDING", "APPROVED", "REJECTED", "given", Unset} \cup Admin
WithdrawalRow == [WithdrawalColumn -> WithdrawalValue]
WithdrawalMemory == [WithdrawalColumn -> WithdrawalValue \cup {Undefined}]
ConfigRow ==
  [ConfigColumn -> UNION {{u[c] : c \in DOMAIN u} : u \in NewConfig \cup ConfigUpdate}]

ASSUME UnsetAssumption ==
  /\ Unset \notin WithdrawalMemory \cup ConfigRow
  /\ Unset \notin {"given", Undefined}
  /\ {"PENDING", Undefined} \cap Admin = {}

AdminInit ==
  /\ row \in {Requested, Unset}
  /\ entries = {}
  /\ rpc = [r \in Request |-> "idle"]
  /\ change = [r \in Request |-> Unset]
  /\ will = [r \in Request |-> Unset]
  /\ was = [r \in Request |-> Unset]
  /\ found = [r \in Request |-> Unset]
  /\ mixed = FALSE
  /\ unlogged = FALSE

-----------------------------------------------------------------------------
(* Object.assign, or the assignments one by one.                           *)
Assigned(old, ch) ==
  [c \in DOMAIN old |-> IF c \in DOMAIN ch THEN ch[c] ELSE old[c]]

(* findOne, and the assignment of ch to the row in memory.                 *)
Find(r, ch) ==
  /\ rpc[r] = "idle"
  /\ rpc' = [rpc EXCEPT ![r] = "select"]
  /\ change' = [change EXCEPT ![r] = ch]
  /\ will' = [will EXCEPT ![r] = Assigned(row, ch)]
  /\ found' = [found EXCEPT ![r] = row]
  /\ UNCHANGED <<row, entries, was, mixed, unlogged>>

Pending == row # Unset /\ DOMAIN row = WithdrawalColumn /\ row["status"] = "PENDING"

Approval(a) ==
  [c \in {"status", "approvedBy"} |-> IF c = "status" THEN "APPROVED" ELSE a]

(* Mutant of Approve: a withdrawal that was processed is approved.         *)
ApproveProcessed(r, a) ==
  row # Unset /\ DOMAIN row = WithdrawalColumn /\ Find(r, Approval(a))

Approve(r, a) == Pending /\ Find(r, Approval(a))

(* The body of the request is not validated: it gives a reason, or null,   *)
(* or none.                                                                *)
Reason == {"given", Unset, Undefined}

Rejection(a, reason) ==
  [c \in WithdrawalColumn |-> CASE c = "status" -> "REJECTED"
                                [] c = "approvedBy" -> a
                                [] OTHER -> reason]

Reject(r, a, reason) == Pending /\ Find(r, Rejection(a, reason))

UpdateConfig(r, u) == row # Unset /\ DOMAIN row = ConfigColumn /\ Find(r, u)

(* What the entry of a creation tells of its row: neither the rules nor    *)
(* what the columns hold by default.                                       *)
LoggedColumn == {"gameType", "stakeLevels", "commissionPercent"}
Logged(c) == [k \in ConfigColumn \cap LoggedColumn |-> c[k]]

(* The insert of a new row; gameType is unique, so that a second throws.   *)
CreateConfig(r, c) ==
  /\ rpc[r] = "idle"
  /\ row = Unset
  /\ row' = c
  /\ rpc' = [rpc EXCEPT ![r] = "audit"]
  /\ change' = [change EXCEPT ![r] = Logged(c)]
  /\ UNCHANGED <<entries, will, was, found, mixed, unlogged>>

-----------------------------------------------------------------------------
(* The two queries of save.                                                *)
SelectRow(r) ==
  /\ rpc[r] = "select"
  /\ rpc' = [rpc EXCEPT ![r] = "update"]
  /\ was' = [was EXCEPT ![r] = row]
  /\ UNCHANGED <<row, entries, change, will, found, mixed, unlogged>>

(* Mutants of Differing: every column is written, or those that did not    *)
(* change are lost.                                                        *)
EveryColumn(now, old, new) == new

LosesSame(now, old, new) ==
  [c \in {x \in DOMAIN now : new[x] # old[x]} |-> new[c]]

Differing(now, old, new) ==
  [c \in DOMAIN now |-> IF new[c] \in {old[c], Undefined} THEN now[c] ELSE new[c]]

UpdateRow(r) ==
  /\ rpc[r] = "update"
  /\ row' = Differing(row, was[r], will[r])
  /\ mixed' = (mixed \/ row # was[r])
  /\ rpc' = [rpc EXCEPT ![r] = "audit"]
  /\ will' = [will EXCEPT ![r] = Unset]
  /\ was' = [was EXCEPT ![r] = Unset]
  /\ found' = [found EXCEPT ![r] = Unset]
  /\ UNCHANGED <<entries, change, unlogged>>

EndRequest(r) ==
  /\ rpc' = [rpc EXCEPT ![r] = "idle"]
  /\ change' = [change EXCEPT ![r] = Unset]
  /\ will' = [will EXCEPT ![r] = Unset]
  /\ was' = [was EXCEPT ![r] = Unset]
  /\ found' = [found EXCEPT ![r] = Unset]

(* Mutant of AuditLog: the action is not logged.                           *)
SkipsAuditLog(r) ==
  /\ rpc[r] = "audit"
  /\ EndRequest(r)
  /\ UNCHANGED <<row, entries, mixed, unlogged>>

(* createAuditLog.                                                         *)
AuditLog(r) ==
  /\ rpc[r] = "audit"
  /\ entries' = entries \cup {change[r]}
  /\ EndRequest(r)
  /\ UNCHANGED <<row, mixed, unlogged>>

(* A query fails or the process ends: the request ends where it is.        *)
RequestFails(r) ==
  /\ rpc[r] # "idle"
  /\ EndRequest(r)
  /\ unlogged' = (unlogged \/ rpc[r] = "audit")
  /\ UNCHANGED <<row, entries, mixed>>

AdminNext ==
  \E r \in Request :
    \/ \E a \in Admin : Approve(r, a) \/ \E reason \in Reason : Reject(r, a, reason)
    \/ \E u \in ConfigUpdate : UpdateConfig(r, u)
    \/ \E c \in NewConfig : CreateConfig(r, c)
    \/ SelectRow(r) \/ UpdateRow(r) \/ AuditLog(r) \/ RequestFails(r)

AdminSpec == AdminInit /\ [][AdminNext]_adminVars

-----------------------------------------------------------------------------
IsWithdrawal == row # Unset /\ DOMAIN row = WithdrawalColumn

(* The rows of this row's table, in the table and in memory, and what a    *)
(* request may assign to one.                                              *)
Kind == IF IsWithdrawal THEN WithdrawalRow ELSE ConfigRow
Memory == IF IsWithdrawal THEN WithdrawalMemory ELSE ConfigRow
Decision == {Approval(a) : a \in Admin} \cup {Rejection(a, reason) : a \in Admin, reason \in Reason}
Change == IF IsWithdrawal THEN Decision ELSE ConfigUpdate \cup {Logged(c) : c \in NewConfig}

(* The types of administration: a row has all its columns whatever saves   *)
(* overlap, and a request in the middle of a save holds rows of the same   *)
(* table.                                                                  *)
AdminTypeOK ==
  /\ row \in Kind \cup {Unset}
  /\ entries \subseteq Change
  /\ rpc \in [Request -> {"idle", "select", "update", "audit"}]
  /\ change \in [Request -> Change \cup {Unset}]
  /\ will \in [Request -> Memory \cup {Unset}]
  /\ was \in [Request -> Kind \cup {Unset}]
  /\ found \in [Request -> Kind \cup {Unset}]
  /\ \A r \in Request :
       /\ rpc[r] # "idle" => row # Unset /\ change[r] \in Change
       /\ rpc[r] \in {"select", "update"} => will[r] \in Memory /\ found[r] \in Kind
       /\ rpc[r] = "update" => was[r] \in Kind
  /\ mixed \in BOOLEAN /\ unlogged \in BOOLEAN

(* A withdrawal that carries a reason of rejection is rejected, even if    *)
(* several administrators found it pending and each decided it.  Only a    *)
(* save whose row changed between its two queries leaves an approved       *)
(* withdrawal with a reason of rejection.                                  *)
ReasonMeansRejected ==
  IsWithdrawal /\ ~mixed /\ row["rejectionReason"] # Unset => row["status"] = "REJECTED"

(* The assignments that are in audit_logs or about to be.                  *)
Recorded == entries \cup {change[r] : r \in {x \in Request : rpc[x] = "audit"}}

(* README.md:51 "Immutable audit logs" account for what is stored: however *)
(* saves overlap, lose each other's columns or mix them, every value in    *)
(* the row was requested by a call with an entry, unless a call failed     *)
(* between its save and its entry.  The rules and defaults of a creation   *)
(* alone are in no entry.                                                  *)
ValuesAudited ==
  row # Unset /\ ~unlogged => \A c \in DOMAIN row :
    \/ IsWithdrawal /\ row[c] = Requested[c]
    \/ ~IsWithdrawal /\ c \notin LoggedColumn /\ \E n \in NewConfig : row[c] = n[c]
    \/ \E e \in Recorded : c \in DOMAIN e /\ row[c] = e[c]

(* Row f is what decision e makes of a withdrawal that others of D may     *)
(* have decided before it: an approval takes away any reason, a rejection  *)
(* that gives none leaves the one it finds.                                *)
DecidedBy(f, e, D) ==
  /\ f["status"] = e["status"] /\ f["approvedBy"] = e["approvedBy"]
  /\ LET reason == f["rejectionReason"]
         asks == "rejectionReason" \in DOMAIN e
     IN  \/ ~asks /\ reason = Unset
         \/ asks /\ reason = e["rejectionReason"]
         \/ /\ asks /\ e["rejectionReason"] = Undefined
            /\ \/ reason = Unset
               \/ \E d \in D : "rejectionReason" \in DOMAIN d /\ reason = d["rejectionReason"]

(* A decision is one administrator's: the status and the administrator of  *)
(* a decided withdrawal are those of one entry, and so is the reason, but  *)
(* that a rejection without a reason keeps the reason of a rejection that  *)
(* was decided at the same time.  Only a save that mixes two rows breaks   *)
(* this.                                                                   *)
DecisionAudited ==
  IsWithdrawal /\ row # Requested /\ ~mixed /\ ~unlogged =>
    \E e \in Recorded : DecidedBy(row, e, Recorded)

(* What request r gives a value.                                           *)
Named(r) == {c \in DOMAIN change[r] : change[r][c] # Undefined}

(* An update overwrites a column it does not name only if that column      *)
(* changed between its findOne and the select of its save, and then it     *)
(* puts the older value back: a change after the select is not lost.       *)
UnnamedColumnsKept ==
  [][\A r \in Request : rpc[r] = "update" /\ rpc'[r] = "audit" =>
       \A c \in DOMAIN row \ Named(r) :
         row'[c] # row[c] => found[r][c] # was[r][c] /\ row'[c] = found[r][c]]_adminVars

=============================================================================
