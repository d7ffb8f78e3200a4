------------------------ MODULE AdministrationProofs ------------------------
(***************************************************************************)
(* The types of Administration and what its audit log accounts for, for    *)
(* every set of requests, administrators and columns and whatever bodies   *)
(* creations and updates have.                                             *)
(***************************************************************************)
EXTENDS Administration, TLAPS

(* A row of either table is not NULL, and has the columns of its table.    *)
LEMMA RowColumns ==
  /\ \A f \in WithdrawalRow : f # Unset /\ DOMAIN f = WithdrawalColumn
  /\ \A f \in ConfigRow : f # Unset /\ DOMAIN f = ConfigColumn
  /\ WithdrawalRow \subseteq WithdrawalMemory
<1>1. WithdrawalRow \subseteq WithdrawalMemory
  BY DEF WithdrawalRow, WithdrawalMemory
<1> QED
  BY <1>1, UnsetAssumption DEF WithdrawalRow, ConfigRow

(* A row that is there belongs to the table of its kind.                   *)
LEMMA KindColumns ==
  ASSUME NEW f \in Kind
  PROVE  f # Unset /\ DOMAIN f = (IF IsWithdrawal THEN WithdrawalColumn ELSE ConfigColumn)
BY RowColumns DEF Kind

(* What the two decisions assign.                                          *)
LEMMA DecisionFacts ==
  ASSUME NEW e \in Decision
  PROVE  /\ {"status", "approvedBy"} \subseteq DOMAIN e /\ DOMAIN e \subseteq WithdrawalColumn
         /\ e["approvedBy"] \in Admin
         /\ \/ e["status"] = "APPROVED" /\ "rejectionReason" \notin DOMAIN e
            \/ /\ e["status"] = "REJECTED" /\ "rejectionReason" \in DOMAIN e
               /\ e["rejectionReason"] \in Reason
<1>1. ASSUME NEW a \in Admin, e = Approval(a)
      PROVE  /\ DOMAIN e = {"status", "approvedBy"}
             /\ e["status"] = "APPROVED" /\ e["approvedBy"] = a
  BY <1>1 DEF Approval
<1>2. ASSUME NEW a \in Admin, NEW reason \in Reason, e = Rejection(a, reason)
      PROVE  /\ DOMAIN e = {"status", "rejectionReason", "approvedBy"}
             /\ e["status"] = "REJECTED" /\ e["approvedBy"] = a
             /\ e["rejectionReason"] = reason
  BY <1>2 DEF Rejection, WithdrawalColumn
<1> QED
  BY <1>1, <1>2 DEF Decision, WithdrawalColumn

(* What is assigned to a row of the table fits its columns.                *)
LEMMA AssignedMemory ==
  ASSUME NEW f \in Kind, NEW ch \in Change
  PROVE  Assigned(f, ch) \in Memory
<1>1. CASE IsWithdrawal
  <2>1. ch \in Decision /\ f \in WithdrawalRow
    BY <1>1 DEF Change, Kind
  <2>2. \A c \in DOMAIN ch : ch[c] \in WithdrawalValue \cup {Undefined}
    BY <2>1, DecisionFacts DEF WithdrawalColumn, WithdrawalValue, Reason
  <2> QED
    BY <1>1, <2>1, <2>2 DEF Assigned, Memory, WithdrawalRow, WithdrawalMemory
<1>2. CASE ~IsWithdrawal
  <2>1. ch \in ConfigUpdate \cup {Logged(n) : n \in NewConfig} /\ f \in ConfigRow
    BY <1>2 DEF Change, Kind
  <2> DEFINE V == UNION {{u[c] : c \in DOMAIN u} : u \in NewConfig \cup ConfigUpdate}
  <2>2. \A c \in DOMAIN ch : ch[c] \in V
    <3>1. CASE ch \in ConfigUpdate
      BY <3>1
    <3>2. ASSUME NEW n \in NewConfig, ch = Logged(n)
          PROVE  \A c \in DOMAIN ch : ch[c] \in V
      <4>1. DOMAIN n = ConfigColumn
        BY NewAssumption
      <4> QED
        BY <3>2, <4>1 DEF Logged
    <3> QED
      BY <2>1, <3>1, <3>2
  <2>3. f \in [ConfigColumn -> V]
    BY <2>1 DEF ConfigRow
  <2> HIDE DEF V
  <2>4. Assigned(f, ch) \in [ConfigColumn -> V]
    BY <2>2, <2>3 DEF Assigned
  <2> QED
    BY <1>2, <2>4 DEF Memory, ConfigRow, V
<1> QED
  BY <1>1, <1>2

(* What a save stores is a row of the table.                               *)
LEMMA DifferingKind ==
  ASSUME NEW f \in Kind, NEW g \in Kind, NEW h \in Memory
  PROVE  Differing(f, g, h) \in Kind
<1>1. CASE IsWithdrawal
  BY <1>1 DEF Differing, Kind, Memory, WithdrawalRow, WithdrawalMemory
<1>2. CASE ~IsWithdrawal
  BY <1>2 DEF Differing, Kind, Memory, ConfigRow
<1> QED
  BY <1>1, <1>2

(* A creation makes a configuration.                                       *)
LEMMA NewIsConfig ==
  ASSUME NEW c \in NewConfig
  PROVE  c \in ConfigRow
<1> DEFINE V == UNION {{u[k] : k \in DOMAIN u} : u \in NewConfig \cup ConfigUpdate}
<1>1. DOMAIN c = ConfigColumn /\ c = [k \in ConfigColumn |-> c[k]]
  BY NewAssumption
<1>2. \A k \in ConfigColumn : c[k] \in V
  BY <1>1
<1> HIDE DEF V
<1>3. c \in [ConfigColumn -> V]
  BY <1>1, <1>2
<1> QED
  BY <1>3 DEF V, ConfigRow

(* No step turns a row of one table into one of the other.                 *)
LEMMA SameKind ==
  ASSUME AdminTypeOK, [AdminNext]_adminVars
  PROVE  /\ IsWithdrawal' = IsWithdrawal
         /\ Kind' = Kind /\ Memory' = Memory /\ Change' = Change
         /\ row # Unset => row' # Unset
<1>1. ASSUME NEW r \in Request, UpdateRow(r)
      PROVE  IsWithdrawal' = IsWithdrawal /\ row' # Unset
  <2>1. row \in Kind /\ row' \in Kind
    BY <1>1, DifferingKind DEF UpdateRow, AdminTypeOK
  <2> QED
    BY <2>1, KindColumns DEF IsWithdrawal
<1>2. ASSUME NEW r \in Request, NEW c \in NewConfig, CreateConfig(r, c)
      PROVE  IsWithdrawal' = IsWithdrawal /\ row' # Unset
  BY <1>2, NewIsConfig, RowColumns, ColumnAssumption DEF CreateConfig, IsWithdrawal
<1>3. ASSUME UNCHANGED row
      PROVE  IsWithdrawal' = IsWithdrawal
  BY <1>3 DEF IsWithdrawal
<1>4. IsWithdrawal' = IsWithdrawal /\ (row # Unset => row' # Unset)
  BY <1>1, <1>2, <1>3 DEF AdminNext, Approve, Reject, UpdateConfig, Find, SelectRow,
     AuditLog, RequestFails, adminVars
<1> QED
  BY <1>4 DEF Kind, Memory, Change

-----------------------------------------------------------------------------
(* A request that finds a row assigns what fits its table.                 *)
LEMMA FindTyped ==
  ASSUME AdminTypeOK, NEW r \in Request, NEW ch \in Change, Find(r, ch), row # Unset,
         Kind' = Kind, Memory' = Memory, Change' = Change
  PROVE  AdminTypeOK'
<1>1. row \in Kind
  BY DEF AdminTypeOK
<1>2. Assigned(row, ch) \in Memory
  BY <1>1, AssignedMemory
<1> QED
  BY <1>1, <1>2 DEF Find, AdminTypeOK

(* A request about the row that is there assigns something of its table.   *)
LEMMA FindsOnly ==
  ASSUME NEW r \in Request,
         \/ \E a \in Admin : Approve(r, a) \/ \E reason \in Reason : Reject(r, a, reason)
         \/ \E u \in ConfigUpdate : UpdateConfig(r, u)
  PROVE  row # Unset /\ \E ch \in Change : Find(r, ch)
<1>1. ASSUME NEW a \in Admin, Approve(r, a)
      PROVE  row # Unset /\ Approval(a) \in Change /\ Find(r, Approval(a))
  BY <1>1 DEF Approve, Pending, Change, Decision, IsWithdrawal
<1>2. ASSUME NEW a \in Admin, NEW reason \in Reason, Reject(r, a, reason)
      PROVE  /\ row # Unset /\ Rejection(a, reason) \in Change
             /\ Find(r, Rejection(a, reason))
  BY <1>2 DEF Reject, Pending, Change, Decision, IsWithdrawal
<1>3. ASSUME NEW u \in ConfigUpdate, UpdateConfig(r, u)
      PROVE  row # Unset /\ u \in Change /\ Find(r, u)
  BY <1>3, ColumnAssumption DEF UpdateConfig, Change, IsWithdrawal
<1> QED
  BY <1>1, <1>2, <1>3

(* Every step keeps the variables in their types.                          *)
LEMMA AdminTypeInvariant ==
  ASSUME AdminTypeOK, [AdminNext]_adminVars
  PROVE  AdminTypeOK'
<1>0. Kind' = Kind /\ Memory' = Memory /\ Change' = Change /\ (row # Unset => row' # Unset)
  BY SameKind
<1>1. ASSUME NEW r \in Request, NEW ch \in Change, Find(r, ch), row # Unset
      PROVE  AdminTypeOK'
  BY <1>0, <1>1, FindTyped
<1>2. ASSUME NEW r \in Request, NEW c \in NewConfig, CreateConfig(r, c)
      PROVE  AdminTypeOK'
  <2>1. ~IsWithdrawal
    BY <1>2 DEF CreateConfig, IsWithdrawal
  <2>2. c \in Kind /\ Logged(c) \in Change /\ c # Unset
    BY <2>1, NewIsConfig, RowColumns DEF Kind, Change
  <2> QED
    BY <1>0, <1>2, <2>2 DEF CreateConfig, AdminTypeOK
<1>3. ASSUME NEW r \in Request, SelectRow(r)
      PROVE  AdminTypeOK'
  BY <1>0, <1>3 DEF SelectRow, AdminTypeOK
<1>4. ASSUME NEW r \in Request, UpdateRow(r)
      PROVE  AdminTypeOK'
  <2>1. row' \in Kind
    BY <1>4, DifferingKind DEF UpdateRow, AdminTypeOK
  <2> QED
    BY <1>0, <1>4, <2>1 DEF UpdateRow, AdminTypeOK
<1>5. ASSUME NEW r \in Request, AuditLog(r)
      PROVE  AdminTypeOK'
  BY <1>0, <1>5 DEF AuditLog, EndRequest, AdminTypeOK
<1>6. ASSUME NEW r \in Request, RequestFails(r)
      PROVE  AdminTypeOK'
  BY <1>0, <1>6 DEF RequestFails, EndRequest, AdminTypeOK
<1>7. CASE UNCHANGED adminVars
  BY <1>0, <1>7 DEF adminVars, AdminTypeOK
<1> QED
  BY <1>1, <1>2, <1>3, <1>4, <1>5, <1>6, <1>7, FindsOnly DEF AdminNext

(* Every state of administration has its type.                             *)
THEOREM AdminTyped == AdminSpec => []AdminTypeOK
<1>1. AdminInit => AdminTypeOK
  <2> SUFFICES ASSUME AdminInit PROVE AdminTypeOK
    OBVIOUS
  <2>1. Requested \in WithdrawalRow
    BY DEF Requested, WithdrawalRow, WithdrawalValue
  <2>2. row \in Kind \cup {Unset}
    BY <2>1, RowColumns DEF AdminInit, Kind, IsWithdrawal
  <2> QED
    BY <2>2 DEF AdminInit, AdminTypeOK
<1>2. AdminTypeOK /\ [AdminNext]_adminVars => AdminTypeOK'
  BY AdminTypeInvariant
<1> QED
  BY <1>1, <1>2, PTL DEF AdminSpec

-----------------------------------------------------------------------------
(* What a request in the middle of a save has in memory is what it found   *)
(* with its assignments.                                                   *)
WillIsAssigned ==
  \A r \in Request :
    rpc[r] \in {"select", "update"} => will[r] = Assigned(found[r], change[r])

LEMMA WillStep ==
  ASSUME AdminTypeOK, WillIsAssigned, [AdminNext]_adminVars
  PROVE  WillIsAssigned'
<1>1. ASSUME NEW r \in Request, NEW ch \in Change, Find(r, ch)
      PROVE  WillIsAssigned'
  BY <1>1 DEF Find, WillIsAssigned, AdminTypeOK
<1>2. ASSUME NEW r \in Request, NEW c \in NewConfig, CreateConfig(r, c)
      PROVE  WillIsAssigned'
  BY <1>2 DEF CreateConfig, WillIsAssigned, AdminTypeOK
<1>3. ASSUME NEW r \in Request, SelectRow(r)
      PROVE  WillIsAssigned'
  BY <1>3 DEF SelectRow, WillIsAssigned, AdminTypeOK
<1>4. ASSUME NEW r \in Request, UpdateRow(r)
      PROVE  WillIsAssigned'
  BY <1>4 DEF UpdateRow, WillIsAssigned, AdminTypeOK
<1>5. ASSUME NEW r \in Request, AuditLog(r) \/ RequestFails(r)
      PROVE  WillIsAssigned'
  BY <1>5 DEF AuditLog, RequestFails, EndRequest, WillIsAssigned, AdminTypeOK
<1>6. CASE UNCHANGED adminVars
  BY <1>6 DEF adminVars, WillIsAssigned
<1> QED
  BY <1>1, <1>2, <1>3, <1>4, <1>5, <1>6, FindsOnly DEF AdminNext

LEMMA WillInvariant == AdminSpec => [](AdminTypeOK /\ WillIsAssigned)
<1>1. AdminInit => WillIsAssigned
  BY DEF AdminInit, WillIsAssigned
<1>2. AdminTypeOK /\ WillIsAssigned /\ [AdminNext]_adminVars => WillIsAssigned'
  BY WillStep
<1> QED
  BY <1>1, <1>2, AdminTyped, PTL DEF AdminSpec

(* A save touches a column that its request does not name only to put back *)
(* the value of its findOne over a change made before its select.          *)
THEOREM SavesKeepColumns == AdminSpec => UnnamedColumnsKept
<1>1. ASSUME AdminTypeOK, WillIsAssigned, [AdminNext]_adminVars,
             NEW r \in Request, rpc[r] = "update", rpc'[r] = "audit",
             NEW c \in DOMAIN row \ Named(r), row'[c] # row[c]
      PROVE  found[r][c] # was[r][c] /\ row'[c] = found[r][c]
  <2>1. UpdateRow(r)
    BY <1>1 DEF AdminNext, Approve, Reject, UpdateConfig, Find, CreateConfig, SelectRow,
       UpdateRow, AuditLog, RequestFails, EndRequest, AdminTypeOK, adminVars
  <2>2. row \in Kind /\ found[r] \in Kind
    BY <1>1 DEF AdminTypeOK
  <2>3. c \in DOMAIN found[r]
    BY <2>2, KindColumns
  <2>4. will[r][c] \in {found[r][c], Undefined}
    BY <1>1, <2>3 DEF WillIsAssigned, Assigned, Named
  <2>5. row'[c] = IF will[r][c] \in {was[r][c], Undefined} THEN row[c] ELSE will[r][c]
    BY <2>1 DEF UpdateRow, Differing
  <2> QED
    BY <1>1, <2>4, <2>5
<1>2. AdminTypeOK /\ WillIsAssigned /\ [AdminNext]_adminVars
        => [\A r \in Request : rpc[r] = "update" /\ rpc'[r] = "audit" =>
              \A c \in DOMAIN row \ Named(r) :
                row'[c] # row[c] =>
                  found[r][c] # was[r][c] /\ row'[c] = found[r][c]]_adminVars
  BY <1>1
<1> QED
  BY <1>2, WillInvariant, PTL DEF AdminSpec, UnnamedColumnsKept

-----------------------------------------------------------------------------
(* An assignment that is recorded stays recorded, unless a request fails   *)
(* between its save and its entry; a save records the assignment it made.  *)
LEMMA RecordedGrows ==
  ASSUME AdminTypeOK, [AdminNext]_adminVars, ~unlogged'
  PROVE  /\ ~unlogged
         /\ Recorded \subseteq Recorded'
         /\ \A r \in Request : UpdateRow(r) => change[r] \in Recorded'
         /\ \A r \in Request : \A c : CreateConfig(r, c) => Logged(c) \in Recorded'
<1>1. ASSUME NEW r \in Request, NEW ch \in Change, Find(r, ch)
      PROVE  ~unlogged /\ Recorded \subseteq Recorded'
  BY <1>1 DEF Find, Recorded, AdminTypeOK
<1>2. ASSUME NEW r \in Request, NEW c, CreateConfig(r, c)
      PROVE  ~unlogged /\ Recorded \subseteq Recorded' /\ Logged(c) \in Recorded'
  BY <1>2 DEF CreateConfig, Recorded, AdminTypeOK
<1>3. ASSUME NEW r \in Request, SelectRow(r)
      PROVE  ~unlogged /\ Recorded \subseteq Recorded'
  BY <1>3 DEF SelectRow, Recorded, AdminTypeOK
<1>4. ASSUME NEW r \in Request, UpdateRow(r)
      PROVE  ~unlogged /\ Recorded \subseteq Recorded' /\ change[r] \in Recorded'
  BY <1>4 DEF UpdateRow, Recorded, AdminTypeOK
<1>5. ASSUME NEW r \in Request, AuditLog(r)
      PROVE  ~unlogged /\ Recorded \subseteq Recorded'
  BY <1>5 DEF AuditLog, EndRequest, Recorded, AdminTypeOK
<1>6. ASSUME NEW r \in Request, RequestFails(r)
      PROVE  ~unlogged /\ Recorded \subseteq Recorded'
  BY <1>6 DEF RequestFails, EndRequest, Recorded, AdminTypeOK
<1>7. ASSUME UNCHANGED adminVars
      PROVE  ~unlogged /\ Recorded \subseteq Recorded'
  BY <1>7 DEF adminVars, Recorded
<1>8. ~unlogged /\ Recorded \subseteq Recorded'
  BY <1>1, <1>2, <1>3, <1>4, <1>5, <1>6, <1>7, FindsOnly DEF AdminNext
<1> QED
  BY <1>2, <1>4, <1>8

(* Value v of column c is one that a withdrawal begins with, one that a    *)
(* creation does not log, or one that a recorded assignment gave.          *)
Explained(isWithdrawal, recorded, c, v) ==
  \/ isWithdrawal /\ v = Requested[c]
  \/ ~isWithdrawal /\ c \notin LoggedColumn /\ \E n \in NewConfig : v = n[c]
  \/ \E e \in recorded : c \in DOMAIN e /\ v = e[c]

(* The strengthening of ValuesAudited: what requests found is explained.   *)
AllExplained ==
  ~unlogged =>
    /\ row # Unset => \A c \in DOMAIN row : Explained(IsWithdrawal, Recorded, c, row[c])
    /\ \A r \in Request : rpc[r] \in {"select", "update"} =>
         \A c \in DOMAIN found[r] : Explained(IsWithdrawal, Recorded, c, found[r][c])

LEMMA ExplainedStep ==
  ASSUME AdminTypeOK, WillIsAssigned, AllExplained, [AdminNext]_adminVars
  PROVE  AllExplained'
<1> SUFFICES ASSUME ~unlogged'
             PROVE  AllExplained'
  BY DEF AllExplained
<1>1. /\ ~unlogged /\ Recorded \subseteq Recorded'
      /\ \A r \in Request : UpdateRow(r) => change[r] \in Recorded'
      /\ \A r \in Request : \A c : CreateConfig(r, c) => Logged(c) \in Recorded'
  BY RecordedGrows
<1>2. \A c, v : Explained(IsWithdrawal, Recorded, c, v)
                 => Explained(IsWithdrawal', Recorded', c, v)
  BY <1>1, SameKind DEF Explained
<1>3. ASSUME NEW r \in Request, NEW ch \in Change, Find(r, ch), row # Unset
      PROVE  AllExplained'
  BY <1>1, <1>2, <1>3 DEF Find, AllExplained, AdminTypeOK
<1>4. ASSUME NEW r \in Request, NEW c \in NewConfig, CreateConfig(r, c)
      PROVE  AllExplained'
  <2>1. row' = c /\ DOMAIN c = ConfigColumn /\ Logged(c) \in Recorded' /\ ~IsWithdrawal'
    BY <1>1, <1>4, NewAssumption, ColumnAssumption DEF CreateConfig, IsWithdrawal
  <2>2. \A k \in DOMAIN row' : Explained(IsWithdrawal', Recorded', k, row'[k])
    BY <2>1 DEF Explained, Logged
  <2> QED
    BY <1>1, <1>2, <1>4, <2>2 DEF CreateConfig, AllExplained, AdminTypeOK
<1>5. ASSUME NEW r \in Request, UpdateRow(r)
      PROVE  AllExplained'
  <2>1. row \in Kind /\ found[r] \in Kind /\ row # Unset
    BY <1>5 DEF UpdateRow, AdminTypeOK
  <2>2. DOMAIN row' = DOMAIN row /\ DOMAIN found[r] = DOMAIN row
    BY <1>5, <2>1, KindColumns DEF UpdateRow, Differing
  <2>3. ASSUME NEW c \in DOMAIN row'
        PROVE  Explained(IsWithdrawal', Recorded', c, row'[c])
    <3>1. row'[c] = row[c] \/ row'[c] = will[r][c]
      BY <1>5, <2>2, <2>3 DEF UpdateRow, Differing
    <3>2. will[r][c] = IF c \in DOMAIN change[r] THEN change[r][c] ELSE found[r][c]
      BY <1>5, <2>2, <2>3 DEF WillIsAssigned, Assigned, UpdateRow
    <3>3. Explained(IsWithdrawal, Recorded, c, row[c]) /\ Explained(IsWithdrawal, Recorded, c, found[r][c])
      BY <1>1, <1>5, <2>1, <2>2, <2>3 DEF AllExplained, UpdateRow
    <3>4. CASE c \in DOMAIN change[r] /\ row'[c] = change[r][c]
      BY <1>1, <1>5, <3>4 DEF Explained
    <3> QED
      BY <1>2, <3>1, <3>2, <3>3, <3>4
  <2> QED
    BY <1>1, <1>2, <1>5, <2>3 DEF UpdateRow, AllExplained, AdminTypeOK
<1>6. ASSUME NEW r \in Request, SelectRow(r)
      PROVE  AllExplained'
  BY <1>1, <1>2, <1>6 DEF SelectRow, AllExplained, AdminTypeOK
<1>7. ASSUME NEW r \in Request, AuditLog(r) \/ RequestFails(r)
      PROVE  AllExplained'
  BY <1>1, <1>2, <1>7 DEF AuditLog, RequestFails, EndRequest, AllExplained, AdminTypeOK
<1>8. CASE UNCHANGED adminVars
  BY <1>1, <1>2, <1>8 DEF adminVars, AllExplained
<1> QED
  BY <1>3, <1>4, <1>5, <1>6, <1>7, <1>8, FindsOnly DEF AdminNext

(* Whatever saves overlap, lose or mix, every value that is stored was     *)
(* requested by a call with an entry, unless one failed before its entry.  *)
THEOREM StoredValuesAudited == AdminSpec => []ValuesAudited
<1>1. AdminInit => AllExplained
  BY DEF AdminInit, AllExplained, Explained, IsWithdrawal, Requested
<1>2. AdminTypeOK /\ WillIsAssigned /\ AllExplained /\ [AdminNext]_adminVars => AllExplained'
  BY ExplainedStep
<1>3. AllExplained => ValuesAudited
  BY DEF AllExplained, Explained, ValuesAudited
<1> QED
  BY <1>1, <1>2, <1>3, WillInvariant, PTL DEF AdminSpec

-----------------------------------------------------------------------------
(* The decisions that may have been made: those recorded, once none went   *)
(* unrecorded.                                                             *)
Known == IF unlogged THEN Decision ELSE Recorded

(* The strengthening of the two properties of withdrawals: until a save    *)
(* mixes two rows, the row is as requested or as one decision made it, and *)
(* whoever is deciding found it as requested.                              *)
OneDecision ==
  IsWithdrawal /\ ~mixed =>
    /\ row = Requested \/ \E e \in Decision \cap Known : DecidedBy(row, e, Decision \cap Known)
    /\ \A r \in Request : rpc[r] \in {"select", "update"} => found[r] = Requested

(* A decided withdrawal is not pending, and rejected if it has a reason.   *)
LEMMA DecidedRow ==
  ASSUME NEW f, NEW e \in Decision, NEW D, DecidedBy(f, e, D)
  PROVE  /\ f["status"] # "PENDING"
         /\ f["rejectionReason"] # Unset => f["status"] = "REJECTED"
BY DecisionFacts DEF DecidedBy

(* The reason of a row that was decided is one that a decision gave.       *)
LEMMA DecidedReason ==
  ASSUME NEW f, NEW D, NEW e \in D, DecidedBy(f, e, D)
  PROVE  \/ f["rejectionReason"] = Unset
         \/ \E d \in D : /\ "rejectionReason" \in DOMAIN d
                        /\ f["rejectionReason"] = d["rejectionReason"]
BY DEF DecidedBy

(* A decision on a row read as requested overwrites status, administrator  *)
(* and reason, but for a reason it does not give.                          *)
LEMMA DecisionSaved ==
  ASSUME NEW f \in WithdrawalRow, NEW ch \in Decision
  PROVE  LET g == Differing(f, f, Assigned(Requested, ch))
         IN  /\ g["status"] = ch["status"] /\ g["approvedBy"] = ch["approvedBy"]
             /\ "rejectionReason" \notin DOMAIN ch => g["rejectionReason"] = Unset
             /\ "rejectionReason" \in DOMAIN ch =>
                  g["rejectionReason"] = IF ch["rejectionReason"] = Undefined
                                           THEN f["rejectionReason"] ELSE ch["rejectionReason"]
<1> DEFINE new == Assigned(Requested, ch)
           g == Differing(f, f, new)
<1>1. /\ DOMAIN f = WithdrawalColumn /\ DOMAIN Requested = WithdrawalColumn
      /\ DOMAIN new = WithdrawalColumn
      /\ {"status", "rejectionReason", "approvedBy"} \subseteq WithdrawalColumn
  BY DEF WithdrawalRow, Requested, Assigned, WithdrawalColumn
<1>2. \A c \in WithdrawalColumn : g[c] = IF new[c] = Undefined THEN f[c] ELSE new[c]
  BY <1>1 DEF Differing
<1>3. new["status"] = ch["status"] /\ new["approvedBy"] = ch["approvedBy"]
  BY <1>1, DecisionFacts DEF Assigned
<1>4. new["status"] # Undefined /\ new["approvedBy"] # Undefined
  BY <1>3, DecisionFacts, UnsetAssumption DEF Undefined
<1>5. "rejectionReason" \notin DOMAIN ch => new["rejectionReason"] = Unset
  BY <1>1 DEF Assigned, Requested
<1>6. "rejectionReason" \in DOMAIN ch => new["rejectionReason"] = ch["rejectionReason"]
  BY <1>1 DEF Assigned
<1> HIDE DEF new, g
<1>7. Unset # Undefined
  BY UnsetAssumption
<1> QED
  BY <1>1, <1>2, <1>3, <1>4, <1>5, <1>6, <1>7 DEF new, g

LEMMA DecisionStep ==
  ASSUME AdminTypeOK, WillIsAssigned, OneDecision, [AdminNext]_adminVars
  PROVE  OneDecision'
<1> SUFFICES ASSUME IsWithdrawal', ~mixed'
             PROVE  OneDecision'
  BY DEF OneDecision
<1>1. /\ IsWithdrawal /\ IsWithdrawal'
      /\ unlogged' \/ (~unlogged /\ Recorded \subseteq Recorded')
      /\ \A r \in Request : UpdateRow(r) => unlogged' \/ change[r] \in Recorded'
  BY SameKind, RecordedGrows
<1>2. unlogged => unlogged'
  BY DEF AdminNext, Approve, Reject, UpdateConfig, Find, CreateConfig, SelectRow,
     UpdateRow, AuditLog, RequestFails, adminVars
<1> DEFINE D == Decision \cap Known
           E == Decision \cap Known'
<1>3. D \subseteq E
  BY <1>1, <1>2 DEF Known
<1>4. ASSUME NEW r \in Request, UpdateRow(r)
      PROVE  OneDecision'
  <2>1. row = was[r] /\ ~mixed
    BY <1>4 DEF UpdateRow
  <2>2. row \in Kind /\ change[r] \in Decision
    BY <1>1, <1>4 DEF UpdateRow, AdminTypeOK, Change
  <2>3. row \in WithdrawalRow
    BY <1>1, <2>2 DEF Kind
  <2>4. will[r] = Assigned(Requested, change[r])
    BY <1>1, <1>4, <2>1 DEF OneDecision, WillIsAssigned, UpdateRow
  <2>5. row' = Differing(row, row, Assigned(Requested, change[r]))
    BY <1>4, <2>1, <2>4 DEF UpdateRow
  <2>6. change[r] \in E
    BY <1>1, <1>4, <2>2 DEF Known
  <2>7. \/ row["rejectionReason"] = Unset
        \/ \E d \in E : /\ "rejectionReason" \in DOMAIN d
                       /\ row["rejectionReason"] = d["rejectionReason"]
    <3>1. CASE row = Requested
      BY <3>1 DEF Requested, WithdrawalColumn
    <3>2. ASSUME NEW e \in D, DecidedBy(row, e, D)
          PROVE  \/ row["rejectionReason"] = Unset
                 \/ \E d \in D : /\ "rejectionReason" \in DOMAIN d
                                /\ row["rejectionReason"] = d["rejectionReason"]
      BY <3>2, DecidedReason
    <3> QED
      BY <1>1, <1>3, <2>1, <3>1, <3>2 DEF OneDecision
  <2>8. DecidedBy(row', change[r], E)
    BY <2>2, <2>3, <2>5, <2>7, DecisionSaved DEF DecidedBy
  <2>9. \A q \in Request : rpc'[q] \in {"select", "update"} => found'[q] = Requested
    BY <1>1, <1>4, <2>1 DEF OneDecision, UpdateRow, AdminTypeOK
  <2> QED
    BY <2>6, <2>8, <2>9 DEF OneDecision
<1>5. ASSUME UNCHANGED <<row, mixed>>,
             \A q \in Request : rpc'[q] \in {"select", "update"} =>
               found'[q] = row \/ (rpc[q] \in {"select", "update"} /\ found'[q] = found[q]),
             (\E q \in Request : rpc'[q] \in {"select", "update"} /\ found'[q] = row
                               /\ ~(rpc[q] \in {"select", "update"} /\ found'[q] = found[q]))
               => row = Requested
      PROVE  OneDecision'
  <2>1. ~mixed /\ row' = row
    BY <1>5
  <2>2. row' = Requested \/ \E e \in E : DecidedBy(row', e, E)
    <3>1. ASSUME NEW e \in D, DecidedBy(row, e, D)
          PROVE  DecidedBy(row, e, E)
      BY <1>3, <3>1 DEF DecidedBy
    <3> QED
      BY <1>1, <1>3, <2>1, <3>1 DEF OneDecision
  <2>3. \A q \in Request : rpc'[q] \in {"select", "update"} => found'[q] = Requested
    BY <1>1, <1>5, <2>1 DEF OneDecision
  <2> QED
    BY <2>2, <2>3 DEF OneDecision
<1>6. ASSUME NEW r \in Request, NEW ch \in Change, Find(r, ch), Pending
      PROVE  OneDecision'
  <2>1. row = Requested
    <3>1. ASSUME NEW e \in D, DecidedBy(row, e, D)
          PROVE  FALSE
      BY <1>6, <3>1, DecidedRow DEF Pending
    <3> QED
      BY <1>1, <1>6, <3>1 DEF OneDecision, Find
  <2> QED
    BY <1>5, <1>6, <2>1 DEF Find, AdminTypeOK
<1>7. ASSUME NEW r \in Request, SelectRow(r)
      PROVE  OneDecision'
  BY <1>5, <1>7 DEF SelectRow, AdminTypeOK
<1>8. ASSUME NEW r \in Request, AuditLog(r) \/ RequestFails(r)
      PROVE  OneDecision'
  BY <1>5, <1>8 DEF AuditLog, RequestFails, EndRequest, AdminTypeOK
<1>9. CASE UNCHANGED adminVars
  BY <1>5, <1>9 DEF adminVars
<1>10. ASSUME NEW r \in Request
       PROVE  /\ \A u : ~UpdateConfig(r, u)
              /\ \A c : ~CreateConfig(r, c)
  BY <1>1, ColumnAssumption DEF UpdateConfig, CreateConfig, IsWithdrawal
<1>11. ASSUME NEW r \in Request, NEW a \in Admin,
              Approve(r, a) \/ \E reason \in Reason : Reject(r, a, reason)
       PROVE  Pending /\ \E ch \in Change : Find(r, ch)
  BY <1>1, <1>11 DEF Approve, Reject, Change, Decision
<1> QED
  BY <1>4, <1>6, <1>7, <1>8, <1>9, <1>10, <1>11 DEF AdminNext

LEMMA DecisionInvariant == AdminSpec => []OneDecision
<1>1. AdminInit => OneDecision
  <2> SUFFICES ASSUME AdminInit, IsWithdrawal PROVE OneDecision
    BY DEF OneDecision
  <2>1. row = Requested
    BY DEF AdminInit, IsWithdrawal
  <2> QED
    BY <2>1 DEF AdminInit, OneDecision
<1>2. AdminTypeOK /\ WillIsAssigned /\ OneDecision /\ [AdminNext]_adminVars => OneDecision'
  BY DecisionStep
<1> QED
  BY <1>1, <1>2, WillInvariant, PTL DEF AdminSpec

(* Several administrators may decide one withdrawal at once: unless a save *)
(* mixes two rows, one that has a reason is rejected.                      *)
THEOREM ReasonsMeanRejections == AdminSpec => []ReasonMeansRejected
<1>1. OneDecision => ReasonMeansRejected
  <2> SUFFICES ASSUME OneDecision, IsWithdrawal, ~mixed, row["rejectionReason"] # Unset
               PROVE  row["status"] = "REJECTED"
    BY DEF ReasonMeansRejected
  <2>1. row # Requested
    BY DEF Requested, WithdrawalColumn
  <2> QED
    BY <2>1, DecidedRow DEF OneDecision
<1> QED
  BY <1>1, DecisionInvariant, PTL

(* Unless a save mixes two rows or a request fails before its entry, a     *)
(* withdrawal is what entries of the audit log say: its status and its     *)
(* administrator are those of one, its reason that of this one or, if it   *)
(* gives none, of one decided at the same time.                            *)
THEOREM DecisionsAreAudited == AdminSpec => []DecisionAudited
<1>1. OneDecision => DecisionAudited
  <2> SUFFICES ASSUME OneDecision, IsWithdrawal, row # Requested, ~mixed, ~unlogged
               PROVE  \E e \in Recorded : DecidedBy(row, e, Recorded)
    BY DEF DecisionAudited
  <2>1. PICK e \in Decision \cap Recorded : DecidedBy(row, e, Decision \cap Recorded)
    BY DEF OneDecision, Known
  <2>2. DecidedBy(row, e, Recorded)
    BY <2>1 DEF DecidedBy
  <2> QED
    BY <2>1, <2>2
<1> QED
  BY <1>1, DecisionInvariant, PTL

=============================================================================
