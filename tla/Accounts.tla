------------------------------ MODULE Accounts ------------------------------
(***************************************************************************)
(* One phone number's account: its one-time passwords and login            *)
(* (src/auth/auth.service.ts), the locks an administrator puts on it       *)
(* (src/admin/admin.service.ts) and the wallet lock that fraud alerts put  *)
(* on it (src/fraud/fraud.service.ts).  All of them write the same users   *)
(* row: login and administration by findOne and save, which is a select    *)
(* and an update of the columns that differ, fraud by single updates.      *)
(*                                                                         *)
(* Every await ends a step.  The passwords of two requests differ (the     *)
(* code draws six digits), and the row of an OTP or an alert is saved in   *)
(* one step: one column of it is ever written, so that a select before the *)
(* update makes no difference.                                             *)
(***************************************************************************)
EXTENDS Naturals

CONSTANTS
  Handler,    \* slots for requests being served
  Otp,        \* rows of otp_verifications for the number
  Device,     \* values of deviceId
  Alert,      \* fraud_alerts of the account that lock the wallet
  NoDevice,   \* an account bound to no device
  NoUser,     \* the number has no users row
  None        \* no OTP, no alert

VARIABLES
  otp,        \* "none", "open", or "closed": verified or past its expiresAt
  user,       \* the users row, or NoUser
  alert,      \* the status of each alert, or "none"
  log,        \* the last lock or unlock in audit_logs
  hpc, job,   \* step of each handler, and what it is asked to do
  code, from, \* the OTP and the device of a login
  about,      \* the alert a handler raises or reviews
  mem, base,  \* the users row a handler will save, and the one its save
              \* selected
  read,       \* history: the users row the findOne of a handler read
  logins,     \* history: tokens given for each OTP
  contested,  \* history: OTPs two logins had found before either marked it
  tangled     \* history: two handlers were saving the users row at once, or
              \* one failed after it had saved it

requestVars == <<job, code, from, about>>
saveVars == <<mem, base, read>>
historyVars == <<logins, contested, tangled>>
vars == <<otp, user, alert, log, hpc, requestVars, saveVars, historyVars>>

User == [device : Device \cup {NoDevice}, isActive : BOOLEAN, isWalletLocked : BOOLEAN]
Verdict == {"CLEARED", "CONFIRMED"}  \* CONFIRMED for every other, too

(* Between the findOne of the users row and the end of what follows its    *)
(* save.                                                                   *)
Saving(h) == hpc[h] \in {"select", "update", "audit"}

ASSUME NoDeviceAssumption == NoDevice \notin Device
ASSUME NoneAssumption == None \notin Otp \cup Alert
ASSUME NoUserAssumption == NoUser \notin User

(* The row a first login creates.                                          *)
NewUser(d) == [device |-> d, isActive |-> TRUE, isWalletLocked |-> FALSE]

(* The number may be new, or have an account that logged in before.        *)
Init ==
  /\ otp = [o \in Otp |-> "none"]
  /\ user \in {NoUser} \cup {NewUser(d) : d \in Device}
  /\ alert = [f \in Alert |-> "none"]
  /\ log = "none"
  /\ hpc = [h \in Handler |-> "idle"]
  /\ job = [h \in Handler |-> "none"]
  /\ code = [h \in Handler |-> None]
  /\ from = [h \in Handler |-> NoDevice]
  /\ about = [h \in Handler |-> None]
  /\ mem = [h \in Handler |-> NoUser]
  /\ base = [h \in Handler |-> NoUser]
  /\ read = [h \in Handler |-> NoUser]
  /\ logins = [o \in Otp |-> 0]
  /\ contested = {}
  /\ tangled = FALSE

(* Handler h saves no row any more.                                        *)
Forget(h) ==
  /\ mem' = [mem EXCEPT ![h] = NoUser]
  /\ base' = [base EXCEPT ![h] = NoUser]
  /\ read' = [read EXCEPT ![h] = NoUser]

(* The slot of handler h is free again.                                    *)
Done(h) ==
  /\ hpc' = [hpc EXCEPT ![h] = "idle"]
  /\ job' = [job EXCEPT ![h] = "none"]
  /\ code' = [code EXCEPT ![h] = None]
  /\ from' = [from EXCEPT ![h] = NoDevice]
  /\ about' = [about EXCEPT ![h] = None]
  /\ Forget(h)

Goto(h, pc) == hpc' = [hpc EXCEPT ![h] = pc]

(* The answer of a login: a token, if the account it has in memory may     *)
(* have one.                                                               *)
Answer(h, allowed) ==
  /\ logins' = IF allowed THEN [logins EXCEPT ![code[h]] = @ + 1] ELSE logins
  /\ UNCHANGED <<contested, tangled>>
  /\ Done(h)

(* findOne of the users row, which will be saved as row r.                 *)
Keep(h, r) ==
  /\ mem' = [mem EXCEPT ![h] = r]
  /\ read' = [read EXCEPT ![h] = user]
  /\ tangled' = (tangled \/ \E g \in Handler \ {h} : Saving(g))
  /\ Goto(h, "select")
  /\ UNCHANGED base

-----------------------------------------------------------------------------
(* sendOtp, and its expiry.                                                *)
SendOtp(o) ==
  /\ otp[o] = "none"
  /\ otp' = [otp EXCEPT ![o] = "open"]
  /\ UNCHANGED <<user, alert, log, hpc, requestVars, saveVars, historyVars>>

Expire(o) ==
  /\ otp[o] = "open"
  /\ otp' = [otp EXCEPT ![o] = "closed"]
  /\ UNCHANGED <<user, alert, log, hpc, requestVars, saveVars, historyVars>>

(* Mutant of FindOtp: an OTP that is not open is not refused.              *)
FindsAnyOtp(h, o, d) ==
  /\ hpc[h] = "idle"
  /\ Goto(h, "mark")
  /\ job' = [job EXCEPT ![h] = "login"]
  /\ code' = [code EXCEPT ![h] = IF otp[o] = "open" THEN o ELSE None]
  /\ from' = [from EXCEPT ![h] = d]
  /\ contested' = IF \E g \in Handler : hpc[g] = "mark" /\ code[g] = o
                    THEN contested \cup {o} ELSE contested
  /\ UNCHANGED <<otp, user, alert, log, about, saveVars, logins, tangled>>

(* verifyOtpAndLogin: the OTP is there, not verified and not expired.      *)
FindOtp(h, o, d) ==
  /\ hpc[h] = "idle"
  /\ otp[o] = "open"
  /\ Goto(h, "mark")
  /\ job' = [job EXCEPT ![h] = "login"]
  /\ code' = [code EXCEPT ![h] = o]
  /\ from' = [from EXCEPT ![h] = d]
  /\ contested' = IF \E g \in Handler : hpc[g] = "mark" /\ code[g] = o
                    THEN contested \cup {o} ELSE contested
  /\ UNCHANGED <<otp, user, alert, log, about, saveVars, logins, tangled>>

(* Mutant of MarkOtp: isVerified is set but not saved.                     *)
MarksInMemory(h) ==
  /\ hpc[h] = "mark"
  /\ Goto(h, "findUser")
  /\ UNCHANGED <<otp, user, alert, log, requestVars, saveVars, historyVars>>

(* isVerified is saved.                                                    *)
MarkOtp(h) ==
  /\ hpc[h] = "mark"
  /\ otp' = [otp EXCEPT ![code[h]] = "closed"]
  /\ Goto(h, "findUser")
  /\ UNCHANGED <<user, alert, log, requestVars, saveVars, historyVars>>

(* Mutant of FindUser: another device rebinds the account.                 *)
FindUserRebinds(h) ==
  /\ hpc[h] = "findUser"
  /\ \/ user = NoUser /\ Goto(h, "create") /\ UNCHANGED <<requestVars, saveVars, historyVars>>
     \/ user # NoUser /\ user.device = from[h] /\ Answer(h, user.isActive)
     \/ /\ user # NoUser /\ user.device # from[h]
        /\ Keep(h, [user EXCEPT !.device = from[h]])
        /\ UNCHANGED <<requestVars, logins, contested>>
  /\ UNCHANGED <<otp, user, alert, log>>

(* findOne of the user: create him, refuse another device, log in on the   *)
(* bound one, or bind.                                                     *)
FindUser(h) ==
  /\ hpc[h] = "findUser"
  /\ \/ user = NoUser /\ Goto(h, "create") /\ UNCHANGED <<requestVars, saveVars, historyVars>>
     \/ user # NoUser /\ user.device \notin {from[h], NoDevice} /\ Answer(h, FALSE)
     \/ user # NoUser /\ user.device = from[h] /\ Answer(h, user.isActive)
     \/ /\ user # NoUser /\ user.device = NoDevice
        /\ Keep(h, [user EXCEPT !.device = from[h]])
        /\ UNCHANGED <<requestVars, logins, contested>>
  /\ UNCHANGED <<otp, user, alert, log>>

(* The insert of a new user; phoneNumber is unique, so that the second of  *)
(* two inserts throws.                                                     *)
CreateUser(h) ==
  /\ hpc[h] = "create"
  /\ user' = IF user = NoUser THEN NewUser(from[h]) ELSE user
  /\ Answer(h, user = NoUser)
  /\ UNCHANGED <<otp, alert, log>>

-----------------------------------------------------------------------------
(* lockUserAccount and unlockUserAccount: findOne.                         *)
AdminFind(h, op) ==
  /\ hpc[h] = "idle"
  /\ user # NoUser
  /\ Keep(h, [user EXCEPT !.isActive = (op = "unlock")])
  /\ job' = [job EXCEPT ![h] = op]
  /\ UNCHANGED <<otp, user, alert, log, code, from, about, logins, contested>>

(* The two queries of save.                                                *)
SelectUser(h) ==
  /\ hpc[h] = "select"
  /\ base' = [base EXCEPT ![h] = user]
  /\ Goto(h, "update")
  /\ UNCHANGED <<otp, user, alert, log, requestVars, mem, read, historyVars>>

Updated(now, old, new) ==
  [f \in DOMAIN now |-> IF new[f] = old[f] THEN now[f] ELSE new[f]]

(* After the update an administrator's call goes on to the audit log, and  *)
(* a login to the check of isActive, in the row it has in memory.          *)
UpdateUser(h) ==
  /\ hpc[h] = "update"
  /\ user' = Updated(user, base[h], mem[h])
  /\ IF job[h] = "login"
       THEN Answer(h, mem[h].isActive)
       ELSE Goto(h, "audit") /\ Forget(h) /\ UNCHANGED <<requestVars, historyVars>>
  /\ UNCHANGED <<otp, alert, log>>

(* Mutant of Audit: the action is not logged.                              *)
SkipsAudit(h) ==
  /\ hpc[h] = "audit"
  /\ Done(h)
  /\ UNCHANGED <<otp, user, alert, log, historyVars>>

(* createAuditLog.                                                         *)
Audit(h) ==
  /\ hpc[h] = "audit"
  /\ log' = job[h]
  /\ Done(h)
  /\ UNCHANGED <<otp, user, alert, historyVars>>

-----------------------------------------------------------------------------
(* createAlert for a critical alert: the alert, then the wallet lock.      *)
Raise(h, f) ==
  /\ hpc[h] = "idle"
  /\ user # NoUser
  /\ alert[f] = "none"
  /\ alert' = [alert EXCEPT ![f] = "FLAGGED"]
  /\ Goto(h, "walletLock")
  /\ job' = [job EXCEPT ![h] = "alert"]
  /\ about' = [about EXCEPT ![h] = f]
  /\ UNCHANGED <<otp, user, log, code, from, saveVars, historyVars>>

(* lockUserWallet, an update of the one column.                             *)
WalletLock(h) ==
  /\ hpc[h] = "walletLock"
  /\ user' = [user EXCEPT !.isWalletLocked = TRUE]
  /\ Done(h)
  /\ UNCHANGED <<otp, alert, log, historyVars>>

(* reviewAlert: the alert is found; CLEARED unlocks the wallet first.      *)
Review(h, f, verdict) ==
  /\ hpc[h] = "idle"
  /\ alert[f] # "none"
  /\ Goto(h, IF verdict = "CLEARED" THEN "walletUnlock" ELSE "verdict")
  /\ job' = [job EXCEPT ![h] = verdict]
  /\ about' = [about EXCEPT ![h] = f]
  /\ UNCHANGED <<otp, user, alert, log, code, from, saveVars, historyVars>>

WalletUnlock(h) ==
  /\ hpc[h] = "walletUnlock"
  /\ user' = [user EXCEPT !.isWalletLocked = FALSE]
  /\ Goto(h, "verdict")
  /\ UNCHANGED <<otp, alert, log, requestVars, saveVars, historyVars>>

(* The alert is saved with the verdict.                                    *)
SaveVerdict(h) ==
  /\ hpc[h] = "verdict"
  /\ alert' = [alert EXCEPT ![about[h]] = job[h]]
  /\ Done(h)
  /\ UNCHANGED <<otp, user, log, historyVars>>

-----------------------------------------------------------------------------
(* Support unbinds the device: the message of verifyOtpAndLogin names it,  *)
(* the code has no operation for it.                                       *)
SupportUnbinds ==
  /\ user # NoUser
  /\ user' = [user EXCEPT !.device = NoDevice]
  /\ UNCHANGED <<otp, alert, log, hpc, requestVars, saveVars, historyVars>>

(* A query fails or the process ends: the request ends where it is.        *)
Fail(h) ==
  /\ hpc[h] # "idle"
  /\ Done(h)
  /\ tangled' = (tangled \/ hpc[h] = "audit")
  /\ UNCHANGED <<otp, user, alert, log, logins, contested>>

LoginStep(h) == MarkOtp(h) \/ FindUser(h) \/ CreateUser(h)
SaveStep(h)  == SelectUser(h) \/ UpdateUser(h) \/ Audit(h)
FraudStep(h) == WalletLock(h) \/ WalletUnlock(h) \/ SaveVerdict(h)

Next ==
  \/ \E o \in Otp : SendOtp(o) \/ Expire(o)
  \/ \E h \in Handler :
       \/ \E o \in Otp, d \in Device : FindOtp(h, o, d)
       \/ \E op \in {"lock", "unlock"} : AdminFind(h, op)
       \/ \E f \in Alert : Raise(h, f) \/ \E v \in Verdict : Review(h, f, v)
       \/ LoginStep(h) \/ SaveStep(h) \/ FraudStep(h) \/ Fail(h)
  \/ SupportUnbinds

Spec == Init /\ [][Next]_vars

-----------------------------------------------------------------------------
(* The types of accounts: a login is always about an OTP that was found,   *)
(* and the users row has all its columns whatever saves overlap.           *)
TypeOK ==
  /\ otp \in [Otp -> {"none", "open", "closed"}]
  /\ user \in User \cup {NoUser}
  /\ alert \in [Alert -> {"none", "FLAGGED"} \cup Verdict]
  /\ log \in {"none", "lock", "unlock"}
  /\ hpc \in [Handler -> {"idle", "mark", "findUser", "create", "select", "update",
                          "audit", "walletLock", "walletUnlock", "verdict"}]
  /\ job \in [Handler -> {"none", "login", "lock", "unlock", "alert"} \cup Verdict]
  /\ code \in [Handler -> Otp \cup {None}]
  /\ \A h \in Handler : job[h] = "login" => code[h] \in Otp
  /\ from \in [Handler -> Device \cup {NoDevice}]
  /\ about \in [Handler -> Alert \cup {None}]
  /\ mem \in [Handler -> User \cup {NoUser}]
  /\ base \in [Handler -> User \cup {NoUser}]
  /\ read \in [Handler -> User \cup {NoUser}]
  /\ logins \in [Otp -> Nat]
  /\ contested \subseteq Otp
  /\ tangled \in BOOLEAN

(* An OTP logs in once, unless two requests had found it before either     *)
(* marked it as verified: expiry, failures and logins that end early give  *)
(* no second token for it.                                                 *)
OneLoginPerOtp == \A o \in Otp \ contested : logins[o] <= 1

(* Handler h saves a row that is not what it read any more.                *)
StaleSave(h) ==
  hpc[h] = "update" /\ hpc'[h] # "update" /\ {user, base[h]} # {read[h]}

(* What protects an account is lifted only by the request for it: it is    *)
(* active again after an unlock, its wallet is unlocked after an alert was *)
(* cleared, and a bound device stays bound unless support unbinds it.      *)
(* Only a save of the users row that was read before another write undoes  *)
(* any of them.                                                            *)
ProtectionHolds ==
  [][ ( /\ {user, user'} \subseteq User
        /\ ~ \E h \in Handler : StaleSave(h) )
      => /\ ~user.isActive /\ user'.isActive
              => \E h \in Handler : hpc[h] = "update" /\ job[h] = "unlock"
         /\ user.isWalletLocked /\ ~user'.isWalletLocked
              => \E h \in Handler : hpc[h] = "walletUnlock"
         /\ user'.device \in {user.device, NoDevice} \/ user.device = NoDevice ]_vars

(* The last entry of the audit log tells whether the account is active,    *)
(* unless two handlers saved the users row at once or one failed between   *)
(* its save and its entry.                                                 *)
LogExplainsAccount ==
  ( /\ user # NoUser /\ ~tangled
    /\ \A h \in Handler : hpc[h] # "audit" )
    => user.isActive = (log # "lock")

=============================================================================
