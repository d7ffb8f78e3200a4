--------------------------- MODULE AccountsProofs ---------------------------
(***************************************************************************)
(* Proofs about Accounts, for any number of handlers, OTPs, devices and    *)
(* alerts.                                                                 *)
(***************************************************************************)
EXTENDS Accounts, TLAPS

(* What the step a handler has reached says of the rest of its slot.       *)
Slots ==
  \A h \in Handler :
    /\ job[h] = "login" => code[h] \in Otp /\ from[h] \in Device
    /\ job[h] # "login" => code[h] = None
    /\ hpc[h] = "idle" => job[h] = "none"
    /\ hpc[h] \in {"mark", "findUser", "create"} => job[h] = "login"
    /\ hpc[h] \in {"select", "update"} => /\ job[h] \in {"login", "lock", "unlock"}
                                          /\ mem[h] \in User
    /\ hpc[h] = "update" => base[h] \in User
    /\ hpc[h] = "audit" => job[h] \in {"lock", "unlock"}
    /\ hpc[h] \in {"walletUnlock", "verdict"} => job[h] \in Verdict
    /\ hpc[h] \in {"walletLock", "walletUnlock", "verdict"} \/ Saving(h) => user \in User

(* An alert is about an account that is there.                             *)
Alerts == \A f \in Alert : alert[f] # "none" => user \in User

TypeInv == TypeOK /\ Slots /\ Alerts

-----------------------------------------------------------------------------
(* A save writes a column as the handler has it where that differs from    *)
(* what the save selected, and leaves the others.                          *)
LEMMA UpdatedUser ==
  ASSUME NEW now \in User, NEW old \in User, NEW new \in User
  PROVE  LET u == Updated(now, old, new)
         IN  /\ u \in User
             /\ u.device = IF new.device = old.device THEN now.device ELSE new.device
             /\ u.isActive = IF new.isActive = old.isActive
                               THEN now.isActive ELSE new.isActive
             /\ u.isWalletLocked = IF new.isWalletLocked = old.isWalletLocked
                                     THEN now.isWalletLocked ELSE new.isWalletLocked
<1>1. DOMAIN now = {"device", "isActive", "isWalletLocked"}
  BY DEF User
<1> DEFINE u == Updated(now, old, new)
<1>2. u = [f \in {"device", "isActive", "isWalletLocked"} |->
             IF new[f] = old[f] THEN now[f] ELSE new[f]]
  BY <1>1 DEF Updated
<1>3. /\ u["device"] = IF new["device"] = old["device"] THEN now["device"] ELSE new["device"]
      /\ u["isActive"] = IF new["isActive"] = old["isActive"] THEN now["isActive"] ELSE new["isActive"]
      /\ u["isWalletLocked"] = IF new["isWalletLocked"] = old["isWalletLocked"]
                                 THEN now["isWalletLocked"] ELSE new["isWalletLocked"]
  BY <1>2
<1>4. u \in User
  BY <1>2, <1>3 DEF User
<1> QED
  BY <1>3, <1>4

(* What a handler leaves behind at its end, and what it has after the      *)
(* findOne of the users row.                                               *)
LEMMA DoneFrame ==
  ASSUME TypeInv, NEW h \in Handler, Done(h)
  PROVE  /\ hpc' = [hpc EXCEPT ![h] = "idle"]
         /\ job' = [job EXCEPT ![h] = "none"]
         /\ code' = [code EXCEPT ![h] = None]
         /\ from' \in [Handler -> Device \cup {NoDevice}]
         /\ about' \in [Handler -> Alert \cup {None}]
         /\ mem' \in [Handler -> User \cup {NoUser}]
         /\ base' \in [Handler -> User \cup {NoUser}]
         /\ read' \in [Handler -> User \cup {NoUser}]
         /\ \A g \in Handler \ {h} : /\ from'[g] = from[g] /\ about'[g] = about[g]
                                    /\ mem'[g] = mem[g] /\ base'[g] = base[g]
                                    /\ read'[g] = read[g]
BY DEF TypeInv, TypeOK, Done, Forget

(* At its end a handler keeps the types, if what it wrote has its type.    *)
LEMMA DoneTyped ==
  ASSUME TypeInv, NEW h \in Handler, Done(h),
         user \in User => user' \in User,
         user' \in User \cup {NoUser},
         otp' = otp, log' \in {"none", "lock", "unlock"},
         alert' \in [Alert -> {"none", "FLAGGED"} \cup Verdict],
         \A f \in Alert : alert'[f] # "none" => user' \in User,
         logins' \in [Otp -> Nat], contested' = contested, tangled' \in BOOLEAN
  PROVE  TypeInv'
<1>1. TypeOK'
  BY DoneFrame DEF TypeInv, TypeOK
<1>2. Slots'
  BY DoneFrame DEF TypeInv, TypeOK, Slots, Saving
<1> QED
  BY <1>1, <1>2 DEF TypeInv, Alerts

(* The answer of a login, with or without a token, ends its handler.       *)
LEMMA AnswerFrame ==
  ASSUME TypeInv, NEW h \in Handler, NEW allowed, Answer(h, allowed)
  PROVE  /\ Done(h)
         /\ logins' \in [Otp -> Nat]
         /\ logins' = logins \/ logins' = [logins EXCEPT ![code[h]] = @ + 1]
         /\ UNCHANGED <<contested, tangled>>
<1>1. CASE allowed
  <2>1. logins' = [logins EXCEPT ![code[h]] = @ + 1]
    BY <1>1 DEF Answer
  <2>2. logins \in [Otp -> Nat]
    BY DEF TypeInv, TypeOK
  <2>3. \A o \in Otp : logins'[o] \in Nat
    BY <2>1, <2>2
  <2>4. logins' \in [Otp -> Nat]
    BY <2>1, <2>2, <2>3
  <2> QED
    BY <2>1, <2>4 DEF Answer
<1>2. CASE ~allowed
  BY <1>2 DEF Answer, TypeInv, TypeOK
<1> QED
  BY <1>1, <1>2

(* Every step keeps types and slots.                                       *)
LEMMA TypeStep ==
  ASSUME TypeInv, [Next]_vars
  PROVE  TypeInv'
<1> USE DEF TypeInv, Alerts
<1>1. ASSUME NEW o \in Otp, SendOtp(o) \/ Expire(o)
      PROVE  TypeInv'
  BY <1>1 DEF SendOtp, Expire, TypeOK, Slots, Saving, requestVars, saveVars, historyVars
<1>2. ASSUME NEW h \in Handler, NEW o \in Otp, NEW d \in Device, FindOtp(h, o, d)
      PROVE  TypeInv'
  <2>1. TypeOK'
    BY <1>2 DEF FindOtp, Goto, TypeOK, saveVars
  <2>2. Slots'
    BY <1>2 DEF FindOtp, Goto, TypeOK, Slots, Saving, saveVars
  <2> QED
    BY <1>2, <2>1, <2>2 DEF FindOtp
<1>3. ASSUME NEW h \in Handler, MarkOtp(h)
      PROVE  TypeInv'
  BY <1>3 DEF MarkOtp, Goto, TypeOK, Slots, Saving, requestVars, saveVars, historyVars
<1>4. ASSUME NEW h \in Handler, FindUser(h)
      PROVE  TypeInv'
  <2>1. CASE Goto(h, "create") /\ UNCHANGED <<requestVars, saveVars, historyVars>>
    BY <1>4, <2>1 DEF FindUser, Goto, TypeOK, Slots, Saving, requestVars, saveVars, historyVars
  <2>2. CASE \E allowed \in BOOLEAN : Answer(h, allowed)
    BY <1>4, <2>2, AnswerFrame, DoneTyped DEF FindUser, TypeOK
  <2>3. CASE /\ user # NoUser
             /\ Keep(h, [user EXCEPT !.device = from[h]])
             /\ UNCHANGED <<requestVars, logins, contested>>
    <3>1. job[h] = "login" /\ from[h] \in Device /\ user \in User
      BY <1>4, <2>3 DEF FindUser, Slots, TypeOK
    <3>2. [user EXCEPT !.device = from[h]] \in User
      BY <3>1 DEF User
    <3>3. TypeOK'
      BY <1>4, <2>3, <3>1, <3>2 DEF FindUser, Keep, Goto, TypeOK, requestVars
    <3>4. Slots'
      BY <1>4, <2>3, <3>1, <3>2 DEF FindUser, Keep, Goto, TypeOK, Slots, Saving, requestVars
    <3> QED
      BY <1>4, <3>3, <3>4 DEF FindUser
  <2> QED
    BY <1>4, <2>1, <2>2, <2>3 DEF FindUser, TypeOK, User
<1>5. ASSUME NEW h \in Handler, CreateUser(h)
      PROVE  TypeInv'
  <2>1. from[h] \in Device /\ NewUser(from[h]) \in User
    BY <1>5 DEF CreateUser, Slots, NewUser, User
  <2> QED
    BY <1>5, <2>1, AnswerFrame, DoneTyped DEF CreateUser, TypeOK
<1>6. ASSUME NEW h \in Handler, NEW op \in {"lock", "unlock"}, AdminFind(h, op)
      PROVE  TypeInv'
  <2>1. user \in User /\ [user EXCEPT !.isActive = (op = "unlock")] \in User
    BY <1>6 DEF AdminFind, TypeOK, User
  <2>2. TypeOK'
    BY <1>6, <2>1 DEF AdminFind, Keep, Goto, TypeOK
  <2>3. Slots'
    BY <1>6, <2>1 DEF AdminFind, Keep, Goto, TypeOK, Slots, Saving
  <2> QED
    BY <1>6, <2>2, <2>3 DEF AdminFind
<1>7. ASSUME NEW h \in Handler, SelectUser(h)
      PROVE  TypeInv'
  BY <1>7 DEF SelectUser, Goto, TypeOK, Slots, Saving, requestVars, historyVars
<1>8. ASSUME NEW h \in Handler, UpdateUser(h)
      PROVE  TypeInv'
  <2>1. user' \in User
    BY <1>8, UpdatedUser DEF UpdateUser, Slots, Saving
  <2>2. CASE Answer(h, mem[h].isActive)
    BY <1>8, <2>1, <2>2, AnswerFrame, DoneTyped DEF UpdateUser, TypeOK
  <2>3. CASE job[h] # "login" /\ Goto(h, "audit") /\ Forget(h) /\ UNCHANGED <<requestVars, historyVars>>
    <3>1. TypeOK'
      BY <1>8, <2>1, <2>3 DEF UpdateUser, Goto, Forget, TypeOK, requestVars, historyVars
    <3>2. Slots'
      BY <1>8, <2>1, <2>3 DEF UpdateUser, Goto, Forget, TypeOK, Slots, Saving, requestVars
    <3> QED
      BY <1>8, <2>1, <3>1, <3>2 DEF UpdateUser
  <2> QED
    BY <1>8, <2>2, <2>3 DEF UpdateUser
<1>9. ASSUME NEW h \in Handler, Audit(h)
      PROVE  TypeInv'
  BY <1>9, DoneTyped DEF Audit, Slots, TypeOK, historyVars
<1>10. ASSUME NEW h \in Handler, NEW f \in Alert,
              Raise(h, f) \/ \E v \in Verdict : Review(h, f, v)
       PROVE  TypeInv'
  <2>1. user \in User
    BY <1>10 DEF Raise, Review, TypeOK
  <2>2. TypeOK'
    BY <1>10 DEF Raise, Review, Goto, TypeOK, saveVars, historyVars, Verdict
  <2>3. Slots'
    BY <1>10, <2>1 DEF Raise, Review, Goto, TypeOK, Slots, Saving, saveVars, Verdict
  <2> QED
    BY <1>10, <2>1, <2>2, <2>3 DEF Raise, Review
<1>11. ASSUME NEW h \in Handler, WalletLock(h) \/ SaveVerdict(h)
       PROVE  TypeInv'
  <2>1. CASE WalletLock(h)
    <3>1. user \in User /\ user' \in User
      BY <2>1 DEF WalletLock, Slots, User
    <3> QED
      BY <2>1, <3>1, DoneTyped DEF WalletLock, TypeOK, historyVars
  <2>2. CASE SaveVerdict(h)
    <3>1. user \in User
      BY <2>2 DEF SaveVerdict, Slots
    <3> QED
      BY <2>2, <3>1, DoneTyped DEF SaveVerdict, Slots, TypeOK, historyVars
  <2> QED
    BY <1>11, <2>1, <2>2
<1>12. ASSUME NEW h \in Handler, WalletUnlock(h)
       PROVE  TypeInv'
  <2>1. user \in User /\ user' \in User
    BY <1>12 DEF WalletUnlock, Slots, User
  <2> QED
    BY <1>12, <2>1 DEF WalletUnlock, Goto, TypeOK, Slots, Saving, requestVars, saveVars, historyVars
<1>13. CASE SupportUnbinds
  <2>1. user \in User /\ user' \in User
    BY <1>13 DEF SupportUnbinds, TypeOK, User
  <2> QED
    BY <1>13, <2>1 DEF SupportUnbinds, TypeOK, Slots, Saving, requestVars, saveVars, historyVars
<1>14. ASSUME NEW h \in Handler, Fail(h)
       PROVE  TypeInv'
  BY <1>14, DoneTyped DEF Fail, TypeOK
<1>15. CASE UNCHANGED vars
  BY <1>15 DEF vars, TypeOK, Slots, Saving, requestVars, saveVars, historyVars
<1> QED
  BY <1>1, <1>2, <1>3, <1>4, <1>5, <1>6, <1>7, <1>8, <1>9, <1>10, <1>11, <1>12,
     <1>13, <1>14, <1>15 DEF Next, LoginStep, SaveStep, FraudStep

(* No request is being served at the start.                                *)
LEMMA TypeInit == Init => TypeInv
<1> SUFFICES ASSUME Init PROVE TypeInv
  OBVIOUS
<1>1. user \in User \cup {NoUser}
  <2>1. \A d \in Device : NewUser(d) \in User
    BY DEF NewUser, User
  <2> QED
    BY <2>1 DEF Init
<1>2. TypeOK
  BY <1>1 DEF Init, TypeOK
<1> QED
  BY <1>2 DEF Init, TypeInv, Slots, Alerts, Saving

(* Every state of a behaviour has its type.                                *)
THEOREM AccountsTyped == Spec => [](TypeOK /\ Slots)
<1>1. TypeInv /\ [Next]_vars => TypeInv'
  BY TypeStep
<1>2. TypeInv => TypeOK /\ Slots
  BY DEF TypeInv
<1> QED
  BY TypeInit, <1>1, <1>2, PTL DEF Spec

-----------------------------------------------------------------------------
(* Why an OTP logs in once.  At most one handler works with an uncontested *)
(* OTP; until it answers nobody has logged in with it; and before the OTP  *)
(* is closed nobody has, and its handler has yet to mark it.               *)
OneHolder ==
  \A o \in Otp \ contested :
    /\ \A g, h \in Handler : code[g] = o /\ code[h] = o => g = h
    /\ (\E h \in Handler : code[h] = o) => logins[o] = 0
    /\ otp[o] # "closed" => /\ logins[o] = 0
                            /\ \A h \in Handler : code[h] = o => hpc[h] = "mark"
    /\ logins[o] <= 1

(* A step that gives no token, takes no OTP in hand and opens none keeps   *)
(* it, if a handler goes on from the mark only with its OTP closed.        *)
LEMMA OthersKeepOtp ==
  ASSUME TypeInv, OneHolder,
         \A h \in Handler :
           /\ code'[h] \in {None, code[h]}
           /\ code'[h] \in Otp => hpc'[h] = hpc[h] \/ otp'[code[h]] = "closed",
         \A o \in Otp : (otp[o] = "closed") => (otp'[o] = "closed"),
         UNCHANGED <<logins, contested>>
  PROVE  OneHolder'
BY NoneAssumption DEF TypeInv, TypeOK, OneHolder

(* An answer uses the OTP up: it is closed and no other handler has it.    *)
LEMMA AnswerKeepsOtp ==
  ASSUME TypeInv, OneHolder, NEW h \in Handler, NEW allowed, Answer(h, allowed),
         hpc[h] # "mark", code[h] \in Otp, UNCHANGED otp
  PROVE  OneHolder'
<1>1. /\ code' = [code EXCEPT ![h] = None]
      /\ hpc' = [hpc EXCEPT ![h] = "idle"]
      /\ UNCHANGED contested
  BY DoneFrame, AnswerFrame
<1>2. CASE UNCHANGED logins
  BY <1>1, <1>2, OthersKeepOtp, NoneAssumption DEF TypeInv, TypeOK
<1>3. CASE logins' = [logins EXCEPT ![code[h]] = @ + 1]
  <2>1. \A o \in Otp \ {code[h]} : logins'[o] = logins[o]
    BY <1>3 DEF TypeInv, TypeOK
  <2>2. code[h] \notin contested =>
          /\ otp[code[h]] = "closed" /\ logins'[code[h]] = 1
          /\ \A g \in Handler \ {h} : code[g] # code[h]
    BY <1>3 DEF OneHolder, TypeInv, TypeOK
  <2> QED
    BY <1>1, <2>1, <2>2, NoneAssumption DEF OneHolder, TypeInv, TypeOK
<1> QED
  BY <1>2, <1>3, AnswerFrame

(* Every step keeps it.                                                    *)
LEMMA OneHolderStep ==
  ASSUME TypeInv, OneHolder, [Next]_vars
  PROVE  OneHolder'
<1>1. ASSUME NEW o \in Otp, SendOtp(o) \/ Expire(o)
      PROVE  OneHolder'
  BY <1>1, OthersKeepOtp DEF SendOtp, Expire, TypeInv, TypeOK, requestVars, historyVars
<1>2. ASSUME NEW h \in Handler, NEW o \in Otp, NEW d \in Device, FindOtp(h, o, d)
      PROVE  OneHolder'
  <2>1. /\ hpc' = [hpc EXCEPT ![h] = "mark"] /\ code' = [code EXCEPT ![h] = o]
        /\ UNCHANGED <<otp, logins>>
        /\ contested \subseteq contested' /\ contested' \subseteq contested \cup {o}
    BY <1>2 DEF FindOtp, Goto
  <2>2. o \notin contested' => logins[o] = 0 /\ \A g \in Handler : code[g] # o
    BY <1>2, <2>1 DEF FindOtp, OneHolder
  <2> QED
    BY <2>1, <2>2 DEF OneHolder, TypeInv, TypeOK
<1>3. ASSUME NEW h \in Handler, MarkOtp(h)
      PROVE  OneHolder'
  BY <1>3, OthersKeepOtp DEF MarkOtp, Goto, TypeInv, TypeOK, requestVars, historyVars
<1>4. ASSUME NEW h \in Handler, FindUser(h) \/ UpdateUser(h),
             code' = code, UNCHANGED <<logins, contested>>
      PROVE  OneHolder'
  <2>1. hpc[h] # "mark" /\ UNCHANGED otp
    BY <1>4 DEF FindUser, UpdateUser
  <2>2. \A g \in Handler \ {h} : hpc'[g] = hpc[g]
    <3>1. (\E pc : Goto(h, pc)) \/ (\E allowed : Answer(h, allowed))
      BY <1>4 DEF FindUser, UpdateUser, Keep
    <3>2. \E pc : hpc' = [hpc EXCEPT ![h] = pc]
      BY <3>1, AnswerFrame, DoneFrame DEF Goto
    <3> QED
      BY <3>2 DEF TypeInv, TypeOK
  <2>3. code[h] \in Otp \ contested => otp[code[h]] = "closed"
    BY <2>1 DEF OneHolder
  <2> QED
    BY <1>4, <2>1, <2>2, <2>3 DEF OneHolder, TypeInv, TypeOK
<1>5. ASSUME NEW h \in Handler, FindUser(h) \/ CreateUser(h) \/ UpdateUser(h),
             NEW allowed, Answer(h, allowed), job[h] = "login"
      PROVE  OneHolder'
  <2>1. hpc[h] # "mark" /\ code[h] \in Otp /\ UNCHANGED otp
    BY <1>5 DEF FindUser, CreateUser, UpdateUser, TypeInv, Slots
  <2> QED
    BY <1>5, <2>1, AnswerKeepsOtp
<1>6. ASSUME NEW h \in Handler, FindUser(h) \/ CreateUser(h) \/ UpdateUser(h)
      PROVE  OneHolder'
  <2>1. CASE FindUser(h)
    BY <1>4, <1>5, <2>1 DEF FindUser, Keep, TypeInv, Slots, requestVars, historyVars
  <2>2. CASE CreateUser(h)
    BY <1>5, <2>2 DEF CreateUser, TypeInv, Slots
  <2>3. CASE UpdateUser(h)
    BY <1>4, <1>5, <2>3 DEF UpdateUser, requestVars, historyVars
  <2> QED
    BY <1>6, <2>1, <2>2, <2>3
<1>7. ASSUME NEW h \in Handler, code[h] = None, \A g \in Handler \ {h} : hpc'[g] = hpc[g],
             code' = code, UNCHANGED <<otp, logins, contested>>
      PROVE  OneHolder'
  BY <1>7, OthersKeepOtp, NoneAssumption
<1>8. ASSUME NEW h \in Handler, Done(h), UNCHANGED <<otp, logins, contested>>
      PROVE  OneHolder'
  BY <1>8, DoneFrame, OthersKeepOtp, NoneAssumption DEF TypeInv, TypeOK
<1>9. ASSUME NEW h \in Handler, NEW op \in {"lock", "unlock"}, AdminFind(h, op)
      PROVE  OneHolder'
  BY <1>9, <1>7 DEF AdminFind, Keep, Goto, TypeInv, TypeOK, Slots
<1>10. ASSUME NEW h \in Handler, NEW f \in Alert,
              Raise(h, f) \/ \E v \in Verdict : Review(h, f, v)
       PROVE  OneHolder'
  BY <1>10, <1>7 DEF Raise, Review, Goto, TypeInv, TypeOK, Slots, historyVars
<1>11. ASSUME NEW h \in Handler, Audit(h) \/ WalletLock(h) \/ SaveVerdict(h) \/ Fail(h)
       PROVE  OneHolder'
  BY <1>8, <1>11 DEF Audit, WalletLock, SaveVerdict, Fail, historyVars
<1>12. ASSUME NEW h \in Handler, SelectUser(h)
       PROVE  OneHolder'
  <2>1. code[h] \in Otp \ contested => otp[code[h]] = "closed"
    BY <1>12 DEF SelectUser, OneHolder
  <2> QED
    BY <1>12, <2>1 DEF SelectUser, Goto, OneHolder, TypeInv, TypeOK, requestVars, historyVars
<1>13. ASSUME NEW h \in Handler, WalletUnlock(h)
       PROVE  OneHolder'
  BY <1>7, <1>13 DEF WalletUnlock, Goto, TypeInv, TypeOK, Slots, Verdict, requestVars, historyVars
<1>14. CASE SupportUnbinds \/ UNCHANGED vars
  BY <1>14 DEF SupportUnbinds, vars, OneHolder, requestVars, historyVars
<1> QED
  BY <1>1, <1>2, <1>3, <1>6, <1>9, <1>10, <1>11, <1>12, <1>13, <1>14
     DEF Next, LoginStep, SaveStep, FraudStep

(* An OTP that no two handlers had found before either marked it gives at  *)
(* most one token, whatever expires, fails or is retried.                  *)
THEOREM OtpsLogInOnce == Spec => []OneLoginPerOtp
<1>1. Init => OneHolder
  BY NoneAssumption DEF Init, OneHolder
<1>2. TypeInv /\ OneHolder /\ [Next]_vars => TypeInv' /\ OneHolder'
  BY TypeStep, OneHolderStep
<1>3. OneHolder => OneLoginPerOtp
  BY DEF OneHolder, OneLoginPerOtp
<1> QED
  BY TypeInit, <1>1, <1>2, <1>3, PTL DEF Spec

-----------------------------------------------------------------------------
(* Why the log explains the account.  Until handlers get tangled, at most  *)
(* one of them saves the users row; what it will make of isActive is what  *)
(* it was asked for, and between its update and its entry the account is   *)
(* already what the entry will say.                                        *)
OneSaver ==
  /\ user = NoUser => log = "none"
  /\ ~tangled =>
       /\ \A g, h \in Handler : Saving(g) /\ Saving(h) => g = h
       /\ \A h \in Handler :
            /\ hpc[h] \in {"select", "update"} =>
                 mem[h].isActive = IF job[h] = "login" THEN user.isActive
                                                      ELSE (job[h] = "unlock")
            /\ hpc[h] = "update" => base[h].isActive = user.isActive
            /\ hpc[h] = "audit" => user.isActive = (job[h] = "unlock")
       /\ user # NoUser /\ (\A h \in Handler : hpc[h] # "audit")
            => user.isActive = (log # "lock")

(* A step that leaves isActive, the log and the saving handlers alone      *)
(* keeps it, and so does one that takes a handler out of its save.         *)
LEMMA OthersKeepLog ==
  ASSUME TypeInv, OneSaver,
         user' = user \/ (user \in User /\ user' \in User /\ user'.isActive = user.isActive),
         UNCHANGED log,
         \A h \in Handler :
           /\ Saving(h)' => UNCHANGED <<hpc[h], job[h], mem[h], base[h]>>
           /\ hpc[h] = "audit" => hpc'[h] = "audit" \/ tangled',
         tangled => tangled'
  PROVE  OneSaver'
BY NoUserAssumption DEF TypeInv, TypeOK, OneSaver, Saving

(* A login that ends without a save keeps it.                              *)
LEMMA DoneKeepsLog ==
  ASSUME TypeInv, OneSaver, NEW h \in Handler, Done(h), hpc[h] # "audit" \/ tangled',
         user' = user \/ (user \in User /\ user' \in User /\ user'.isActive = user.isActive),
         UNCHANGED log, tangled => tangled'
  PROVE  OneSaver'
<1>1. \A g \in Handler : /\ Saving(g)' => UNCHANGED <<hpc[g], job[g], mem[g], base[g]>>
                         /\ hpc[g] = "audit" => hpc'[g] = "audit" \/ tangled'
  BY DoneFrame DEF TypeInv, TypeOK, Saving
<1> QED
  BY <1>1, OthersKeepLog

(* findOne of the row begins the only save, or tangles it.                 *)
LEMMA KeepKeepsLog ==
  ASSUME TypeInv, OneSaver, NEW h \in Handler, NEW r \in User, Keep(h, r),
         user \in User, UNCHANGED <<user, log>>, ~Saving(h),
         \A g \in Handler \ {h} : job'[g] = job[g],
         r.isActive = IF job'[h] = "login" THEN user.isActive ELSE (job'[h] = "unlock")
  PROVE  OneSaver'
<1>1. /\ hpc' = [hpc EXCEPT ![h] = "select"] /\ mem' = [mem EXCEPT ![h] = r]
      /\ UNCHANGED base
      /\ ~tangled' => ~tangled /\ \A g \in Handler \ {h} : ~Saving(g)
  BY DEF Keep, Goto
<1>2. \A g \in Handler \ {h} : UNCHANGED <<hpc[g], job[g], mem[g], base[g]>>
  BY <1>1 DEF TypeInv, TypeOK
<1>3. hpc'[h] = "select" /\ mem'[h] = r
  BY <1>1 DEF TypeInv, TypeOK
<1> QED
  BY <1>1, <1>2, <1>3, NoUserAssumption DEF OneSaver, Saving

(* Every step keeps it.                                                    *)
LEMMA OneSaverStep ==
  ASSUME TypeInv, TypeInv', OneSaver, [Next]_vars
  PROVE  OneSaver'
<1> USE NoUserAssumption
<1>1. ASSUME NEW o \in Otp, SendOtp(o) \/ Expire(o)
      PROVE  OneSaver'
  BY <1>1, OthersKeepLog DEF SendOtp, Expire, requestVars, saveVars, historyVars
<1>2. ASSUME NEW h \in Handler,
             \/ \E o \in Otp, d \in Device : FindOtp(h, o, d)
             \/ \E f \in Alert : Raise(h, f) \/ \E v \in Verdict : Review(h, f, v)
             \/ MarkOtp(h) \/ WalletUnlock(h)
             \/ FindUser(h) /\ Goto(h, "create") /\ UNCHANGED <<requestVars, saveVars, historyVars>>
      PROVE  OneSaver'
  <2>1. UNCHANGED <<mem, base, tangled, log>> /\ hpc[h] \notin {"select", "update", "audit"}
    BY <1>2 DEF FindOtp, Raise, Review, MarkOtp, WalletUnlock, FindUser, saveVars, historyVars
  <2>2. PICK pc \in {"mark", "walletLock", "walletUnlock", "verdict", "findUser", "create"} :
           hpc' = [hpc EXCEPT ![h] = pc]
    BY <1>2 DEF FindOtp, Raise, Review, MarkOtp, WalletUnlock, Goto, Verdict
  <2>3. \A g \in Handler \ {h} : UNCHANGED <<hpc[g], job[g]>>
    BY <1>2, <2>2 DEF FindOtp, Raise, Review, MarkOtp, WalletUnlock, requestVars, TypeInv, TypeOK
  <2>4. user' = user \/ (user \in User /\ user' \in User /\ user'.isActive = user.isActive)
    BY <1>2 DEF FindOtp, Raise, Review, MarkOtp, WalletUnlock, FindUser, TypeInv, Slots, User
  <2> QED
    BY <2>1, <2>2, <2>3, <2>4, OthersKeepLog DEF TypeInv, TypeOK, Saving
<1>3. ASSUME NEW h \in Handler, NEW allowed, FindUser(h), Answer(h, allowed)
      PROVE  OneSaver'
  BY <1>3, AnswerFrame, DoneKeepsLog DEF FindUser
<1>4. ASSUME NEW h \in Handler, FindUser(h), user # NoUser, user.device = NoDevice,
             Keep(h, [user EXCEPT !.device = from[h]]),
             UNCHANGED <<requestVars, logins, contested>>
      PROVE  OneSaver'
  <2>1. user \in User /\ job[h] = "login" /\ from[h] \in Device /\ ~Saving(h)
    BY <1>4 DEF FindUser, TypeInv, TypeOK, Slots, Saving
  <2>2. /\ [user EXCEPT !.device = from[h]] \in User
        /\ [user EXCEPT !.device = from[h]].isActive = user.isActive
    BY <2>1 DEF User
  <2> QED
    BY <1>4, <2>1, <2>2, KeepKeepsLog DEF FindUser, requestVars
<1>5. ASSUME NEW h \in Handler, CreateUser(h)
      PROVE  OneSaver'
  <2>1. CASE user = NoUser
    <3>1. user'.isActive = TRUE /\ log' = log /\ log = "none"
      BY <1>5, <2>1 DEF CreateUser, NewUser, OneSaver
    <3>2. \A g \in Handler : ~Saving(g) /\ ~Saving(g)'
      BY <1>5, <2>1, AnswerFrame, DoneFrame DEF CreateUser, Saving, TypeInv, TypeOK, Slots
    <3> QED
      BY <1>5, <2>1, <3>1, <3>2 DEF CreateUser, OneSaver, Saving
  <2>2. CASE user # NoUser
    BY <1>5, <2>2, AnswerFrame, DoneKeepsLog DEF CreateUser
  <2> QED
    BY <2>1, <2>2
<1>6. ASSUME NEW h \in Handler, NEW op \in {"lock", "unlock"}, AdminFind(h, op)
      PROVE  OneSaver'
  <2>1. user \in User /\ ~Saving(h) /\ job'[h] = op
    BY <1>6 DEF AdminFind, TypeInv, TypeOK, Saving
  <2>2. /\ [user EXCEPT !.isActive = (op = "unlock")] \in User
        /\ [user EXCEPT !.isActive = (op = "unlock")].isActive = (op = "unlock")
    BY <2>1 DEF User
  <2> QED
    BY <1>6, <2>1, <2>2, KeepKeepsLog DEF AdminFind, TypeInv, TypeOK
<1>7. ASSUME NEW h \in Handler, SelectUser(h)
      PROVE  OneSaver'
  BY <1>7 DEF SelectUser, Goto, OneSaver, Saving, TypeInv, TypeOK, requestVars, historyVars
<1>8. ASSUME NEW h \in Handler, UpdateUser(h)
      PROVE  OneSaver'
  <2>1. /\ {user, user', mem[h], base[h]} \subseteq User
        /\ user'.isActive = IF mem[h].isActive = base[h].isActive
                              THEN user.isActive ELSE mem[h].isActive
    BY <1>8, UpdatedUser DEF UpdateUser, TypeInv, Slots, Saving
  <2>2. ~tangled => user'.isActive = IF job[h] = "login" THEN user.isActive
                                                        ELSE (job[h] = "unlock")
    BY <1>8, <2>1 DEF UpdateUser, OneSaver
  <2>3. CASE job[h] = "login"
    <3>1. ~tangled => user'.isActive = user.isActive
      BY <2>2, <2>3
    <3>2. Done(h) /\ UNCHANGED <<log, tangled>>
      BY <1>8, <2>3, AnswerFrame DEF UpdateUser
    <3> QED
      BY <1>8, <2>1, <3>1, <3>2, DoneKeepsLog DEF UpdateUser, OneSaver
  <2>4. CASE job[h] # "login"
    <3>1. /\ hpc' = [hpc EXCEPT ![h] = "audit"]
          /\ UNCHANGED <<log, tangled, job>>
      BY <1>8, <2>4 DEF UpdateUser, Goto, requestVars, historyVars
    <3>2. ~tangled => \A g \in Handler \ {h} : ~Saving(g) /\ ~Saving(g)'
      BY <1>8, <3>1 DEF UpdateUser, OneSaver, Saving, TypeInv, TypeOK
    <3> QED
      BY <1>8, <2>1, <2>2, <2>4, <3>1, <3>2 DEF UpdateUser, OneSaver, Saving, TypeInv, TypeOK
  <2> QED
    BY <2>3, <2>4
<1>9. ASSUME NEW h \in Handler, Audit(h)
      PROVE  OneSaver'
  <2>1. hpc' = [hpc EXCEPT ![h] = "idle"] /\ user \in User /\ UNCHANGED <<user, tangled>>
    BY <1>9, DoneFrame DEF Audit, TypeInv, Slots, Saving, historyVars
  <2>2. ~tangled => \A g \in Handler : ~Saving(g)'
    BY <1>9, <2>1 DEF Audit, OneSaver, Saving, TypeInv, TypeOK
  <2>3. ~tangled => user.isActive = (log' # "lock")
    BY <1>9 DEF Audit, OneSaver, TypeInv, Slots
  <2> QED
    BY <2>1, <2>2, <2>3 DEF OneSaver, Saving
<1>10. ASSUME NEW h \in Handler, WalletLock(h) \/ SaveVerdict(h) \/ Fail(h)
       PROVE  OneSaver'
  <2>1. user' = user \/ (user \in User /\ user' \in User /\ user'.isActive = user.isActive)
    BY <1>10 DEF WalletLock, SaveVerdict, Fail, TypeInv, Slots, User
  <2> QED
    <3>1. CASE WalletLock(h) \/ SaveVerdict(h)
      <4>1. Done(h) /\ hpc[h] # "audit" /\ UNCHANGED <<log, tangled>>
        BY <3>1 DEF WalletLock, SaveVerdict, historyVars
      <4> QED
        BY <2>1, <4>1, DoneKeepsLog
    <3>2. CASE Fail(h)
      <4>1. Done(h) /\ UNCHANGED log /\ (hpc[h] # "audit" \/ tangled') /\ (tangled => tangled')
        BY <3>2, Zenon DEF Fail
      <4> QED
        BY <2>1, <4>1, DoneKeepsLog
    <3> QED
      BY <1>10, <3>1, <3>2
<1>11. CASE SupportUnbinds
  <2>1. user \in User /\ user' \in User /\ user'.isActive = user.isActive
    BY <1>11 DEF SupportUnbinds, TypeInv, TypeOK, User
  <2> QED
    BY <1>11, <2>1, OthersKeepLog DEF SupportUnbinds, requestVars, saveVars, historyVars
<1>12. CASE UNCHANGED vars
  BY <1>12, OthersKeepLog DEF vars, requestVars, saveVars, historyVars
<1> QED
  <2>1. ASSUME NEW h \in Handler, FindUser(h)
        PROVE  OneSaver'
    BY <1>2, <1>3, <1>4, <2>1 DEF FindUser
  <2> QED
    BY <1>1, <1>2, <1>5, <1>6, <1>7, <1>8, <1>9, <1>10, <1>11, <1>12, <2>1
       DEF Next, LoginStep, SaveStep, FraudStep

(* The last entry of the audit log tells whether the account is active,    *)
(* unless two handlers were saving the users row at once or one failed     *)
(* between its save and its entry.                                         *)
THEOREM LogTellsTheAccount == Spec => []LogExplainsAccount
<1>1. ASSUME Init PROVE OneSaver
  <2>1. log = "none" /\ \A h \in Handler : ~Saving(h) /\ hpc[h] = "idle"
    BY <1>1 DEF Init, Saving
  <2>2. user # NoUser => user.isActive = TRUE
    BY <1>1 DEF Init, NewUser
  <2> QED
    BY <2>1, <2>2 DEF OneSaver
<1>2. TypeInv /\ OneSaver /\ [Next]_vars => TypeInv' /\ OneSaver'
  BY TypeStep, OneSaverStep
<1>3. OneSaver => LogExplainsAccount
  BY DEF OneSaver, LogExplainsAccount
<1> QED
  BY TypeInit, <1>1, <1>2, <1>3, PTL DEF Spec

-----------------------------------------------------------------------------
(* Why protections hold.  What a handler will save differs from what it    *)
(* read by what it was asked for, and a login binds only a device that was *)
(* bound to none.                                                          *)
Intends(h) ==
  hpc[h] \in {"select", "update"} =>
    /\ read[h] \in User
    /\ job[h] = "login" => /\ read[h].device = NoDevice
                           /\ mem[h] = [read[h] EXCEPT !.device = from[h]]
    /\ job[h] # "login" => mem[h] = [read[h] EXCEPT !.isActive = (job[h] = "unlock")]

Intent == \A h \in Handler : Intends(h)

(* Every step keeps it.                                                    *)
LEMMA IntentStep ==
  ASSUME TypeInv, Intent, [Next]_vars
  PROVE  Intent'
<1> USE DEF Intent
<1>1. ASSUME NEW g \in Handler, UNCHANGED <<hpc[g], job[g], from[g], mem[g], read[g]>>
      PROVE  Intends(g)'
  BY <1>1 DEF Intends
<1>2. ASSUME NEW h \in Handler, Done(h)
      PROVE  Intent'
  BY <1>2, <1>1, DoneFrame DEF Intends, TypeInv, TypeOK
<1>3. CASE (\E o \in Otp : SendOtp(o) \/ Expire(o)) \/ SupportUnbinds \/ UNCHANGED vars
  BY <1>1, <1>3 DEF SendOtp, Expire, SupportUnbinds, vars, requestVars, saveVars
<1>4. ASSUME NEW h \in Handler,
             \/ \E o \in Otp, d \in Device : FindOtp(h, o, d)
             \/ \E f \in Alert : Raise(h, f) \/ \E v \in Verdict : Review(h, f, v)
             \/ MarkOtp(h) \/ WalletUnlock(h)
             \/ FindUser(h) /\ Goto(h, "create") /\ UNCHANGED <<requestVars, saveVars, historyVars>>
             \/ UpdateUser(h) /\ Goto(h, "audit") /\ UNCHANGED <<requestVars, historyVars>> /\ Forget(h)
      PROVE  Intent'
  <2>1. PICK pc \in {"mark", "walletLock", "walletUnlock", "verdict", "findUser", "create", "audit"} :
           hpc' = [hpc EXCEPT ![h] = pc]
    BY <1>4 DEF FindOtp, Raise, Review, MarkOtp, WalletUnlock, Goto, Verdict
  <2>2. \A g \in Handler \ {h} : UNCHANGED <<hpc[g], job[g], from[g], mem[g], read[g]>>
    BY <1>4, <2>1 DEF FindOtp, Raise, Review, MarkOtp, WalletUnlock, Forget,
                      requestVars, saveVars, TypeInv, TypeOK
  <2>3. Intends(h)'
    BY <2>1 DEF Intends, TypeInv, TypeOK
  <2> QED
    BY <1>1, <2>2, <2>3
<1>5. ASSUME NEW h \in Handler, NEW r, Keep(h, r), user \in User,
             \A g \in Handler \ {h} : UNCHANGED <<job[g], from[g]>>,
             job'[h] = "login" => /\ user.device = NoDevice
                                  /\ r = [user EXCEPT !.device = from'[h]],
             job'[h] # "login" => r = [user EXCEPT !.isActive = (job'[h] = "unlock")]
      PROVE  Intent'
  <2>1. /\ hpc' = [hpc EXCEPT ![h] = "select"] /\ mem' = [mem EXCEPT ![h] = r]
        /\ read' = [read EXCEPT ![h] = user]
    BY <1>5 DEF Keep, Goto
  <2>2. \A g \in Handler \ {h} : UNCHANGED <<hpc[g], job[g], from[g], mem[g], read[g]>>
    BY <1>5, <2>1 DEF TypeInv, TypeOK
  <2>3. mem'[h] = r /\ read'[h] = user
    BY <2>1 DEF TypeInv, TypeOK
  <2>4. Intends(h)'
    BY <1>5, <2>3 DEF Intends
  <2> QED
    BY <1>1, <2>2, <2>4
<1>6. ASSUME NEW h \in Handler, FindUser(h)
      PROVE  Intent'
  <2>1. CASE \E allowed \in BOOLEAN : Answer(h, allowed)
    BY <1>2, <2>1, AnswerFrame
  <2>2. CASE /\ user # NoUser /\ user.device = NoDevice
             /\ Keep(h, [user EXCEPT !.device = from[h]])
             /\ UNCHANGED <<requestVars, logins, contested>>
    <3>1. user \in User /\ job[h] = "login"
      BY <1>6, <2>2 DEF FindUser, TypeInv, TypeOK, Slots
    <3> QED
      BY <1>5, <2>2, <3>1 DEF requestVars
  <2> QED
    BY <1>4, <1>6, <2>1, <2>2 DEF FindUser, TypeInv, TypeOK, User
<1>7. ASSUME NEW h \in Handler, NEW op \in {"lock", "unlock"}, AdminFind(h, op)
      PROVE  Intent'
  <2>1. user \in User /\ job'[h] = op
    BY <1>7 DEF AdminFind, TypeInv, TypeOK
  <2>2. \A g \in Handler \ {h} : UNCHANGED <<job[g], from[g]>>
    BY <1>7 DEF AdminFind, TypeInv, TypeOK
  <2> QED
    BY <1>5, <1>7, <2>1, <2>2 DEF AdminFind
<1>8. ASSUME NEW h \in Handler, SelectUser(h)
      PROVE  Intent'
  BY <1>8 DEF SelectUser, Goto, Intends, TypeInv, TypeOK, requestVars
<1>9. ASSUME NEW h \in Handler, UpdateUser(h)
      PROVE  Intent'
  BY <1>2, <1>4, <1>9, AnswerFrame DEF UpdateUser
<1>10. ASSUME NEW h \in Handler,
              \/ CreateUser(h) \/ Audit(h) \/ WalletLock(h) \/ SaveVerdict(h) \/ Fail(h)
       PROVE  Intent'
  BY <1>2, <1>10, AnswerFrame DEF CreateUser, Audit, WalletLock, SaveVerdict, Fail
<1> QED
  BY <1>3, <1>4, <1>6, <1>7, <1>8, <1>9, <1>10 DEF Next, LoginStep, SaveStep, FraudStep

(* A save of a row that is still what it was read as is what its handler   *)
(* was asked for.                                                          *)
LEMMA UnstaleUpdate ==
  ASSUME TypeInv, Intent, NEW h \in Handler, UpdateUser(h), ~StaleSave(h)
  PROVE  user' = mem[h] /\ read[h] = user /\ {user, user'} \subseteq User
<1>1. hpc'[h] # "update"
  BY AnswerFrame, DoneFrame DEF UpdateUser, Goto, TypeInv, TypeOK
<1>2. read[h] = user /\ base[h] = user
  BY <1>1 DEF StaleSave, UpdateUser
<1>3. {user, mem[h], base[h]} \subseteq User
  BY DEF UpdateUser, TypeInv, Slots, Saving
<1>4. /\ user' \in User /\ user'.device = mem[h].device
      /\ user'.isActive = mem[h].isActive /\ user'.isWalletLocked = mem[h].isWalletLocked
  BY <1>2, <1>3, UpdatedUser DEF UpdateUser
<1>5. user' = mem[h]
  BY <1>3, <1>4 DEF User
<1> QED
  BY <1>2, <1>3, <1>5

(* What protects an account is lifted only by the request for it, but for  *)
(* a save of a row that was read before another write.                     *)
THEOREM ProtectionIsLiftedOnRequest == Spec => ProtectionHolds
<1> DEFINE Protected ==
      ( /\ {user, user'} \subseteq User
        /\ ~ \E h \in Handler : StaleSave(h) )
      => /\ ~user.isActive /\ user'.isActive
              => \E h \in Handler : hpc[h] = "update" /\ job[h] = "unlock"
         /\ user.isWalletLocked /\ ~user'.isWalletLocked
              => \E h \in Handler : hpc[h] = "walletUnlock"
         /\ user'.device \in {user.device, NoDevice} \/ user.device = NoDevice
<1>1. ASSUME TypeInv, Intent, [Next]_vars
      PROVE  [Protected]_vars
  <2>1. SUFFICES ASSUME user \in User, user' \in User, user' # user,
                        \A h \in Handler : ~StaleSave(h)
                 PROVE  Protected
    OBVIOUS
  <2>2. \/ \E h \in Handler : CreateUser(h) \/ UpdateUser(h) \/ WalletLock(h) \/ WalletUnlock(h)
        \/ SupportUnbinds
    BY <1>1, <2>1 DEF Next, LoginStep, SaveStep, FraudStep, vars, SendOtp, Expire, FindOtp,
       MarkOtp, FindUser, AdminFind, SelectUser, Audit, Raise, Review, SaveVerdict, Fail
  <2>3. ASSUME NEW h \in Handler, UpdateUser(h)
        PROVE  Protected
    <3>1. user' = mem[h] /\ read[h] = user
      BY <1>1, <2>1, <2>3, UnstaleUpdate
    <3>2. hpc[h] = "update" /\ job[h] \in {"login", "lock", "unlock"} /\ Intends(h)
      BY <1>1, <2>3 DEF UpdateUser, TypeInv, Slots, Intent
    <3>3. CASE job[h] = "login"
      BY <2>1, <3>1, <3>2, <3>3 DEF Intends, User
    <3>4. CASE job[h] # "login"
      BY <2>1, <3>1, <3>2, <3>4 DEF Intends, User
    <3> QED
      BY <3>3, <3>4
  <2>4. ASSUME NEW h \in Handler, CreateUser(h)
        PROVE  Protected
    BY <2>1, <2>4, NoUserAssumption DEF CreateUser
  <2>5. ASSUME NEW h \in Handler, WalletLock(h) \/ WalletUnlock(h)
        PROVE  Protected
    BY <2>1, <2>5 DEF WalletLock, WalletUnlock, User
  <2>6. CASE SupportUnbinds
    BY <2>1, <2>6 DEF SupportUnbinds, User
  <2> QED
    BY <2>2, <2>3, <2>4, <2>5, <2>6
<1>2. Init => Intent
  BY DEF Init, Intent, Intends
<1>3. TypeInv /\ Intent /\ [Next]_vars => TypeInv' /\ Intent'
  BY TypeStep, IntentStep
<1> QED
  BY TypeInit, <1>1, <1>2, <1>3, PTL DEF Spec, ProtectionHolds

=============================================================================
