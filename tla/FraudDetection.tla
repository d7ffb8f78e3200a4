--------------------------- MODULE FraudDetection ---------------------------
(***************************************************************************)
(* FraudService (src/fraud/fraud.service.ts): the four checks, the alerts  *)
(* they raise one after the other, the wallet lock that follows a critical *)
(* one, and reviewAlert, called by several requests at once for several    *)
(* users.  Nothing in src/ calls the checks yet: they are modelled as a    *)
(* caller would find them.                                                 *)
(*                                                                         *)
(* The lock is a column of the users row, which other services read and    *)
(* save as a whole: lockUserAccount and unlockUserAccount of AdminService  *)
(* and the device binding of AuthService.  What such a save does to the    *)
(* lock is part of this module; what it is for is in Accounts.             *)
(*                                                                         *)
(* What the queries of a check return is its input: the users of a device, *)
(* or how many games were played and won.  Every await ends a step.        *)
(***************************************************************************)
EXTENDS Integers, Sequences, FiniteSets

CONSTANTS
  Member,  \* users.id
  Case,    \* rows of fraud_alerts
  Check,   \* slots for calls
  Tally,   \* what a query for games may find: how many, and won by whom
  Review,  \* what the bodies of reviews give for a status
  NoCase   \* no row

VARIABLES
  cases,        \* fraud_alerts: a row, or NoCase
  walletLocked, \* users whose isWalletLocked is set
  kpc,          \* step of each call
  todo,         \* alerts a check has still to raise, the next one first
  under,        \* the alert whose user is being locked, or which is reviewed
  verdict,      \* the status a review gives
  saving,       \* the users row another service is saving, or NoCase
  pardoned,     \* history: alerts that were open when something other than
                \* their own review unlocked the wallet, or that were opened
                \* again after it, until the wallet is locked again
  relocked,     \* history: users whose wallet a save of an older row locked
  hasty,        \* history: alerts that a review was clearing before the
                \* check that raised them had locked the wallet
  dropped       \* history: users for whom a failed call left work undone

callVars == <<kpc, todo, under, verdict, saving>>
historyVars == <<pardoned, relocked, hasty, dropped>>
fraudVars == <<cases, walletLocked, callVars, historyVars>>

Critical == {"EMULATOR_DETECTED", "COLLUSION"}
AlertType == Critical \cup {"ROOTED_DEVICE", "ABNORMAL_WIN_RATIO", "MULTIPLE_ACCOUNTS"}

(* An alert to be raised; about is the opponent, or the user himself.      *)
AlarmRow == [user : Member, type : AlertType, about : Member]
Alarm(u, type, about) == [user |-> u, type |-> type, about |-> about]

(* A row of fraud_alerts.                                                  *)
AlertStatus == {"FLAGGED", "UNDER_REVIEW", "CLEARED", "CONFIRMED"}
CaseRow == [alarm : AlarmRow, status : AlertStatus]

(* A review gives a status, or none: its body is not validated.            *)
Verdict == AlertStatus \cup {"none"}

ASSUME ReviewAssumption == Review \subseteq Verdict

(* A users row in the memory of a save: its isWalletLocked, and whether    *)
(* the select of the save found another value.                             *)
UserSave == [user : Member, locked : BOOLEAN, differs : BOOLEAN]

ASSUME NoCaseAssumption == NoCase \notin Case \cup CaseRow \cup UserSave

FraudInit ==
  /\ cases = [c \in Case |-> NoCase]
  /\ walletLocked = {}
  /\ kpc = [k \in Check |-> "idle"]
  /\ todo = [k \in Check |-> <<>>]
  /\ under = [k \in Check |-> NoCase]
  /\ verdict = [k \in Check |-> "none"]
  /\ saving = [k \in Check |-> NoCase]
  /\ pardoned = {}
  /\ relocked = {}
  /\ hasty = {}
  /\ dropped = {}

-----------------------------------------------------------------------------
(* The thresholds of the checks.                                           *)
TooManyWins(t) == t.games >= 10 /\ 4 * t.mine > 3 * t.games

Distance(a, b) == IF a < b THEN b - a ELSE a - b

OneSided(t) == t.games > 5 /\ 10 * Distance(t.mine, t.theirs) > 7 * t.games

(* A check that found something begins to raise its alerts.                *)
Alarmed(k, alarms) ==
  /\ kpc[k] = "idle"
  /\ alarms # <<>>
  /\ kpc' = [kpc EXCEPT ![k] = "raise"]
  /\ todo' = [todo EXCEPT ![k] = alarms]
  /\ UNCHANGED <<cases, walletLocked, under, verdict, saving, historyVars>>

CheckDevice(k, u, emulator, rooted) ==
  Alarmed(k, (IF emulator THEN <<Alarm(u, "EMULATOR_DETECTED", u)>> ELSE <<>>)
             \o (IF rooted THEN <<Alarm(u, "ROOTED_DEVICE", u)>> ELSE <<>>))

CheckWinRatio(k, u, t) ==
  TooManyWins(t) /\ Alarmed(k, <<Alarm(u, "ABNORMAL_WIN_RATIO", u)>>)

(* Mutant of CheckCollusion: only the user checked is alerted.             *)
AlertsOneSide(k, u, o, t) ==
  OneSided(t) /\ Alarmed(k, <<Alarm(u, "COLLUSION", o)>>)

CheckCollusion(k, u, o, t) ==
  OneSided(t) /\ Alarmed(k, <<Alarm(u, "COLLUSION", o), Alarm(o, "COLLUSION", u)>>)

(* users lists those bound to a device, in the order of the query.         *)
CheckMultipleAccounts(k, users) ==
  /\ Len(users) > 1
  /\ Alarmed(k, [i \in DOMAIN users |-> Alarm(users[i], "MULTIPLE_ACCOUNTS", users[i])])

-----------------------------------------------------------------------------
(* Call k goes on with the next alarm, or returns.                         *)
Proceed(k, rest) ==
  /\ todo' = [todo EXCEPT ![k] = rest]
  /\ kpc' = [kpc EXCEPT ![k] = IF rest = <<>> THEN "idle" ELSE "raise"]
  /\ under' = [under EXCEPT ![k] = NoCase]
  /\ verdict' = [verdict EXCEPT ![k] = "none"]

(* Mutants of RaiseAlert: the alarm is dropped before its wallet is        *)
(* locked; no wallet is locked.                                            *)
DropsAlarm(k) ==
  /\ kpc[k] = "raise"
  /\ \E c \in Case :
       /\ cases[c] = NoCase
       /\ cases' = [cases EXCEPT ![c] = [alarm |-> Head(todo[k]), status |-> "FLAGGED"]]
       /\ kpc' = [kpc EXCEPT ![k] = "lock"]
       /\ under' = [under EXCEPT ![k] = c]
       /\ todo' = [todo EXCEPT ![k] = Tail(@)]
  /\ UNCHANGED <<walletLocked, verdict, saving, historyVars>>

RaisesOnly(k) ==
  /\ kpc[k] = "raise"
  /\ \E c \in Case : /\ cases[c] = NoCase
                     /\ cases' = [cases EXCEPT ![c] =
                                    [alarm |-> Head(todo[k]), status |-> "FLAGGED"]]
  /\ Proceed(k, Tail(todo[k]))
  /\ UNCHANGED <<walletLocked, saving, historyVars>>

(* createAlert: the alert is saved; a critical one locks the wallet next.  *)
RaiseAlert(k) ==
  /\ kpc[k] = "raise"
  /\ \E c \in Case :
       /\ cases[c] = NoCase
       /\ cases' = [cases EXCEPT ![c] = [alarm |-> Head(todo[k]), status |-> "FLAGGED"]]
       /\ IF Head(todo[k]).type \in Critical
            THEN /\ kpc' = [kpc EXCEPT ![k] = "lock"]
                 /\ under' = [under EXCEPT ![k] = c]
                 /\ UNCHANGED <<todo, verdict>>
            ELSE Proceed(k, Tail(todo[k]))
  /\ UNCHANGED <<walletLocked, saving, historyVars>>

(* The critical alerts of user u, and those that were not cleared.         *)
CriticalCases(u) ==
  {c \in Case : /\ cases[c] # NoCase
                /\ cases[c].alarm.user = u
                /\ cases[c].alarm.type \in Critical}

OpenCases(u) == {c \in CriticalCases(u) : cases[c].status # "CLEARED"}

(* lockUserWallet.                                                         *)
LockUserWallet(k) ==
  /\ kpc[k] = "lock"
  /\ LET u == cases[under[k]].alarm.user IN
       /\ walletLocked' = walletLocked \cup {u}
       /\ pardoned' = pardoned \ CriticalCases(u)
       /\ relocked' = relocked \ {u}
  /\ Proceed(k, Tail(todo[k]))
  /\ UNCHANGED <<cases, saving, hasty, dropped>>

(* reviewAlert: findOne, whatever the status of the alert is.              *)
ReviewAlert(k, c, v) ==
  /\ kpc[k] = "idle"
  /\ cases[c] # NoCase
  /\ kpc' = [kpc EXCEPT ![k] = IF v = "CLEARED" THEN "unlock" ELSE "save"]
  /\ under' = [under EXCEPT ![k] = c]
  /\ verdict' = [verdict EXCEPT ![k] = v]
  /\ UNCHANGED <<cases, walletLocked, todo, saving, historyVars>>

(* Mutant of UnlockUserWallet: the wallet stays locked.                    *)
UnlocksNothing(k) ==
  /\ kpc[k] = "unlock"
  /\ kpc' = [kpc EXCEPT ![k] = "save"]
  /\ UNCHANGED <<cases, walletLocked, todo, under, verdict, saving, historyVars>>

(* A cleared alert unlocks the wallet first.                               *)
UnlockUserWallet(k) ==
  /\ kpc[k] = "unlock"
  /\ LET u == cases[under[k]].alarm.user IN
       /\ walletLocked' = walletLocked \ {u}
       /\ pardoned' = pardoned \cup (OpenCases(u) \ {under[k]})
       /\ relocked' = relocked \ {u}
  /\ hasty' = IF \E l \in Check : kpc[l] = "lock" /\ under[l] = under[k]
                THEN hasty \cup {under[k]} ELSE hasty
  /\ kpc' = [kpc EXCEPT ![k] = "save"]
  /\ UNCHANGED <<cases, todo, under, verdict, saving, dropped>>

(* The save of the review writes the status, unless it was given none.     *)
(* The row is selected and updated in one step: the status is the only     *)
(* column of it that matters here, and a select that finds the status the  *)
(* review gives writes nothing, as if it had written it then.              *)
SaveReview(k) ==
  /\ kpc[k] = "save"
  /\ LET c == under[k] IN
       /\ cases' = IF verdict[k] = "none" THEN cases
                     ELSE [cases EXCEPT ![c].status = verdict[k]]
       /\ pardoned' = IF /\ cases[c].status = "CLEARED"
                          /\ verdict[k] \notin {"CLEARED", "none"}
                          /\ cases[c].alarm.user \notin walletLocked
                         THEN pardoned \cup {c} ELSE pardoned
  /\ Proceed(k, <<>>)
  /\ UNCHANGED <<walletLocked, saving, relocked, hasty, dropped>>

-----------------------------------------------------------------------------
(* lockUserAccount, unlockUserAccount and the binding of a device: findOne *)
(* of a users row, and the select and the update of its save, which writes *)
(* the columns that differ: isWalletLocked, if it changed in between.      *)
FindUserRow(k, u) ==
  /\ kpc[k] = "idle"
  /\ kpc' = [kpc EXCEPT ![k] = "found"]
  /\ saving' = [saving EXCEPT ![k] =
                  [user |-> u, locked |-> u \in walletLocked, differs |-> FALSE]]
  /\ UNCHANGED <<cases, walletLocked, todo, under, verdict, historyVars>>

SelectUserRow(k) ==
  /\ kpc[k] = "found"
  /\ kpc' = [kpc EXCEPT ![k] = "update"]
  /\ saving' = [saving EXCEPT ![k].differs =
                  saving[k].locked # (saving[k].user \in walletLocked)]
  /\ UNCHANGED <<cases, walletLocked, todo, under, verdict, historyVars>>

(* A column that does not differ is not written; the lock of an older row  *)
(* is set or taken away.                                                   *)
UpdateUserRow(k) ==
  /\ kpc[k] = "update"
  /\ LET u == saving[k].user IN
       \/ /\ ~saving[k].differs
          /\ UNCHANGED <<walletLocked, pardoned, relocked>>
       \/ /\ saving[k].differs /\ saving[k].locked
          /\ walletLocked' = walletLocked \cup {u}
          /\ relocked' = IF u \in walletLocked THEN relocked ELSE relocked \cup {u}
          /\ pardoned' = pardoned \ CriticalCases(u)
       \/ /\ saving[k].differs /\ ~saving[k].locked
          /\ walletLocked' = walletLocked \ {u}
          /\ relocked' = relocked \ {u}
          /\ pardoned' = pardoned \cup OpenCases(u)
  /\ kpc' = [kpc EXCEPT ![k] = "idle"]
  /\ saving' = [saving EXCEPT ![k] = NoCase]
  /\ UNCHANGED <<cases, todo, under, verdict, hasty, dropped>>

-----------------------------------------------------------------------------
(* A query fails or the process ends: the call ends where it is.           *)
CallFails(k) ==
  /\ kpc[k] # "idle"
  /\ dropped' = dropped \cup {todo[k][i].user : i \in DOMAIN todo[k]}
                  \cup (IF kpc[k] = "save" /\ verdict[k] = "CLEARED"
                          THEN {cases[under[k]].alarm.user} ELSE {})
  /\ Proceed(k, <<>>)
  /\ saving' = [saving EXCEPT ![k] = NoCase]
  /\ UNCHANGED <<cases, walletLocked, pardoned, relocked, hasty>>

FraudNext ==
  \E k \in Check :
    \/ \E u \in Member :
         \/ \E emulator, rooted \in BOOLEAN : CheckDevice(k, u, emulator, rooted)
         \/ \E t \in Tally : CheckWinRatio(k, u, t)
         \/ \E o \in Member \ {u}, t \in Tally : CheckCollusion(k, u, o, t)
         \/ FindUserRow(k, u)
    \/ \E users \in Member \X Member : users[1] # users[2] /\ CheckMultipleAccounts(k, users)
    \/ RaiseAlert(k) \/ LockUserWallet(k)
    \/ \E c \in Case, v \in Review : ReviewAlert(k, c, v)
    \/ UnlockUserWallet(k) \/ SaveReview(k)
    \/ SelectUserRow(k) \/ UpdateUserRow(k)
    \/ CallFails(k)

FraudSpec == FraudInit /\ [][FraudNext]_fraudVars

-----------------------------------------------------------------------------
(* The types of fraud detection: a lock or a review is about an alert that *)
(* is stored, only a check has alarms left, and only the save of a users   *)
(* row has one in memory.                                                  *)
FraudTypeOK ==
  /\ cases \in [Case -> CaseRow \cup {NoCase}]
  /\ walletLocked \subseteq Member
  /\ kpc \in [Check -> {"idle", "raise", "lock", "unlock", "save", "found", "update"}]
  /\ todo \in [Check -> Seq(AlarmRow)]
  /\ under \in [Check -> Case \cup {NoCase}]
  /\ verdict \in [Check -> Verdict]
  /\ saving \in [Check -> UserSave \cup {NoCase}]
  /\ \A k \in Check :
       /\ kpc[k] \in {"lock", "unlock", "save"} => under[k] \in Case /\ cases[under[k]] # NoCase
       /\ kpc[k] \in {"raise", "lock"} <=> todo[k] # <<>>
       /\ kpc[k] = "lock" => cases[under[k]].alarm = Head(todo[k])
       /\ kpc[k] = "unlock" => verdict[k] = "CLEARED"
       /\ kpc[k] \in {"found", "update"} <=> saving[k] # NoCase
  /\ pardoned \subseteq Case /\ hasty \subseteq Case
  /\ relocked \subseteq Member /\ dropped \subseteq Member

(* Some call still has alarm a to raise.                                   *)
Due(a) == \E k \in Check : \E i \in DOMAIN todo[k] : todo[k][i] = a

(* Collusion is two-sided: a user alerted for collusion with another is    *)
(* not alone, the other is alerted too, or is about to be.  Only a call    *)
(* that failed between the two alerts leaves one of the two unsuspected.   *)
CollusionTwoSided ==
  \A c \in Case : cases[c] # NoCase /\ cases[c].alarm.type = "COLLUSION" =>
    LET mirror == Alarm(cases[c].alarm.about, "COLLUSION", cases[c].alarm.user)
    IN  \/ \E d \in Case : cases[d] # NoCase /\ cases[d].alarm = mirror
        \/ Due(mirror)
        \/ mirror.user \in dropped

(* While a critical alert is not cleared, the wallet of its user is        *)
(* locked, or about to be, or this very alert is being cleared.  What      *)
(* breaks it is a call that failed; the review of another alert of the     *)
(* user, which unlocks the wallet no matter what else is open; a save of a *)
(* users row read before the lock; and a verdict that opens a cleared      *)
(* alert again.  Of the last three every trace ends with the next lock.    *)
OpenMeansLocked ==
  \A u \in Member \ (walletLocked \cup dropped) : \A c \in OpenCases(u) \ pardoned :
    \E k \in Check : /\ under[k] = c
                     /\ \/ kpc[k] = "lock"
                        \/ kpc[k] = "save" /\ verdict[k] = "CLEARED"

(* A wallet is locked for a reason: a critical alert of its user that was  *)
(* not cleared.  Only an alert cleared in the moment between its save and  *)
(* its lock, and a save of a users row read before the wallet was unlocked *)
(* keep a wallet locked with nothing left to review.                       *)
LockedHasReason ==
  \A u \in walletLocked :
    u \in relocked \/ \E c \in CriticalCases(u) : cases[c].status # "CLEARED" \/ c \in hasty

=============================================================================
