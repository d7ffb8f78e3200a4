---------------------------- MODULE FraudProofs ----------------------------
(***************************************************************************)
(* What FraudDetection promises about alerts and locked wallets, for every *)
(* set of users, alerts and calls and whatever the checks find.            *)
(***************************************************************************)
EXTENDS FraudDetection, SequenceTheorems, TLAPS

USE DEF AlertType, Critical, AlertStatus, Verdict

LEMMA AlarmTyped ==
  ASSUME NEW u \in Member, NEW o \in Member, NEW type \in AlertType
  PROVE  /\ Alarm(u, type, o) \in AlarmRow
         /\ Alarm(u, type, o).user = u /\ Alarm(u, type, o).type = type
         /\ Alarm(u, type, o).about = o
BY DEF Alarm, AlarmRow

(* The alarms of a check, as the four checks make them.                    *)
Alarms == {alarms \in Seq(AlarmRow) : \A i \in DOMAIN alarms : alarms[i].type # "COLLUSION"}

LEMMA DeviceAlarms ==
  ASSUME NEW k \in Check, NEW u \in Member, NEW emulator \in BOOLEAN, NEW rooted \in BOOLEAN,
         CheckDevice(k, u, emulator, rooted)
  PROVE  \E alarms \in Alarms : Alarmed(k, alarms)
<1> DEFINE e == Alarm(u, "EMULATOR_DETECTED", u)
           r == Alarm(u, "ROOTED_DEVICE", u)
           one == IF emulator THEN <<e>> ELSE <<>>
           two == IF rooted THEN <<r>> ELSE <<>>
<1>1. /\ e \in AlarmRow /\ r \in AlarmRow
      /\ e.type # "COLLUSION" /\ r.type # "COLLUSION"
  BY AlarmTyped
<1> HIDE DEF e, r
<1>2. one \in Seq(AlarmRow) /\ two \in Seq(AlarmRow)
  BY <1>1
<1>3. \A i \in DOMAIN one : one[i].type # "COLLUSION"
  BY <1>1
<1>4. \A i \in DOMAIN two : two[i].type # "COLLUSION"
  BY <1>1
<1> HIDE DEF one, two
<1>5. one \o two \in Alarms
  <2>1. /\ one \o two \in Seq(AlarmRow)
        /\ Len(one \o two) = Len(one) + Len(two)
        /\ Len(one) \in Nat /\ Len(two) \in Nat
        /\ DOMAIN (one \o two) = 1 .. Len(one \o two)
        /\ DOMAIN one = 1 .. Len(one) /\ DOMAIN two = 1 .. Len(two)
    BY <1>2
  <2>2. ASSUME NEW i \in DOMAIN (one \o two)
        PROVE  (one \o two)[i].type # "COLLUSION"
    <3>1. CASE i <= Len(one)
      <4>1. (one \o two)[i] = one[i] /\ i \in DOMAIN one
        BY <1>2, <2>1, <3>1
      <4> QED
        BY <1>3, <4>1
    <3>2. CASE i > Len(one)
      <4>1. (one \o two)[i] = two[i - Len(one)] /\ i - Len(one) \in DOMAIN two
        BY <1>2, <2>1, <3>2
      <4> QED
        BY <1>4, <4>1
    <3> QED
      BY <2>1, <3>1, <3>2
  <2> QED
    BY <2>1, <2>2 DEF Alarms
<1>6. Alarmed(k, one \o two)
  BY DEF CheckDevice, one, two, e, r
<1> QED
  BY <1>5, <1>6

LEMMA RatioAlarms ==
  ASSUME NEW k \in Check, NEW u \in Member, NEW t, CheckWinRatio(k, u, t)
  PROVE  \E alarms \in Alarms : Alarmed(k, alarms)
<1>1. <<Alarm(u, "ABNORMAL_WIN_RATIO", u)>> \in Alarms
  BY AlarmTyped DEF Alarms
<1> QED
  BY <1>1 DEF CheckWinRatio

LEMMA AccountAlarms ==
  ASSUME NEW k \in Check, NEW users \in Member \X Member, CheckMultipleAccounts(k, users)
  PROVE  \E alarms \in Alarms : Alarmed(k, alarms)
<1> DEFINE alarms == [i \in DOMAIN users |-> Alarm(users[i], "MULTIPLE_ACCOUNTS", users[i])]
<1>1. DOMAIN users = 1 .. 2 /\ \A i \in DOMAIN users : users[i] \in Member
  OBVIOUS
<1>2. \A i \in DOMAIN users : alarms[i] \in AlarmRow /\ alarms[i].type # "COLLUSION"
  BY <1>1, AlarmTyped
<1>3. alarms \in [1 .. 2 -> AlarmRow] /\ DOMAIN alarms = DOMAIN users
  BY <1>1, <1>2
<1>4. Alarmed(k, alarms)
  BY DEF CheckMultipleAccounts
<1> HIDE DEF alarms
<1>5. alarms \in Seq(AlarmRow)
  BY <1>3, SeqDef
<1> QED
  BY <1>2, <1>3, <1>4, <1>5 DEF Alarms

LEMMA CollusionAlarms ==
  ASSUME NEW k \in Check, NEW u \in Member, NEW o \in Member, NEW t,
         CheckCollusion(k, u, o, t)
  PROVE  /\ Alarmed(k, <<Alarm(u, "COLLUSION", o), Alarm(o, "COLLUSION", u)>>)
         /\ <<Alarm(u, "COLLUSION", o), Alarm(o, "COLLUSION", u)>> \in Seq(AlarmRow)
BY AlarmTyped DEF CheckCollusion

-----------------------------------------------------------------------------
(* What a typed row of the table is.                                       *)
LEMMA CaseFacts ==
  ASSUME FraudTypeOK, NEW c \in Case
  PROVE  /\ cases[c] # NoCase <=> cases[c] \in CaseRow
         /\ cases[c] # NoCase => /\ cases[c].alarm \in AlarmRow
                                 /\ cases[c].alarm.user \in Member
                                 /\ cases[c].alarm.about \in Member
BY NoCaseAssumption DEF FraudTypeOK, CaseRow, AlarmRow

LEMMA TodoFacts ==
  ASSUME FraudTypeOK, NEW k \in Check, kpc[k] \in {"raise", "lock"}
  PROVE  /\ todo[k] \in Seq(AlarmRow) /\ todo[k] # <<>>
         /\ Head(todo[k]) \in AlarmRow /\ Tail(todo[k]) \in Seq(AlarmRow)
         /\ Len(todo[k]) \in Nat \ {0} /\ Head(todo[k]) = todo[k][1]
         /\ Len(Tail(todo[k])) = Len(todo[k]) - 1
         /\ \A i \in 1 .. Len(todo[k]) - 1 : Tail(todo[k])[i] = todo[k][i + 1]
BY DEF FraudTypeOK

(* An alert that is stored, or a verdict, is a row of the table.           *)
LEMMA NewCase ==
  ASSUME FraudTypeOK, NEW k \in Check, NEW c \in Case, kpc[k] = "raise", cases[c] = NoCase,
         cases' = [cases EXCEPT ![c] = [alarm |-> Head(todo[k]), status |-> "FLAGGED"]]
  PROVE  /\ cases' \in [Case -> CaseRow \cup {NoCase}]
         /\ cases'[c] = [alarm |-> Head(todo[k]), status |-> "FLAGGED"]
         /\ cases'[c] # NoCase
         /\ \A d \in Case \ {c} : cases'[d] = cases[d]
<1>1. [alarm |-> Head(todo[k]), status |-> "FLAGGED"] \in CaseRow
  BY TodoFacts DEF CaseRow
<1> QED
  BY <1>1, NoCaseAssumption DEF FraudTypeOK

LEMMA NewVerdict ==
  ASSUME FraudTypeOK, NEW k \in Check, SaveReview(k)
  PROVE  /\ cases' \in [Case -> CaseRow \cup {NoCase}]
         /\ under[k] \in Case /\ cases[under[k]] # NoCase
         /\ cases'[under[k]].alarm = cases[under[k]].alarm
         /\ cases'[under[k]].status =
              IF verdict[k] = "none" THEN cases[under[k]].status ELSE verdict[k]
         /\ \A d \in Case : cases'[d] # NoCase <=> cases[d] # NoCase
         /\ \A d \in Case \ {under[k]} : cases'[d] = cases[d]
<1>1. /\ under[k] \in Case /\ cases[under[k]] # NoCase /\ cases \in [Case -> CaseRow \cup {NoCase}]
      /\ verdict[k] \in Verdict
  BY DEF FraudTypeOK, SaveReview
<1>2. CASE verdict[k] = "none"
  BY <1>1, <1>2 DEF SaveReview
<1>3. CASE verdict[k] # "none"
  <2>1. [cases[under[k]] EXCEPT !.status = verdict[k]] \in CaseRow
    BY <1>1, <1>3 DEF CaseRow
  <2>2. cases' = [cases EXCEPT ![under[k]] = [cases[under[k]] EXCEPT !.status = verdict[k]]]
    BY <1>3 DEF SaveReview
  <2>3. /\ cases'[under[k]] = [cases[under[k]] EXCEPT !.status = verdict[k]]
        /\ \A d \in Case \ {under[k]} : cases'[d] = cases[d]
    BY <1>1, <2>2
  <2>4. cases' \in [Case -> CaseRow \cup {NoCase}]
    BY <1>1, <2>1, <2>2
  <2>5. cases[under[k]] \in CaseRow
    BY <1>1
  <2>6. /\ [cases[under[k]] EXCEPT !.status = verdict[k]].alarm = cases[under[k]].alarm
        /\ [cases[under[k]] EXCEPT !.status = verdict[k]].status = verdict[k]
    BY <2>5 DEF CaseRow
  <2>7. cases'[under[k]] # NoCase
    BY <2>1, <2>3, NoCaseAssumption
  <2> QED
    BY <1>1, <1>3, <2>3, <2>4, <2>6, <2>7
<1> QED
  BY <1>2, <1>3

-----------------------------------------------------------------------------
(* A step of call k that leaves alerts their alarms.                       *)
Keeps == \A d \in Case : cases[d] # NoCase =>
           cases'[d] # NoCase /\ cases'[d].alarm = cases[d].alarm

LEMMA CallMoves ==
  ASSUME FraudTypeOK, NEW k \in Check, NEW p, NEW td, NEW un, NEW vd, NEW sv,
         kpc' = [kpc EXCEPT ![k] = p], todo' = [todo EXCEPT ![k] = td],
         under' = [under EXCEPT ![k] = un], verdict' = [verdict EXCEPT ![k] = vd],
         saving' = [saving EXCEPT ![k] = sv],
         p \in {"idle", "raise", "lock", "unlock", "save", "found", "update"},
         td \in Seq(AlarmRow), un \in Case \cup {NoCase}, vd \in Verdict,
         sv \in UserSave \cup {NoCase},
         cases' \in [Case -> CaseRow \cup {NoCase}], Keeps,
         p \in {"lock", "unlock", "save"} => un \in Case /\ cases'[un] # NoCase,
         p \in {"raise", "lock"} <=> td # <<>>,
         p = "lock" => cases'[un].alarm = Head(td),
         p = "unlock" => vd = "CLEARED",
         p \in {"found", "update"} <=> sv # NoCase,
         walletLocked' \subseteq Member, pardoned' \subseteq Case, hasty' \subseteq Case,
         relocked' \subseteq Member, dropped' \subseteq Member
  PROVE  FraudTypeOK'
<1>1. /\ kpc' \in [Check -> {"idle", "raise", "lock", "unlock", "save", "found", "update"}]
      /\ todo' \in [Check -> Seq(AlarmRow)] /\ under' \in [Check -> Case \cup {NoCase}]
      /\ verdict' \in [Check -> Verdict] /\ saving' \in [Check -> UserSave \cup {NoCase}]
  BY DEF FraudTypeOK
<1>2. /\ kpc'[k] = p /\ todo'[k] = td /\ under'[k] = un /\ verdict'[k] = vd /\ saving'[k] = sv
      /\ \A l \in Check \ {k} : /\ kpc'[l] = kpc[l] /\ todo'[l] = todo[l]
                                /\ under'[l] = under[l] /\ verdict'[l] = verdict[l]
                                /\ saving'[l] = saving[l]
  BY DEF FraudTypeOK
<1>3. ASSUME NEW l \in Check \ {k}
      PROVE  /\ kpc[l] \in {"lock", "unlock", "save"}
                   => under[l] \in Case /\ cases'[under[l]] # NoCase
             /\ kpc[l] \in {"raise", "lock"} <=> todo[l] # <<>>
             /\ kpc[l] = "lock" => cases'[under[l]].alarm = Head(todo[l])
             /\ kpc[l] = "unlock" => verdict[l] = "CLEARED"
             /\ kpc[l] \in {"found", "update"} <=> saving[l] # NoCase
  BY DEF FraudTypeOK, Keeps
<1>4. ASSUME NEW l \in Check
      PROVE  /\ kpc'[l] \in {"lock", "unlock", "save"}
                   => under'[l] \in Case /\ cases'[under'[l]] # NoCase
             /\ kpc'[l] \in {"raise", "lock"} <=> todo'[l] # <<>>
             /\ kpc'[l] = "lock" => cases'[under'[l]].alarm = Head(todo'[l])
             /\ kpc'[l] = "unlock" => verdict'[l] = "CLEARED"
             /\ kpc'[l] \in {"found", "update"} <=> saving'[l] # NoCase
  <2>1. CASE l = k
    BY <1>2, <2>1
  <2>2. CASE l # k
    BY <1>2, <1>3, <2>2
  <2> QED
    BY <2>1, <2>2
<1> QED
  BY <1>1, <1>4 DEF FraudTypeOK

(* The same of a call that goes on with the rest of its alarms, or ends.   *)
LEMMA CallProceeds ==
  ASSUME FraudTypeOK, NEW k \in Check, NEW rest \in Seq(AlarmRow), Proceed(k, rest),
         saving' = [saving EXCEPT ![k] = NoCase],
         cases' \in [Case -> CaseRow \cup {NoCase}], Keeps,
         walletLocked' \subseteq Member, pardoned' \subseteq Case, hasty' \subseteq Case,
         relocked' \subseteq Member, dropped' \subseteq Member
  PROVE  FraudTypeOK'
<1> DEFINE p == IF rest = <<>> THEN "idle" ELSE "raise"
<1>1. /\ kpc' = [kpc EXCEPT ![k] = p] /\ todo' = [todo EXCEPT ![k] = rest]
      /\ under' = [under EXCEPT ![k] = NoCase] /\ verdict' = [verdict EXCEPT ![k] = "none"]
  BY DEF Proceed
<1>2. /\ p \in {"idle", "raise"} /\ p \notin {"lock", "unlock", "save", "found", "update"}
      /\ p \in {"raise", "lock"} <=> rest # <<>>
  OBVIOUS
<1> HIDE DEF p
<1> QED
  BY <1>1, <1>2, CallMoves

(* Only the save of a users row has one in memory.                         *)
LEMMA SavesNone ==
  ASSUME FraudTypeOK, NEW k \in Check, kpc[k] \notin {"found", "update"}, UNCHANGED saving
  PROVE  saving[k] = NoCase /\ saving' = [saving EXCEPT ![k] = NoCase]
BY DEF FraudTypeOK

LEMMA AlarmedTyped ==
  ASSUME FraudTypeOK, NEW k \in Check, NEW alarms \in Seq(AlarmRow), Alarmed(k, alarms)
  PROVE  FraudTypeOK'
<1>1. /\ under' = [under EXCEPT ![k] = under[k]] /\ verdict' = [verdict EXCEPT ![k] = verdict[k]]
      /\ under[k] \in Case \cup {NoCase} /\ verdict[k] \in Verdict
      /\ Keeps
  BY DEF Alarmed, FraudTypeOK, Keeps
<1>2. /\ kpc' = [kpc EXCEPT ![k] = "raise"] /\ todo' = [todo EXCEPT ![k] = alarms]
      /\ alarms # <<>> /\ saving' = [saving EXCEPT ![k] = NoCase]
  BY SavesNone DEF Alarmed, historyVars
<1>3. /\ cases' \in [Case -> CaseRow \cup {NoCase}] /\ walletLocked' \subseteq Member
      /\ pardoned' \subseteq Case /\ hasty' \subseteq Case
      /\ relocked' \subseteq Member /\ dropped' \subseteq Member
  BY DEF Alarmed, FraudTypeOK, historyVars
<1> QED
  BY <1>1, <1>2, <1>3, CallMoves

(* The checks that find something, in one; the reviews; the saves of a     *)
(* users row.                                                              *)
Checks(k) ==
  \/ \E alarms \in Alarms : Alarmed(k, alarms)
  \/ \E u \in Member, o \in Member :
       Alarmed(k, <<Alarm(u, "COLLUSION", o), Alarm(o, "COLLUSION", u)>>)

Reviews(k) == \E c \in Case, v \in Verdict : ReviewAlert(k, c, v)

Saves(k) == (\E u \in Member : FindUserRow(k, u)) \/ SelectUserRow(k) \/ UpdateUserRow(k)

CallStep(k) ==
  \/ Checks(k) \/ RaiseAlert(k) \/ LockUserWallet(k)
  \/ Reviews(k) \/ UnlockUserWallet(k) \/ SaveReview(k)
  \/ Saves(k) \/ CallFails(k)

LEMMA StepCases ==
  ASSUME [FraudNext]_fraudVars
  PROVE  UNCHANGED fraudVars \/ \E k \in Check : CallStep(k)
<1>1. ASSUME NEW k \in Check, NEW u \in Member,
             \/ \E emulator, rooted \in BOOLEAN : CheckDevice(k, u, emulator, rooted)
             \/ \E t \in Tally : CheckWinRatio(k, u, t)
             \/ \E o \in Member \ {u}, t \in Tally : CheckCollusion(k, u, o, t)
      PROVE  Checks(k)
  BY <1>1, DeviceAlarms, RatioAlarms, CollusionAlarms DEF Checks
<1>2. ASSUME NEW k \in Check, NEW users \in Member \X Member, CheckMultipleAccounts(k, users)
      PROVE  Checks(k)
  BY <1>2, AccountAlarms DEF Checks
<1>3. ASSUME NEW k \in Check, NEW c \in Case, NEW v \in Review, ReviewAlert(k, c, v)
      PROVE  Reviews(k)
  BY <1>3, ReviewAssumption DEF Reviews
<1> QED
  BY <1>1, <1>2, <1>3 DEF FraudNext, CallStep, Saves

LEMMA FraudTypeStep ==
  ASSUME FraudTypeOK, [FraudNext]_fraudVars
  PROVE  FraudTypeOK' /\ Keeps
<1>1. /\ cases \in [Case -> CaseRow \cup {NoCase}] /\ walletLocked \subseteq Member
      /\ pardoned \subseteq Case /\ hasty \subseteq Case
      /\ relocked \subseteq Member /\ dropped \subseteq Member
  BY DEF FraudTypeOK
<1>2. UNCHANGED cases => Keeps
  BY DEF Keeps
<1>3. ASSUME NEW k \in Check, Checks(k)
      PROVE  FraudTypeOK' /\ Keeps
  <2>1. PICK alarms \in Seq(AlarmRow) : Alarmed(k, alarms)
    <3>1. \A u, o \in Member :
            <<Alarm(u, "COLLUSION", o), Alarm(o, "COLLUSION", u)>> \in Seq(AlarmRow)
      BY AlarmTyped
    <3> QED
      BY <1>3, <3>1 DEF Checks, Alarms
  <2> QED
    BY <1>2, <2>1, AlarmedTyped DEF Alarmed
<1>4. ASSUME NEW k \in Check, RaiseAlert(k)
      PROVE  FraudTypeOK' /\ Keeps
  <2> DEFINE new == [alarm |-> Head(todo[k]), status |-> "FLAGGED"]
  <2>1. PICK c \in Case :
          /\ cases[c] = NoCase /\ cases' = [cases EXCEPT ![c] = new]
          /\ IF Head(todo[k]).type \in Critical
               THEN /\ kpc' = [kpc EXCEPT ![k] = "lock"]
                    /\ under' = [under EXCEPT ![k] = c]
                    /\ UNCHANGED <<todo, verdict>>
               ELSE Proceed(k, Tail(todo[k]))
    BY <1>4 DEF RaiseAlert
  <2>2. /\ kpc[k] = "raise" /\ UNCHANGED <<walletLocked, pardoned, relocked, hasty, dropped>>
        /\ saving' = [saving EXCEPT ![k] = NoCase]
    BY <1>4, SavesNone DEF RaiseAlert, historyVars
  <2>3. /\ cases' \in [Case -> CaseRow \cup {NoCase}] /\ cases'[c] = new /\ cases'[c] # NoCase
        /\ \A d \in Case \ {c} : cases'[d] = cases[d]
    BY <2>1, <2>2, NewCase
  <2>4. Keeps
    BY <2>1, <2>3 DEF Keeps
  <2>5. CASE Head(todo[k]).type \in Critical
    <3>1. /\ kpc' = [kpc EXCEPT ![k] = "lock"] /\ under' = [under EXCEPT ![k] = c]
          /\ todo' = [todo EXCEPT ![k] = todo[k]] /\ verdict' = [verdict EXCEPT ![k] = verdict[k]]
          /\ verdict[k] \in Verdict
      BY <2>1, <2>5 DEF FraudTypeOK
    <3>2. todo[k] \in Seq(AlarmRow) /\ todo[k] # <<>>
      BY <2>2, TodoFacts
    <3>3. cases'[c].alarm = Head(todo[k])
      BY <2>3
    <3> QED
      BY <1>1, <2>2, <2>3, <2>4, <3>1, <3>2, <3>3, CallMoves
  <2>6. CASE Head(todo[k]).type \notin Critical
    <3>1. Proceed(k, Tail(todo[k])) /\ Tail(todo[k]) \in Seq(AlarmRow)
      BY <2>1, <2>2, <2>6, TodoFacts
    <3> QED
      BY <1>1, <2>2, <2>3, <2>4, <3>1, CallProceeds
  <2> QED
    BY <2>5, <2>6
<1>5. ASSUME NEW k \in Check, LockUserWallet(k)
      PROVE  FraudTypeOK' /\ Keeps
  <2>1. under[k] \in Case /\ cases[under[k]] # NoCase /\ Tail(todo[k]) \in Seq(AlarmRow)
    BY <1>5, TodoFacts DEF LockUserWallet, FraudTypeOK
  <2>2. cases[under[k]].alarm.user \in Member
    BY <2>1, CaseFacts
  <2>3. /\ Proceed(k, Tail(todo[k])) /\ UNCHANGED <<cases, hasty, dropped>>
        /\ walletLocked' \subseteq Member /\ pardoned' \subseteq Case
        /\ relocked' \subseteq Member /\ saving' = [saving EXCEPT ![k] = NoCase]
    BY <1>1, <1>5, <2>2, SavesNone DEF LockUserWallet
  <2> QED
    BY <1>1, <1>2, <2>1, <2>3, CallProceeds
<1>6. ASSUME NEW k \in Check, NEW c \in Case, NEW v \in Verdict, ReviewAlert(k, c, v)
      PROVE  FraudTypeOK' /\ Keeps
  <2> DEFINE p == IF v = "CLEARED" THEN "unlock" ELSE "save"
  <2>1. /\ kpc' = [kpc EXCEPT ![k] = p]
        /\ todo' = [todo EXCEPT ![k] = todo[k]] /\ todo[k] \in Seq(AlarmRow) /\ todo[k] = <<>>
        /\ under' = [under EXCEPT ![k] = c] /\ verdict' = [verdict EXCEPT ![k] = v]
        /\ cases'[c] # NoCase
        /\ UNCHANGED <<cases, walletLocked, pardoned, relocked, hasty, dropped>>
    BY <1>6 DEF ReviewAlert, FraudTypeOK, historyVars
  <2>2. /\ p \in {"unlock", "save"} /\ p \notin {"raise", "lock", "found", "update"}
        /\ p = "unlock" => v = "CLEARED"
    OBVIOUS
  <2>3. saving' = [saving EXCEPT ![k] = NoCase]
    BY <1>6, SavesNone DEF ReviewAlert
  <2> HIDE DEF p
  <2> QED
    BY <1>1, <1>2, <2>1, <2>2, <2>3, CallMoves
<1>7. ASSUME NEW k \in Check, UnlockUserWallet(k)
      PROVE  FraudTypeOK' /\ Keeps
  <2>1. /\ kpc' = [kpc EXCEPT ![k] = "save"] /\ todo' = [todo EXCEPT ![k] = todo[k]]
        /\ under' = [under EXCEPT ![k] = under[k]] /\ verdict' = [verdict EXCEPT ![k] = verdict[k]]
        /\ todo[k] \in Seq(AlarmRow) /\ todo[k] = <<>> /\ under[k] \in Case
        /\ verdict[k] \in Verdict /\ cases'[under[k]] # NoCase /\ UNCHANGED <<cases, dropped>>
    BY <1>7 DEF UnlockUserWallet, FraudTypeOK
  <2>2. /\ walletLocked' \subseteq Member /\ pardoned' \subseteq Case /\ hasty' \subseteq Case
        /\ relocked' \subseteq Member
    BY <1>1, <1>7, <2>1 DEF UnlockUserWallet, OpenCases, CriticalCases
  <2>3. saving' = [saving EXCEPT ![k] = NoCase]
    BY <1>7, SavesNone DEF UnlockUserWallet
  <2> QED
    BY <1>1, <1>2, <2>1, <2>2, <2>3, CallMoves
<1>8. ASSUME NEW k \in Check, SaveReview(k)
      PROVE  FraudTypeOK' /\ Keeps
  <2>1. Proceed(k, <<>>) /\ UNCHANGED <<walletLocked, relocked, hasty, dropped>>
    BY <1>8 DEF SaveReview
  <2>2. cases' \in [Case -> CaseRow \cup {NoCase}] /\ Keeps
    BY <1>8, NewVerdict DEF Keeps
  <2>3. under[k] \in Case
    BY <1>8 DEF SaveReview, FraudTypeOK
  <2>4. pardoned' \subseteq pardoned \cup {under[k]}
    BY <1>8 DEF SaveReview
  <2>5. pardoned' \subseteq Case
    BY <1>1, <2>3, <2>4
  <2>6. saving' = [saving EXCEPT ![k] = NoCase]
    BY <1>8, SavesNone DEF SaveReview
  <2>7. <<>> \in Seq(AlarmRow)
    OBVIOUS
  <2> QED
    BY <1>1, <2>1, <2>2, <2>5, <2>6, <2>7, CallProceeds
<1>11. ASSUME NEW k \in Check, NEW p, NEW sv, kpc' = [kpc EXCEPT ![k] = p],
              saving' = [saving EXCEPT ![k] = sv], UNCHANGED <<cases, todo, under, verdict>>,
              kpc[k] \in {"idle", "found", "update"}, p \in {"idle", "found", "update"},
              sv \in UserSave \cup {NoCase}, p \in {"found", "update"} <=> sv # NoCase,
              walletLocked' \subseteq Member, pardoned' \subseteq Case, relocked' \subseteq Member,
              UNCHANGED <<hasty, dropped>>
       PROVE  FraudTypeOK' /\ Keeps
  <2>1. /\ todo' = [todo EXCEPT ![k] = todo[k]] /\ under' = [under EXCEPT ![k] = under[k]]
        /\ verdict' = [verdict EXCEPT ![k] = verdict[k]]
        /\ todo[k] \in Seq(AlarmRow) /\ todo[k] = <<>>
        /\ under[k] \in Case \cup {NoCase} /\ verdict[k] \in Verdict
    BY <1>11 DEF FraudTypeOK
  <2> QED
    BY <1>1, <1>2, <1>11, <2>1, CallMoves
<1>12. ASSUME NEW k \in Check, Saves(k)
       PROVE  FraudTypeOK' /\ Keeps
  <2>1. ASSUME NEW u \in Member, FindUserRow(k, u)
        PROVE  FraudTypeOK' /\ Keeps
    <3> DEFINE sv == [user |-> u, locked |-> u \in walletLocked, differs |-> FALSE]
    <3>0. sv \in UserSave
      BY DEF UserSave
    <3>1. sv \in UserSave /\ sv # NoCase
      BY <3>0, NoCaseAssumption
    <3>2. /\ saving' = [saving EXCEPT ![k] = sv] /\ kpc' = [kpc EXCEPT ![k] = "found"]
          /\ kpc[k] = "idle" /\ UNCHANGED <<cases, todo, under, verdict>>
          /\ UNCHANGED <<walletLocked, pardoned, relocked, hasty, dropped>>
      BY <2>1 DEF FindUserRow, historyVars
    <3> HIDE DEF sv
    <3> QED
      BY <1>1, <1>11, <3>1, <3>2
  <2>2. ASSUME kpc[k] \in {"found", "update"}
        PROVE  saving[k] \in UserSave /\ saving[k].user \in Member
    BY <2>2 DEF FraudTypeOK, UserSave
  <2>3. CASE SelectUserRow(k)
    <3> DEFINE sv == [saving[k] EXCEPT !.differs =
                        saving[k].locked # (saving[k].user \in walletLocked)]
    <3>1. sv \in UserSave /\ sv # NoCase
      BY <2>2, <2>3, NoCaseAssumption DEF SelectUserRow, UserSave
    <3>2. /\ saving' = [saving EXCEPT ![k] = sv] /\ kpc' = [kpc EXCEPT ![k] = "update"]
          /\ kpc[k] = "found" /\ UNCHANGED <<cases, todo, under, verdict>>
          /\ UNCHANGED <<walletLocked, pardoned, relocked, hasty, dropped>>
      BY <2>3 DEF SelectUserRow, historyVars
    <3> HIDE DEF sv
    <3> QED
      BY <1>1, <1>11, <3>1, <3>2
  <2>4. CASE UpdateUserRow(k)
    <3>1. saving[k].user \in Member
      BY <2>2, <2>4 DEF UpdateUserRow
    <3>2. /\ walletLocked' \subseteq Member /\ pardoned' \subseteq Case
          /\ relocked' \subseteq Member
      BY <1>1, <2>4, <3>1 DEF UpdateUserRow, OpenCases, CriticalCases
    <3>3. /\ saving' = [saving EXCEPT ![k] = NoCase] /\ kpc' = [kpc EXCEPT ![k] = "idle"]
          /\ kpc[k] = "update" /\ UNCHANGED <<cases, todo, under, verdict, hasty, dropped>>
      BY <2>4 DEF UpdateUserRow
    <3> QED
      BY <1>11, <3>2, <3>3
  <2> QED
    BY <1>12, <2>1, <2>3, <2>4 DEF Saves
<1>9. ASSUME NEW k \in Check, CallFails(k)
      PROVE  FraudTypeOK' /\ Keeps
  <2>1. /\ Proceed(k, <<>>) /\ UNCHANGED <<cases, walletLocked, pardoned, relocked, hasty>>
        /\ saving' = [saving EXCEPT ![k] = NoCase]
    BY <1>9 DEF CallFails
  <2>2. \A i \in DOMAIN todo[k] : todo[k][i].user \in Member
    <3>1. todo[k] \in Seq(AlarmRow)
      BY DEF FraudTypeOK
    <3>2. \A i \in DOMAIN todo[k] : todo[k][i] \in AlarmRow
      BY <3>1
    <3> QED
      BY <3>2 DEF AlarmRow
  <2>3. kpc[k] = "save" => cases[under[k]].alarm.user \in Member
    BY CaseFacts DEF FraudTypeOK
  <2>4. dropped' \subseteq Member
    BY <1>1, <1>9, <2>2, <2>3 DEF CallFails
  <2>5. <<>> \in Seq(AlarmRow)
    OBVIOUS
  <2> QED
    BY <1>1, <1>2, <2>1, <2>4, <2>5, CallProceeds
<1>10. CASE UNCHANGED fraudVars
  <2>1. /\ UNCHANGED <<cases, walletLocked, kpc, todo, under, verdict, saving>>
        /\ UNCHANGED <<pardoned, relocked, hasty, dropped>>
    BY <1>10 DEF fraudVars, callVars, historyVars
  <2> QED
    BY <1>2, <2>1 DEF FraudTypeOK
<1> QED
  BY <1>3, <1>4, <1>5, <1>6, <1>7, <1>8, <1>9, <1>10, <1>12, StepCases DEF CallStep, Reviews

(* Locks and reviews are about alerts that are stored, and only a check    *)
(* has alarms left to raise.                                               *)
THEOREM FraudTyped == FraudSpec => []FraudTypeOK
<1>1. FraudInit => FraudTypeOK
  BY DEF FraudInit, FraudTypeOK
<1> QED
  BY <1>1, FraudTypeStep, PTL DEF FraudSpec

-----------------------------------------------------------------------------
(* A step of one call leaves the others where they are.                    *)
LEMMA CallFrame ==
  ASSUME FraudTypeOK, NEW k \in Check, CallStep(k)
  PROVE  \A l \in Check \ {k} : /\ kpc'[l] = kpc[l] /\ todo'[l] = todo[l]
                               /\ under'[l] = under[l] /\ verdict'[l] = verdict[l]
<1>1. ASSUME NEW rest, Proceed(k, rest), NEW l \in Check \ {k}
      PROVE  /\ kpc'[l] = kpc[l] /\ todo'[l] = todo[l]
             /\ under'[l] = under[l] /\ verdict'[l] = verdict[l]
  BY <1>1 DEF Proceed, FraudTypeOK
<1>2. ASSUME NEW l \in Check \ {k}, Checks(k) \/ UnlockUserWallet(k) \/ Reviews(k)
      PROVE  /\ kpc'[l] = kpc[l] /\ todo'[l] = todo[l]
             /\ under'[l] = under[l] /\ verdict'[l] = verdict[l]
  BY <1>2 DEF Checks, Alarmed, UnlockUserWallet, Reviews, ReviewAlert, FraudTypeOK
<1>3. ASSUME NEW l \in Check \ {k}, RaiseAlert(k)
      PROVE  /\ kpc'[l] = kpc[l] /\ todo'[l] = todo[l]
             /\ under'[l] = under[l] /\ verdict'[l] = verdict[l]
  BY <1>1, <1>3 DEF RaiseAlert, FraudTypeOK
<1>4. ASSUME NEW l \in Check \ {k}, Saves(k)
      PROVE  /\ kpc'[l] = kpc[l] /\ todo'[l] = todo[l]
             /\ under'[l] = under[l] /\ verdict'[l] = verdict[l]
  BY <1>4 DEF Saves, FindUserRow, SelectUserRow, UpdateUserRow, FraudTypeOK
<1> QED
  BY <1>1, <1>2, <1>3, <1>4 DEF CallStep, LockUserWallet, SaveReview, CallFails

(* Alert c is open: critical, and not cleared.                             *)
IsOpen(c) ==
  cases[c] # NoCase /\ cases[c].status # "CLEARED" /\ cases[c].alarm.type \in Critical

(* Call k is about to lock the wallet for alert c, or is clearing c.       *)
Guards(k, c) ==
  /\ under[k] = c
  /\ \/ kpc[k] = "lock"
     \/ kpc[k] = "save" /\ verdict[k] = "CLEARED"

Guarded(c) == \E k \in Check : Guards(k, c)

(* OpenMeansLocked, alert by alert.                                        *)
OpenInv ==
  \A c \in Case :
    IsOpen(c) /\ c \notin pardoned /\ cases[c].alarm.user \notin walletLocked \cup dropped
      => Guarded(c)

LEMMA OpenIsOpenInv == FraudTypeOK => (OpenMeansLocked <=> OpenInv)
<1> SUFFICES ASSUME FraudTypeOK
             PROVE  OpenMeansLocked <=> OpenInv
  OBVIOUS
<1>1. \A c \in Case : IsOpen(c) => cases[c].alarm.user \in Member
  BY CaseFacts DEF IsOpen
<1>2. \A u \in Member, c \in Case : c \in OpenCases(u) <=> IsOpen(c) /\ cases[c].alarm.user = u
  BY DEF OpenCases, CriticalCases, IsOpen
<1>3. \A u \in Member : OpenCases(u) \subseteq Case
  BY DEF OpenCases, CriticalCases
<1> QED
  BY <1>1, <1>2, <1>3 DEF OpenMeansLocked, OpenInv, Guarded, Guards

LEMMA OpenStep ==
  ASSUME FraudTypeOK, OpenInv, [FraudNext]_fraudVars
  PROVE  OpenInv'
<1> SUFFICES ASSUME NEW c \in Case, IsOpen(c)', c \notin pardoned',
                    cases'[c].alarm.user \notin walletLocked' \cup dropped'
             PROVE  Guarded(c)'
  BY DEF OpenInv
<1> USE DEF historyVars
<1>1. ASSUME cases'[c] = cases[c], Guarded(c) => Guarded(c)',
             \/ cases[c].alarm.user \notin walletLocked /\ c \notin pardoned
             \/ walletLocked \subseteq walletLocked' /\ pardoned \subseteq pardoned',
             dropped \subseteq dropped'
      PROVE  Guarded(c)'
  BY <1>1 DEF OpenInv, IsOpen
<1>2. ASSUME NEW k \in Check, ~Guards(k, c), CallStep(k)
      PROVE  Guarded(c) => Guarded(c)'
  BY <1>2, CallFrame DEF Guarded, Guards
<1>3. ASSUME NEW k \in Check, Checks(k)
      PROVE  Guarded(c)'
  <2>1. kpc[k] = "idle" /\ UNCHANGED <<cases, walletLocked, pardoned, dropped>>
    BY <1>3 DEF Checks, Alarmed
  <2> QED
    BY <1>1, <1>2, <1>3, <2>1 DEF Guards, CallStep
<1>4. ASSUME NEW k \in Check, RaiseAlert(k)
      PROVE  Guarded(c)'
  <2>1. PICK d \in Case :
          /\ cases[d] = NoCase
          /\ cases' = [cases EXCEPT ![d] = [alarm |-> Head(todo[k]), status |-> "FLAGGED"]]
          /\ Head(todo[k]).type \in Critical
               => kpc' = [kpc EXCEPT ![k] = "lock"] /\ under' = [under EXCEPT ![k] = d]
    BY <1>4 DEF RaiseAlert
  <2>2. kpc[k] = "raise" /\ UNCHANGED <<walletLocked, pardoned, dropped>>
    BY <1>4 DEF RaiseAlert
  <2>3. /\ cases'[d] = [alarm |-> Head(todo[k]), status |-> "FLAGGED"]
        /\ \A e \in Case \ {d} : cases'[e] = cases[e]
    BY <2>1, <2>2, NewCase
  <2>4. CASE c = d
    <3>1. kpc'[k] = "lock" /\ under'[k] = c
      BY <2>1, <2>3, <2>4 DEF IsOpen, FraudTypeOK
    <3> QED
      BY <3>1 DEF Guarded, Guards
  <2>5. CASE c # d
    BY <1>1, <1>2, <1>4, <2>2, <2>3, <2>5 DEF Guards, CallStep
  <2> QED
    BY <2>4, <2>5
<1>5. ASSUME NEW k \in Check, LockUserWallet(k)
      PROVE  Guarded(c)'
  <2> DEFINE u == cases[under[k]].alarm.user
  <2>1. /\ kpc[k] = "lock" /\ walletLocked' = walletLocked \cup {u}
        /\ pardoned' = pardoned \ CriticalCases(u) /\ UNCHANGED <<cases, dropped>>
    BY <1>5 DEF LockUserWallet
  <2>2. under[k] # c /\ cases[c].alarm.user # u
    BY <2>1
  <2>3. c \notin pardoned /\ cases[c].alarm.user \notin walletLocked
    BY <2>1, <2>2 DEF CriticalCases
  <2> QED
    BY <1>1, <1>2, <1>5, <2>1, <2>2, <2>3 DEF Guards, CallStep
<1>6. ASSUME NEW k \in Check, Reviews(k)
      PROVE  Guarded(c)'
  <2>1. kpc[k] = "idle" /\ UNCHANGED <<cases, walletLocked, pardoned, dropped>>
    BY <1>6 DEF Reviews, ReviewAlert
  <2> QED
    BY <1>1, <1>2, <1>6, <2>1 DEF Guards, CallStep
<1>7. ASSUME NEW k \in Check, UnlockUserWallet(k)
      PROVE  Guarded(c)'
  <2> DEFINE u == cases[under[k]].alarm.user
  <2>1. /\ kpc[k] = "unlock" /\ kpc' = [kpc EXCEPT ![k] = "save"]
        /\ UNCHANGED <<under, verdict>> /\ verdict[k] = "CLEARED"
        /\ walletLocked' = walletLocked \ {u}
        /\ pardoned' = pardoned \cup (OpenCases(u) \ {under[k]})
        /\ UNCHANGED <<cases, dropped>>
    BY <1>7 DEF UnlockUserWallet, FraudTypeOK
  <2>2. CASE under[k] = c
    BY <2>1, <2>2 DEF Guarded, Guards, FraudTypeOK
  <2>3. CASE under[k] # c
    <3>1. cases[c].alarm.user # u
      BY <2>1, <2>3 DEF OpenCases, CriticalCases, IsOpen
    <3> QED
      BY <1>1, <1>2, <1>7, <2>1, <2>3, <3>1 DEF Guards, CallStep
  <2> QED
    BY <2>2, <2>3
<1>8. ASSUME NEW k \in Check, SaveReview(k)
      PROVE  Guarded(c)'
  <2>1. /\ kpc[k] = "save" /\ UNCHANGED <<walletLocked, dropped>>
        /\ pardoned \subseteq pardoned'
    BY <1>8 DEF SaveReview
  <2>2. CASE under[k] # c
    BY <1>1, <1>2, <1>8, <2>1, <2>2, NewVerdict DEF Guards, CallStep
  <2>3. CASE under[k] = c
    <3>1. /\ cases[c] # NoCase /\ cases'[c].alarm = cases[c].alarm
          /\ cases'[c].status = IF verdict[k] = "none" THEN cases[c].status ELSE verdict[k]
      BY <1>8, <2>3, NewVerdict
    <3>2. verdict[k] # "CLEARED" /\ cases[c].alarm.user \notin walletLocked
      BY <2>1, <3>1 DEF IsOpen
    <3>3. cases[c].status # "CLEARED"
      BY <1>8, <2>3, <3>1, <3>2 DEF IsOpen, SaveReview
    <3>4. IsOpen(c) /\ c \notin pardoned /\ cases[c].alarm.user \notin walletLocked \cup dropped
      BY <2>1, <3>1, <3>3 DEF IsOpen
    <3>5. Guarded(c) /\ ~Guards(k, c)
      BY <2>1, <3>2, <3>4 DEF OpenInv, Guards
    <3> QED
      BY <1>2, <1>8, <3>5 DEF CallStep
  <2> QED
    BY <2>2, <2>3
<1>9. ASSUME NEW k \in Check, Saves(k)
      PROVE  Guarded(c)'
  <2>1. kpc[k] \in {"idle", "found", "update"} /\ UNCHANGED <<cases, dropped>> /\ ~Guards(k, c)
    BY <1>9 DEF Saves, FindUserRow, SelectUserRow, UpdateUserRow, Guards
  <2>2. Guarded(c) => Guarded(c)'
    BY <1>2, <1>9, <2>1 DEF CallStep
  <2>3. CASE UNCHANGED <<walletLocked, pardoned>>
    BY <1>1, <2>1, <2>2, <2>3
  <2>4. ASSUME NEW u, walletLocked' = walletLocked \cup {u},
               pardoned' = pardoned \ CriticalCases(u)
        PROVE  Guarded(c)'
    <3>1. c \notin pardoned /\ cases[c].alarm.user \notin walletLocked
      BY <2>1, <2>4 DEF CriticalCases
    <3> QED
      BY <1>1, <2>1, <2>2, <3>1
  <2>5. ASSUME NEW u, walletLocked' = walletLocked \ {u}, pardoned' = pardoned \cup OpenCases(u)
        PROVE  Guarded(c)'
    <3>1. cases[c].alarm.user # u
      BY <2>1, <2>5 DEF OpenCases, CriticalCases, IsOpen
    <3> QED
      BY <1>1, <2>1, <2>2, <2>5, <3>1
  <2> QED
    BY <1>9, <2>3, <2>4, <2>5 DEF Saves, FindUserRow, SelectUserRow, UpdateUserRow
<1>10. ASSUME NEW k \in Check, CallFails(k)
       PROVE  Guarded(c)'
  <2>1. /\ UNCHANGED <<cases, walletLocked, pardoned>> /\ dropped \subseteq dropped'
        /\ \A i \in DOMAIN todo[k] : todo[k][i].user \in dropped'
        /\ kpc[k] = "save" /\ verdict[k] = "CLEARED" => cases[under[k]].alarm.user \in dropped'
    BY <1>10 DEF CallFails
  <2>2. kpc[k] = "lock" => cases[under[k]].alarm.user \in dropped'
    <3> SUFFICES ASSUME kpc[k] = "lock"
                 PROVE  cases[under[k]].alarm.user \in dropped'
      OBVIOUS
    <3>1. cases[under[k]].alarm = todo[k][1] /\ 1 \in DOMAIN todo[k]
      BY TodoFacts DEF FraudTypeOK
    <3> QED
      BY <2>1, <3>1
  <2>3. ~Guards(k, c)
    BY <2>1, <2>2 DEF Guards
  <2> QED
    BY <1>1, <1>2, <1>10, <2>1, <2>3 DEF CallStep
<1>11. CASE UNCHANGED fraudVars
  BY <1>1, <1>11 DEF fraudVars, callVars, Guarded, Guards
<1> QED
  BY <1>3, <1>4, <1>5, <1>6, <1>7, <1>8, <1>9, <1>10, <1>11, StepCases DEF CallStep

(* While a critical alert is open, its user's wallet is locked, but for    *)
(* the ways OpenMeansLocked names.                                         *)
THEOREM OpenAlertsLock == FraudSpec => []OpenMeansLocked
<1>1. FraudInit => OpenInv
  BY DEF FraudInit, OpenInv, IsOpen
<1>2. FraudTypeOK /\ OpenInv => OpenMeansLocked
  BY OpenIsOpenInv
<1> QED
  BY <1>1, <1>2, OpenStep, FraudTyped, PTL DEF FraudSpec

-----------------------------------------------------------------------------
(* Alert c is a reason to lock that no review under way will take away.    *)
Lasting(c) ==
  /\ cases[c] # NoCase /\ cases[c].alarm.type \in Critical
  /\ \/ c \in hasty
     \/ /\ cases[c].status # "CLEARED"
        /\ ~ \E k \in Check : kpc[k] = "save" /\ verdict[k] = "CLEARED" /\ under[k] = c

(* LockedHasReason holds after the reviews under way too: a wallet that is *)
(* locked has such a reason, and so has one about to be locked.            *)
ReasonInv ==
  /\ \A u \in walletLocked :
       u \in relocked \/ \E c \in Case : Lasting(c) /\ cases[c].alarm.user = u
  /\ \A k \in Check : kpc[k] = "lock" => Lasting(under[k])

LEMMA StaysLasting ==
  ASSUME NEW c \in Case, Lasting(c), cases'[c] = cases[c], hasty \subseteq hasty',
         c \in hasty' \/ \A l \in Check :
           kpc'[l] = "save" /\ verdict'[l] = "CLEARED" /\ under'[l] = c
             => kpc[l] = "save" /\ verdict[l] = "CLEARED" /\ under[l] = c
  PROVE  Lasting(c)'
BY DEF Lasting

(* ReasonInv after a step that locks no wallet and sends no call to lock.  *)
LEMMA ReasonStays ==
  ASSUME FraudTypeOK, ReasonInv, walletLocked' \subseteq walletLocked,
         walletLocked' \cap relocked \subseteq relocked', Keeps, \A c \in Case : Lasting(c) => Lasting(c)',
         \A k \in Check : kpc'[k] = "lock" => kpc[k] = "lock" /\ under'[k] = under[k]
  PROVE  ReasonInv'
<1>1. ASSUME NEW u \in walletLocked'
      PROVE  u \in relocked' \/ \E c \in Case : Lasting(c)' /\ cases'[c].alarm.user = u
  BY <1>1 DEF ReasonInv, Lasting, Keeps
<1>2. ASSUME NEW k \in Check, kpc'[k] = "lock"
      PROVE  Lasting(under[k])' /\ under'[k] = under[k]
  BY <1>2 DEF ReasonInv, FraudTypeOK
<1> QED
  BY <1>1, <1>2 DEF ReasonInv, Lasting

LEMMA ReasonStep ==
  ASSUME FraudTypeOK, ReasonInv, [FraudNext]_fraudVars
  PROVE  ReasonInv'
<1> USE DEF historyVars
<1>0. Keeps
  BY FraudTypeStep
<1>1. ASSUME NEW k \in Check, Checks(k)
      PROVE  ReasonInv'
  <2>1. kpc'[k] = "raise" /\ UNCHANGED <<cases, walletLocked, relocked, hasty>>
    BY <1>1 DEF Checks, Alarmed, FraudTypeOK
  <2>2. \A c \in Case : Lasting(c) => Lasting(c)'
    BY <1>1, <2>1, CallFrame, StaysLasting DEF CallStep
  <2> QED
    BY <1>0, <1>1, <2>1, <2>2, CallFrame, ReasonStays DEF CallStep
<1>2. ASSUME NEW k \in Check, RaiseAlert(k)
      PROVE  ReasonInv'
  <2>1. PICK d \in Case :
          /\ cases[d] = NoCase
          /\ cases' = [cases EXCEPT ![d] = [alarm |-> Head(todo[k]), status |-> "FLAGGED"]]
          /\ IF Head(todo[k]).type \in Critical
               THEN /\ kpc' = [kpc EXCEPT ![k] = "lock"]
                    /\ under' = [under EXCEPT ![k] = d]
                    /\ UNCHANGED <<todo, verdict>>
               ELSE Proceed(k, Tail(todo[k]))
    BY <1>2 DEF RaiseAlert
  <2>2. kpc[k] = "raise" /\ UNCHANGED <<walletLocked, relocked, hasty>>
    BY <1>2 DEF RaiseAlert
  <2>3. /\ cases'[d] = [alarm |-> Head(todo[k]), status |-> "FLAGGED"] /\ cases'[d] # NoCase
        /\ \A e \in Case \ {d} : cases'[e] = cases[e]
    BY <2>1, <2>2, NewCase
  <2>4. kpc'[k] # "save"
    BY <2>1 DEF Proceed, FraudTypeOK
  <2>5. \A c \in Case : Lasting(c) => c # d /\ Lasting(c)'
    BY <1>2, <2>1, <2>2, <2>3, <2>4, CallFrame, StaysLasting DEF CallStep, Lasting
  <2>6. CASE Head(todo[k]).type \in Critical
    <3>1. kpc'[k] = "lock" /\ under'[k] = d
      BY <2>1, <2>6 DEF FraudTypeOK
    <3>2. \A l \in Check : kpc'[l] = "save" => under'[l] # d
      BY <1>2, <2>1, <3>1, CallFrame DEF CallStep, FraudTypeOK
    <3>3. Lasting(d)'
      BY <2>3, <2>6, <3>2 DEF Lasting
    <3>4. \A u \in walletLocked' :
            u \in relocked' \/ \E c \in Case : Lasting(c)' /\ cases'[c].alarm.user = u
      BY <2>2, <2>3, <2>5 DEF ReasonInv
    <3>5. \A l \in Check : kpc'[l] = "lock" => Lasting(under[l])'
      <4>1. ASSUME NEW l \in Check, l # k, kpc'[l] = "lock"
            PROVE  Lasting(under[l])' /\ under'[l] = under[l]
        BY <1>2, <2>5, <4>1, CallFrame DEF CallStep, ReasonInv, FraudTypeOK
      <4> QED
        BY <3>1, <3>3, <4>1 DEF Lasting
    <3> QED
      BY <3>4, <3>5 DEF ReasonInv, Lasting
  <2>7. CASE Head(todo[k]).type \notin Critical
    <3>1. kpc'[k] # "lock"
      BY <2>1, <2>7 DEF Proceed, FraudTypeOK
    <3> QED
      BY <1>0, <1>2, <2>2, <2>5, <3>1, CallFrame, ReasonStays DEF CallStep
  <2> QED
    BY <2>6, <2>7
<1>3. ASSUME NEW k \in Check, LockUserWallet(k)
      PROVE  ReasonInv'
  <2>1. /\ kpc[k] = "lock" /\ walletLocked' = walletLocked \cup {cases[under[k]].alarm.user}
        /\ relocked' = relocked \ {cases[under[k]].alarm.user}
        /\ UNCHANGED <<cases, hasty>> /\ kpc'[k] \notin {"lock", "save"}
    BY <1>3 DEF LockUserWallet, Proceed, FraudTypeOK
  <2>2. \A c \in Case : Lasting(c) => Lasting(c)'
    BY <1>3, <2>1, CallFrame, StaysLasting DEF CallStep
  <2>3. under[k] \in Case /\ Lasting(under[k])
    BY <2>1 DEF ReasonInv, FraudTypeOK
  <2>4. \A u \in walletLocked' :
          u \in relocked' \/ \E c \in Case : Lasting(c)' /\ cases'[c].alarm.user = u
    BY <2>1, <2>2, <2>3 DEF ReasonInv
  <2>5. ASSUME NEW l \in Check, kpc'[l] = "lock"
        PROVE  Lasting(under[l])' /\ under'[l] = under[l]
    BY <1>3, <2>1, <2>2, <2>5, CallFrame DEF CallStep, ReasonInv, FraudTypeOK
  <2> QED
    BY <2>4, <2>5 DEF ReasonInv, Lasting
<1>4. ASSUME NEW k \in Check, NEW d \in Case, NEW v \in Verdict, ReviewAlert(k, d, v)
      PROVE  ReasonInv'
  <2>1. /\ UNCHANGED <<cases, walletLocked, relocked, hasty>> /\ kpc'[k] # "lock"
        /\ kpc'[k] = "save" => verdict'[k] # "CLEARED"
    BY <1>4 DEF ReviewAlert, FraudTypeOK
  <2>2. \A c \in Case : Lasting(c) => Lasting(c)'
    BY <1>4, <2>1, CallFrame, StaysLasting DEF CallStep, Reviews
  <2> QED
    BY <1>0, <1>4, <2>1, <2>2, CallFrame, ReasonStays DEF CallStep, Reviews
<1>5. ASSUME NEW k \in Check, UnlockUserWallet(k)
      PROVE  ReasonInv'
  <2> DEFINE d == under[k]
             u == cases[d].alarm.user
  <2>1. /\ walletLocked' = walletLocked \ {u} /\ relocked' = relocked \ {u}
        /\ UNCHANGED <<cases, under>>
        /\ hasty \subseteq hasty' /\ kpc'[k] = "save" /\ d \in Case
        /\ \A l \in Check : kpc[l] = "lock" /\ under[l] = d => d \in hasty'
    BY <1>5 DEF UnlockUserWallet, FraudTypeOK
  <2>2. \A c \in Case : Lasting(c) /\ (c # d \/ c \in hasty') => Lasting(c)'
    BY <1>5, <2>1, CallFrame, StaysLasting DEF CallStep
  <2>3. ASSUME NEW w \in walletLocked'
        PROVE  w \in relocked' \/ \E c \in Case : Lasting(c)' /\ cases'[c].alarm.user = w
    <3>0. CASE w \in relocked
      BY <2>1, <2>3, <3>0
    <3> SUFFICES ASSUME w \notin relocked
                 PROVE  \E c \in Case : Lasting(c)' /\ cases'[c].alarm.user = w
      BY <3>0
    <3>1. PICK c \in Case : Lasting(c) /\ cases[c].alarm.user = w
      BY <2>1 DEF ReasonInv
    <3>2. c # d
      BY <2>1, <2>3, <3>1
    <3> QED
      BY <2>1, <2>2, <3>1, <3>2
  <2>4. ASSUME NEW l \in Check, kpc'[l] = "lock"
        PROVE  Lasting(under[l])' /\ under'[l] = under[l]
    <3>1. kpc[l] = "lock" /\ under[l] \in Case /\ Lasting(under[l])
      BY <1>5, <2>1, <2>4, CallFrame DEF CallStep, ReasonInv, FraudTypeOK
    <3> QED
      BY <2>1, <2>2, <3>1
  <2> QED
    BY <2>3, <2>4 DEF ReasonInv, Lasting
<1>6. ASSUME NEW k \in Check, SaveReview(k)
      PROVE  ReasonInv'
  <2>1. /\ kpc[k] = "save" /\ kpc'[k] \notin {"lock", "save"} 
        /\ UNCHANGED <<walletLocked, relocked, hasty>>
    BY <1>6 DEF SaveReview, Proceed, FraudTypeOK
  <2>2. ASSUME NEW c \in Case, Lasting(c), c # under[k]
        PROVE  Lasting(c)'
    BY <1>6, <2>1, <2>2, CallFrame, NewVerdict, StaysLasting DEF CallStep
  <2>3. ASSUME NEW c \in Case, c = under[k], Lasting(c)
        PROVE  Lasting(c)'
    <3>1. /\ cases'[c] # NoCase /\ cases'[c].alarm.type \in Critical
          /\ cases'[c].status = IF verdict[k] = "none" THEN cases[c].status ELSE verdict[k]
      BY <1>6, <2>3, NewVerdict DEF Lasting
    <3>2. CASE verdict[k] = "CLEARED"
      BY <2>1, <2>3, <3>1, <3>2 DEF Lasting
    <3>3. CASE verdict[k] # "CLEARED"
      BY <1>6, <2>1, <2>3, <3>1, <3>3, CallFrame DEF CallStep, Lasting
    <3> QED
      BY <3>2, <3>3
  <2>4. \A c \in Case : Lasting(c) => Lasting(c)'
    BY <2>2, <2>3
  <2> QED
    BY <1>0, <1>6, <2>1, <2>4, CallFrame, ReasonStays DEF CallStep
<1>7. ASSUME NEW k \in Check, CallFails(k)
      PROVE  ReasonInv'
  <2>1. kpc'[k] = "idle" /\ UNCHANGED <<cases, walletLocked, relocked, hasty>>
    BY <1>7 DEF CallFails, Proceed, FraudTypeOK
  <2>2. \A c \in Case : Lasting(c) => Lasting(c)'
    BY <1>7, <2>1, CallFrame, StaysLasting DEF CallStep
  <2> QED
    BY <1>0, <1>7, <2>1, <2>2, CallFrame, ReasonStays DEF CallStep
<1>9. ASSUME NEW k \in Check, Saves(k)
      PROVE  ReasonInv'
  <2>1. /\ kpc'[k] \notin {"lock", "save"} /\ UNCHANGED <<cases, todo, under, verdict, hasty>>
    BY <1>9 DEF Saves, FindUserRow, SelectUserRow, UpdateUserRow, FraudTypeOK
  <2>2. \A c \in Case : Lasting(c) => Lasting(c)'
    BY <1>9, <2>1, CallFrame, StaysLasting DEF CallStep
  <2>3. \A l \in Check : kpc'[l] = "lock" => kpc[l] = "lock" /\ under'[l] = under[l]
    BY <1>9, <2>1, CallFrame DEF CallStep
  <2>4. CASE walletLocked' \subseteq walletLocked /\ walletLocked' \cap relocked \subseteq relocked'
    BY <1>0, <2>2, <2>3, <2>4, ReasonStays
  <2>5. ASSUME NEW u, walletLocked' = walletLocked \cup {u},
               relocked' = IF u \in walletLocked THEN relocked ELSE relocked \cup {u}
        PROVE  ReasonInv'
    <3>1. \A w \in walletLocked' :
            w \in relocked' \/ \E c \in Case : Lasting(c)' /\ cases'[c].alarm.user = w
      BY <2>1, <2>2, <2>5 DEF ReasonInv
    <3>2. \A l \in Check : kpc'[l] = "lock" => Lasting(under[l])' /\ under'[l] = under[l]
      BY <2>2, <2>3 DEF ReasonInv, FraudTypeOK
    <3> QED
      BY <3>1, <3>2 DEF ReasonInv, Lasting
  <2> QED
    BY <1>9, <2>4, <2>5 DEF Saves, FindUserRow, SelectUserRow, UpdateUserRow
<1>8. CASE UNCHANGED fraudVars
  BY <1>8 DEF fraudVars, callVars, ReasonInv, Lasting
<1> QED
  BY <1>1, <1>2, <1>3, <1>4, <1>5, <1>6, <1>7, <1>8, <1>9, StepCases DEF CallStep, Reviews

(* A locked wallet has a critical alert that was not cleared, but for one  *)
(* cleared between its save and its lock, and a save of an older users row.*)
THEOREM LocksHaveReasons == FraudSpec => []LockedHasReason
<1>1. FraudInit => ReasonInv
  BY DEF FraudInit, ReasonInv
<1>2. ReasonInv => LockedHasReason
  BY DEF ReasonInv, LockedHasReason, Lasting, CriticalCases
<1> QED
  BY <1>1, <1>2, ReasonStep, FraudTyped, PTL DEF FraudSpec

-----------------------------------------------------------------------------
Mirror(a) == Alarm(a.about, "COLLUSION", a.user)
Stored(a) == \E d \in Case : cases[d] # NoCase /\ cases[d].alarm = a
Raised(a) == Stored(a) \/ Due(a)

(* CollusionTwoSided, of the alarms still due as well.                     *)
MirrorInv ==
  \A a \in AlarmRow : a.type = "COLLUSION" /\ Raised(a)
                        => Raised(Mirror(a)) \/ Mirror(a).user \in dropped

(* An alarm stays raised, unless the call that was to raise it fails.      *)
LEMMA RaisedStays ==
  ASSUME FraudTypeOK, NEW a \in AlarmRow, Raised(a), [FraudNext]_fraudVars
  PROVE  Raised(a)' \/ a.user \in dropped'
<1>1. Stored(a) => Stored(a)'
  BY FraudTypeStep DEF Stored, Keeps
<1>2. ASSUME NEW l \in Check, NEW i \in DOMAIN todo[l], todo[l][i] = a, todo'[l] = todo[l]
      PROVE  Due(a)'
  BY <1>2 DEF Due
<1>3. ASSUME NEW k \in Check, NEW i \in DOMAIN todo[k], todo[k][i] = a,
             kpc[k] \in {"raise", "lock"}, todo' = [todo EXCEPT ![k] = Tail(todo[k])], i # 1
      PROVE  Due(a)'
  <2>1. /\ todo[k] \in Seq(AlarmRow) /\ todo'[k] = Tail(todo[k])
        /\ Len(Tail(todo[k])) = Len(todo[k]) - 1 /\ Tail(todo[k]) \in Seq(AlarmRow)
        /\ \A j \in 1 .. Len(todo[k]) - 1 : Tail(todo[k])[j] = todo[k][j + 1]
        /\ Len(todo[k]) \in Nat
    BY <1>3, TodoFacts DEF FraudTypeOK
  <2>2. i \in 2 .. Len(todo[k])
    BY <1>3, <2>1
  <2>3. i - 1 \in 1 .. Len(todo[k]) - 1 /\ (i - 1) + 1 = i
    BY <2>1, <2>2
  <2>4. i - 1 \in DOMAIN todo'[k]
    BY <2>1, <2>3
  <2>5. Tail(todo[k])[i - 1] = todo[k][(i - 1) + 1]
    BY <2>1, <2>3
  <2> QED
    BY <1>3, <2>1, <2>3, <2>4, <2>5 DEF Due
<1>4. ASSUME NEW k \in Check, NEW i \in DOMAIN todo[k], todo[k][i] = a,
             CallStep(k)
      PROVE  Raised(a)' \/ a.user \in dropped'
  <2>0. kpc[k] \in {"raise", "lock"}
    BY <1>4 DEF FraudTypeOK
  <2>1. ~Checks(k) /\ ~UnlockUserWallet(k) /\ ~SaveReview(k) /\ ~Reviews(k) /\ ~Saves(k)
    BY <2>0 DEF Checks, Alarmed, UnlockUserWallet, SaveReview, Reviews, ReviewAlert,
       Saves, FindUserRow, SelectUserRow, UpdateUserRow
  <2>2. CASE RaiseAlert(k)
    <3>1. PICK c \in Case :
            /\ cases[c] = NoCase
            /\ cases' = [cases EXCEPT ![c] = [alarm |-> Head(todo[k]), status |-> "FLAGGED"]]
            /\ \/ UNCHANGED todo
               \/ todo' = [todo EXCEPT ![k] = Tail(todo[k])]
      BY <2>2 DEF RaiseAlert, Proceed
    <3>2. kpc[k] = "raise"
      BY <2>2 DEF RaiseAlert
    <3>3. cases'[c] # NoCase /\ cases'[c].alarm = Head(todo[k])
      BY <3>1, <3>2, NewCase
    <3>4. CASE i = 1
      BY <1>4, <3>2, <3>3, <3>4, TodoFacts DEF Raised, Stored
    <3>5. CASE i # 1
      BY <1>2, <1>3, <1>4, <2>0, <3>1, <3>5 DEF Raised
    <3> QED
      BY <3>4, <3>5
  <2>3. CASE LockUserWallet(k)
    <3>1. kpc[k] = "lock" /\ todo' = [todo EXCEPT ![k] = Tail(todo[k])] /\ UNCHANGED cases
      BY <2>3 DEF LockUserWallet, Proceed
    <3>2. /\ under[k] \in Case /\ cases[under[k]] # NoCase
          /\ cases[under[k]].alarm = Head(todo[k]) /\ Head(todo[k]) = todo[k][1]
      BY <3>1, TodoFacts DEF FraudTypeOK
    <3>3. CASE i = 1
      BY <1>4, <3>1, <3>2, <3>3 DEF Raised, Stored
    <3>4. CASE i # 1
      BY <1>3, <1>4, <2>0, <3>1, <3>4 DEF Raised
    <3> QED
      BY <3>3, <3>4
  <2>4. CASE CallFails(k)
    BY <1>4, <2>4 DEF CallFails
  <2> QED
    BY <1>4, <2>1, <2>2, <2>3, <2>4 DEF CallStep
<1>5. CASE Due(a)
  <2>0. PICK l \in Check : \E i \in DOMAIN todo[l] : todo[l][i] = a
    BY <1>5 DEF Due
  <2>1. PICK i \in DOMAIN todo[l] : todo[l][i] = a
    BY <2>0
  <2>2. CASE UNCHANGED fraudVars
    BY <1>2, <2>1, <2>2 DEF fraudVars, callVars, Raised
  <2>3. CASE ~UNCHANGED fraudVars
    <3>1. PICK k \in Check : CallStep(k)
      BY <2>3, StepCases
    <3>2. CASE l = k
      BY <1>4, <2>1, <3>1, <3>2
    <3>3. CASE l # k
      BY <1>2, <2>1, <3>1, <3>3, CallFrame DEF Raised
    <3> QED
      BY <3>2, <3>3
  <2> QED
    BY <2>2, <2>3
<1> QED
  BY <1>1, <1>5 DEF Raised

(* What is raised newly comes from a check, and brings its mirror if it is *)
(* about collusion.                                                        *)
LEMMA RaisedAnew ==
  ASSUME FraudTypeOK, NEW a \in AlarmRow, a.type = "COLLUSION", Raised(a)',
         [FraudNext]_fraudVars
  PROVE  Raised(a) \/ Raised(Mirror(a))'
<1>1. ASSUME NEW l \in Check, todo'[l] = todo[l], NEW i \in DOMAIN todo'[l], todo'[l][i] = a
      PROVE  Raised(a)
  BY <1>1 DEF Raised, Due
<1>2. ASSUME NEW d \in Case, cases'[d] # NoCase, cases'[d].alarm = a
      PROVE  Raised(a)
  <2>1. CASE UNCHANGED cases
    BY <1>2, <2>1 DEF Raised, Stored
  <2>2. ASSUME NEW k \in Check, RaiseAlert(k)
        PROVE  Raised(a)
    <3>1. PICK c \in Case :
            /\ cases[c] = NoCase
            /\ cases' = [cases EXCEPT ![c] = [alarm |-> Head(todo[k]), status |-> "FLAGGED"]]
      BY <2>2 DEF RaiseAlert
    <3>2. kpc[k] = "raise"
      BY <2>2 DEF RaiseAlert
    <3>3. CASE d = c
      <4>1. a = todo[k][1] /\ 1 \in DOMAIN todo[k]
        BY <1>2, <3>1, <3>2, <3>3, NewCase, TodoFacts
      <4> QED
        BY <4>1 DEF Raised, Due
    <3>4. CASE d # c
      BY <1>2, <3>1, <3>2, <3>4, NewCase DEF Raised, Stored
    <3> QED
      BY <3>3, <3>4
  <2>3. ASSUME NEW k \in Check, SaveReview(k)
        PROVE  Raised(a)
    <3>1. cases[d] # NoCase /\ cases[d].alarm = a
      BY <1>2, <2>3, NewVerdict
    <3> QED
      BY <3>1 DEF Raised, Stored
  <2> QED
    BY <2>1, <2>2, <2>3, StepCases DEF CallStep, Checks, Alarmed, LockUserWallet,
       Reviews, ReviewAlert, UnlockUserWallet, Saves, FindUserRow, SelectUserRow,
       UpdateUserRow, CallFails, fraudVars
<1>3. ASSUME NEW k \in Check, NEW i \in DOMAIN todo'[k], todo'[k][i] = a,
             CallStep(k)
      PROVE  Raised(a) \/ Raised(Mirror(a))'
  <2>1. CASE todo'[k] = todo[k]
    BY <1>1, <1>3, <2>1
  <2>2. CASE kpc[k] \in {"raise", "lock"} /\ todo' = [todo EXCEPT ![k] = Tail(todo[k])]
    <3>1. /\ todo[k] \in Seq(AlarmRow) /\ todo'[k] = Tail(todo[k])
          /\ Len(Tail(todo[k])) = Len(todo[k]) - 1 /\ Tail(todo[k]) \in Seq(AlarmRow)
          /\ \A j \in 1 .. Len(todo[k]) - 1 : Tail(todo[k])[j] = todo[k][j + 1]
          /\ Len(todo[k]) \in Nat
      BY <2>2, TodoFacts DEF FraudTypeOK
    <3>2. i + 1 \in DOMAIN todo[k] /\ todo[k][i + 1] = a
      BY <1>3, <3>1
    <3> QED
      BY <3>2 DEF Raised, Due
  <2>3. CASE todo' = [todo EXCEPT ![k] = <<>>]
    BY <1>3, <2>3 DEF FraudTypeOK
  <2>4. CASE Checks(k)
    <3>1. ASSUME NEW alarms \in Alarms, Alarmed(k, alarms)
          PROVE  FALSE
      BY <1>3, <3>1 DEF Alarmed, Alarms, FraudTypeOK
    <3>2. ASSUME NEW u \in Member, NEW o \in Member,
                 Alarmed(k, <<Alarm(u, "COLLUSION", o), Alarm(o, "COLLUSION", u)>>)
          PROVE  Raised(Mirror(a))'
      <4>1. todo'[k] = <<Alarm(u, "COLLUSION", o), Alarm(o, "COLLUSION", u)>>
        BY <3>2 DEF Alarmed, FraudTypeOK
      <4>2. a = Alarm(u, "COLLUSION", o) \/ a = Alarm(o, "COLLUSION", u)
        BY <1>3, <4>1
      <4>3. /\ Mirror(Alarm(u, "COLLUSION", o)) = Alarm(o, "COLLUSION", u)
            /\ Mirror(Alarm(o, "COLLUSION", u)) = Alarm(u, "COLLUSION", o)
        BY DEF Mirror, Alarm
      <4>4. Mirror(a) = todo'[k][1] \/ Mirror(a) = todo'[k][2]
        BY <4>1, <4>2, <4>3
      <4>5. 1 \in DOMAIN todo'[k] /\ 2 \in DOMAIN todo'[k]
        BY <4>1
      <4> QED
        BY <4>4, <4>5 DEF Raised, Due
    <3> QED
      BY <2>4, <3>1, <3>2 DEF Checks
  <2> QED
    BY <1>3, <2>1, <2>2, <2>3, <2>4 DEF CallStep, RaiseAlert, LockUserWallet, Reviews,
       ReviewAlert, UnlockUserWallet, SaveReview, Saves, FindUserRow, SelectUserRow,
       UpdateUserRow, CallFails, Proceed
<1>4. CASE Due(a)'
  <2>0. PICK l \in Check : \E i \in DOMAIN todo'[l] : todo'[l][i] = a
    BY <1>4 DEF Due
  <2>1. PICK i \in DOMAIN todo'[l] : todo'[l][i] = a
    BY <2>0
  <2>2. CASE UNCHANGED fraudVars
    BY <1>1, <2>1, <2>2 DEF fraudVars, callVars
  <2>3. CASE ~UNCHANGED fraudVars
    <3>1. PICK k \in Check : CallStep(k)
      BY <2>3, StepCases
    <3>2. CASE l = k
      BY <1>3, <2>1, <3>1, <3>2
    <3>3. CASE l # k
      BY <1>1, <2>1, <3>1, <3>3, CallFrame
    <3> QED
      BY <3>2, <3>3
  <2> QED
    BY <2>2, <2>3
<1>5. CASE Stored(a)'
  BY <1>2, <1>5 DEF Stored
<1> QED
  BY <1>4, <1>5 DEF Raised

LEMMA MirrorTyped ==
  ASSUME NEW a \in AlarmRow
  PROVE  Mirror(a) \in AlarmRow /\ Mirror(a).user = a.about
BY AlarmTyped DEF Mirror, AlarmRow

LEMMA MirrorStep ==
  ASSUME FraudTypeOK, MirrorInv, [FraudNext]_fraudVars
  PROVE  MirrorInv'
<1> SUFFICES ASSUME NEW a \in AlarmRow, a.type = "COLLUSION", Raised(a)'
             PROVE  Raised(Mirror(a))' \/ Mirror(a).user \in dropped'
  BY DEF MirrorInv
<1>1. CASE Raised(a)
  <2>1. Raised(Mirror(a)) \/ Mirror(a).user \in dropped
    BY <1>1 DEF MirrorInv
  <2>2. dropped \subseteq dropped'
    BY StepCases DEF CallStep, Checks, Alarmed, RaiseAlert, LockUserWallet, Reviews,
       ReviewAlert, UnlockUserWallet, SaveReview, Saves, FindUserRow, SelectUserRow,
       UpdateUserRow, CallFails, historyVars, fraudVars
  <2> QED
    BY <2>1, <2>2, MirrorTyped, RaisedStays
<1>2. CASE ~Raised(a)
  BY <1>2, RaisedAnew
<1> QED
  BY <1>1, <1>2

(* Of two users suspected of collusion none is alerted alone, but for a    *)
(* call that failed between their alerts.                                  *)
THEOREM CollusionAlertsBoth == FraudSpec => []CollusionTwoSided
<1>1. FraudInit => MirrorInv
  BY DEF FraudInit, MirrorInv, Raised, Stored, Due
<1>2. FraudTypeOK /\ MirrorInv => CollusionTwoSided
  <2> SUFFICES ASSUME FraudTypeOK, MirrorInv, NEW c \in Case, cases[c] # NoCase,
                      cases[c].alarm.type = "COLLUSION"
               PROVE  Raised(Mirror(cases[c].alarm))
                        \/ Mirror(cases[c].alarm).user \in dropped
    BY DEF CollusionTwoSided, Raised, Stored, Mirror
  <2>1. cases[c].alarm \in AlarmRow /\ Raised(cases[c].alarm)
    BY CaseFacts DEF Raised, Stored
  <2> QED
    BY <2>1 DEF MirrorInv
<1> QED
  BY <1>1, <1>2, MirrorStep, FraudTyped, PTL DEF FraudSpec

=============================================================================
