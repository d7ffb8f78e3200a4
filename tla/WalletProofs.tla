---------------------------- MODULE WalletProofs ----------------------------
(***************************************************************************)
(* Wallet's type invariant, the conservation of its connections, the       *)
(* absence of overdrafts without a race, and that sums of the rows are all *)
(* that a balance depends on, for every set of users, calls and amounts    *)
(* and every size of the pool.                                             *)
(***************************************************************************)
EXTENDS LedgerRows, FiniteSetTheorems, WellFoundedInduction, TLAPS

(* A new row changes the sum of its own type only: the account stays an    *)
(* account, a credit raises the cover, an unchecked debit leaves it, and a *)
(* validated one lowers it by its amount.                                  *)
LEMMA AddRowEffect ==
  ASSUME NEW a \in Account, NEW t \in TransactionType, NEW n \in Nat
  PROVE  /\ AddRow(a, t, n) \in Account
         /\ Cover(a) \in Int
         /\ t \in ValidatedType => Cover(AddRow(a, t, n)) = Cover(a) - n
         /\ t \notin ValidatedType => Cover(AddRow(a, t, n)) >= Cover(a)
<1> DEFINE b == AddRow(a, t, n)
<1>1. b \in Account
  BY DEF AddRow, Account
<1>2. \A x \in TransactionType : a[x] \in Nat /\ b[x] \in Nat
  BY <1>1 DEF Account
<1>3. b[t] = a[t] + n /\ \A x \in TransactionType : x # t => b[x] = a[x]
  BY DEF AddRow, Account
<1> HIDE DEF b
<1> USE DEF TransactionType, CreditType, ValidatedType, UncheckedType
<1>4. \A x \in {a, b} : /\ x["DEPOSIT"] \in Nat
                       /\ x["WIN_CREDIT"] \in Nat
                       /\ x["BET_RELEASE"] \in Nat
                       /\ x["BET_LOCK"] \in Nat
                       /\ x["WITHDRAW_REQUEST"] \in Nat
  BY <1>2
<1>5. Cover(a) \in Int
  BY <1>4 DEF Cover, Credited, Validated
<1>6. t \in ValidatedType => Cover(b) = Cover(a) - n
  BY <1>3, <1>4 DEF Cover, Credited, Validated
<1>7. t \notin ValidatedType => Cover(b) >= Cover(a)
  BY <1>3, <1>4 DEF Cover, Credited, Validated
<1> QED
  BY <1>1, <1>5, <1>6, <1>7 DEF b

(* getBalance returns four amounts that are not negative, and a debit that *)
(* validateTransaction lets through is covered by the account it read.     *)
LEMMA ValidatedIsCovered ==
  ASSUME NEW a \in Account, NEW t \in TransactionType, NEW n \in Nat
  PROVE  /\ getBalance(a) \in Balance
         /\ t \in ValidatedType /\ validateTransaction(t, n, getBalance(a))
              => Cover(a) >= n
<1>1. \A x \in TransactionType : a[x] \in Nat
  BY DEF Account
<1>2. /\ Credited(a) \in Nat /\ Validated(a) \in Nat /\ Unchecked(a) \in Nat
      /\ RawLocked(a) \in Nat
  BY <1>1 DEF Credited, Validated, Unchecked, RawLocked, TransactionType,
              CreditType, ValidatedType, UncheckedType
<1>3. /\ RawAvailable(a) \in Int
      /\ RawAvailable(a) <= Cover(a)
  BY <1>2 DEF RawAvailable, Cover
<1>4. \A x \in Int : ClampAtZero(x) \in Nat /\ (ClampAtZero(x) > 0 => ClampAtZero(x) = x)
  BY DEF ClampAtZero
<1>5. getBalance(a) \in Balance
  BY <1>2, <1>3, <1>4 DEF getBalance, Balance
<1>6. ASSUME t \in ValidatedType, validateTransaction(t, n, getBalance(a))
      PROVE  Cover(a) >= n
  <2>1. n > 0 /\ ClampAtZero(RawAvailable(a)) >= n
    BY <1>6 DEF validateTransaction, getBalance, ValidatedType
  <2>2. ClampAtZero(RawAvailable(a)) = RawAvailable(a)
    BY <2>1, <1>3, <1>4
  <2> QED
    BY <2>1, <2>2, <1>2, <1>3 DEF Cover
<1> QED
  BY <1>5, <1>6

-----------------------------------------------------------------------------
(* A call that holds a connection is counted among the busy ones: there is *)
(* room in the pool to give it back.                                       *)
LEMMA HeldCallHasConnection ==
  ASSUME TypeOK, ConnectionsConserved,
         NEW r \in Req, pc[r] \in Begun
  PROVE  /\ IsFiniteSet(Holding)
         /\ Cardinality(Holding) \in Nat
         /\ Cardinality(Holding \ {r}) = Cardinality(Holding) - 1
         /\ free + 1 \in 0 .. PoolSize
<1>1. IsFiniteSet(Holding) /\ r \in Holding
  <2>1. Holding \subseteq Req /\ r \in Holding
    BY DEF Holding
  <2> QED
    BY <2>1, ReqAssumption, FS_Subset
<1>2. /\ Cardinality(Holding) \in Nat
      /\ Cardinality(Holding \ {r}) = Cardinality(Holding) - 1
      /\ Cardinality(Holding \ {r}) \in Nat
  BY <1>1, FS_RemoveElement, FS_CardinalityType
<1>3. free + 1 \in 0 .. PoolSize
  BY <1>2, PoolAssumption DEF TypeOK, ConnectionsConserved
<1> QED
  BY <1>1, <1>2, <1>3

(* Every step keeps the variables in their types.                          *)
LEMMA TypeInvariant ==
  ASSUME TypeOK, ConnectionsConserved, [Next]_vars
  PROVE  TypeOK'
<1> USE AmountAssumption, CallTypeAssumption
<1>0. "connected" \in Begun /\ "open" \in Begun /\ "valid" \in Begun
  BY DEF Begun
<1>1. ASSUME NEW r \in Req, Connect(r)
      PROVE  TypeOK'
  <2>1. PICK c \in Call : call' = [call EXCEPT ![r] = c]
    BY <1>1 DEF Connect
  <2>2. free - 1 \in 0 .. PoolSize
    BY <1>1, PoolAssumption DEF Connect, TypeOK
  <2>3. /\ call' \in [Req -> Call \cup {NoCall}]
        /\ \A s \in Req : pc'[s] # "new" => call'[s] \in Call
    BY <1>1, <2>1 DEF Connect, TypeOK
  <2> QED
    BY <1>0, <1>1, <2>2, <2>3 DEF Connect, TypeOK
<1>7. ASSUME NEW r \in Req, Start(r) \/ StartFails(r)
      PROVE  TypeOK'
  BY <1>0, <1>7 DEF Start, StartFails, TypeOK
<1>2. ASSUME NEW r \in Req, ReadBalance(r)
      PROVE  TypeOK'
  <2> DEFINE u == call[r].user
             b == getBalance(acc[u])
  <2>1. call[r] \in Call /\ u \in User /\ acc[u] \in Account
    BY <1>2 DEF ReadBalance, TypeOK, Call
  <2>2. b \in Balance
    BY <2>1, 0 \in Nat, "DEPOSIT" \in TransactionType, ValidatedIsCovered
       DEF TransactionType, CreditType
  <2>3. seen' \in [Req -> Balance]
    BY <1>2, <2>2 DEF ReadBalance, TypeOK
  <2>4. raced' \subseteq User
    BY <1>2, <2>1 DEF ReadBalance, TypeOK
  <2> QED
    BY <1>0, <1>2, <2>3, <2>4 DEF ReadBalance, TypeOK
<1>3. ASSUME NEW r \in Req, pc[r] \in Begun, RollBack(r)
      PROVE  TypeOK'
  <2>1. free + 1 \in 0 .. PoolSize
    BY <1>3, HeldCallHasConnection
  <2>2. ZeroBalance \in Balance
    BY DEF ZeroBalance, Balance
  <2> QED
    BY <1>3, <2>1, <2>2 DEF RollBack, TypeOK
<1>4. ASSUME NEW r \in Req, Insert(r)
      PROVE  TypeOK'
  <2>1. free + 1 \in 0 .. PoolSize
    BY <1>0, <1>4, HeldCallHasConnection DEF Insert
  <2>2. ZeroBalance \in Balance
    BY DEF ZeroBalance, Balance
  <2>3. /\ call[r].user \in User /\ call[r].type \in TransactionType
        /\ call[r].amount \in Nat
    BY <1>4 DEF Insert, TypeOK, Call
  <2>4. AddRow(acc[call[r].user], call[r].type, call[r].amount) \in Account
    BY <2>3, AddRowEffect DEF TypeOK
  <2>5. acc' \in [User -> Account]
    BY <1>4, <2>3, <2>4 DEF Insert, TypeOK
  <2> QED
    BY <1>4, <2>1, <2>2, <2>5 DEF Insert, TypeOK
<1>5. ASSUME Crash
      PROVE  TypeOK'
  <2>1. ZeroBalance \in Balance
    BY DEF ZeroBalance, Balance
  <2> QED
    BY <1>5, <2>1, PoolAssumption, 0 \in Nat DEF Crash, TypeOK, Holding
<1>6. CASE UNCHANGED vars
  BY <1>6 DEF vars, TypeOK
<1> QED
  BY <1>0, <1>1, <1>2, <1>3, <1>4, <1>5, <1>6, <1>7 DEF Next, Reject, Fail

(* Every step moves a connection between the pool and the calls, loses one *)
(* of a call, or leaves all as they are.                                               *)
LEMMA ConnectionsStep ==
  ASSUME TypeOK, ConnectionsConserved, [Next]_vars
  PROVE  ConnectionsConserved'
<1>0. "connected" \in Begun /\ "open" \in Begun /\ "valid" \in Begun
  BY DEF Begun
<1>1. ASSUME NEW r \in Req, Connect(r)
      PROVE  ConnectionsConserved'
  <2>1. IsFiniteSet(Holding) /\ r \notin Holding
    BY <1>1, ReqAssumption, FS_Subset DEF Connect, Holding, Begun
  <2>2. Holding' = Holding \cup {r}
    BY <1>0, <1>1 DEF Connect, Holding, TypeOK
  <2>3. /\ Cardinality(Holding') = Cardinality(Holding) + 1
        /\ Cardinality(Holding) \in Nat
    BY <2>1, <2>2, FS_AddElement, FS_CardinalityType
  <2> QED
    BY <1>1, <2>3, PoolAssumption DEF Connect, TypeOK, ConnectionsConserved
<1>2. ASSUME NEW r \in Req, Start(r) \/ ReadBalance(r)
      PROVE  ConnectionsConserved'
  <2>1. Holding' = Holding
    BY <1>0, <1>2 DEF Start, ReadBalance, Holding, TypeOK
  <2> QED
    BY <1>2, <2>1 DEF Start, ReadBalance, ConnectionsConserved
<1>3. ASSUME NEW r \in Req, pc[r] \in Begun,
             pc' = [pc EXCEPT ![r] = "new"] \/ pc' = [pc EXCEPT ![r] = "done"],
             \/ free' = free + 1 /\ leaked' = leaked
             \/ free' = free /\ leaked' = leaked + 1
      PROVE  ConnectionsConserved'
  <2>1. Holding' = Holding \ {r}
    BY <1>3 DEF Holding, TypeOK, Begun
  <2>2. Cardinality(Holding') = Cardinality(Holding) - 1
    BY <1>3, <2>1, HeldCallHasConnection
  <2>3. Cardinality(Holding) \in Nat
    BY <1>3, HeldCallHasConnection
  <2> QED
    BY <1>3, <2>2, <2>3, PoolAssumption DEF TypeOK, ConnectionsConserved
<1>4. ASSUME Crash
      PROVE  ConnectionsConserved'
  <2>1. Holding' = {}
    BY <1>4 DEF Crash, Holding, TypeOK, Begun
  <2>2. Cardinality(Holding') = 0
    BY <2>1, FS_EmptySet
  <2> QED
    BY <1>4, <2>2, PoolAssumption DEF Crash, ConnectionsConserved
<1>5. CASE UNCHANGED vars
  BY <1>5 DEF vars, ConnectionsConserved, Holding
<1> QED
  BY <1>0, <1>1, <1>2, <1>3, <1>4, <1>5
     DEF Next, StartFails, Reject, Fail, Insert, RollBack

(* Wallet keeps its variables in their types and its connections           *)
(* accounted for: whatever the calls do, and however they end, one that is *)
(* neither idle nor held was taken by a call whose BEGIN failed.           *)
THEOREM TypeCorrect == Spec => [](TypeOK /\ ConnectionsConserved)
<1>1. Init => TypeOK /\ ConnectionsConserved
  <2> SUFFICES ASSUME Init PROVE TypeOK /\ ConnectionsConserved
    OBVIOUS
  <2>1. EmptyAccount \in Account /\ ZeroBalance \in Balance
    BY DEF EmptyAccount, Account, ZeroBalance, Balance
  <2>2. TypeOK
    BY <2>1, PoolAssumption DEF Init, TypeOK
  <2>3. Holding = {}
    BY DEF Init, Holding, Begun
  <2>4. Cardinality(Holding) = 0
    BY <2>3, FS_EmptySet
  <2> QED
    BY <2>2, <2>4, PoolAssumption DEF Init, ConnectionsConserved
<1>2. TypeOK /\ ConnectionsConserved /\ [Next]_vars => (TypeOK /\ ConnectionsConserved)'
  BY TypeInvariant, ConnectionsStep
<1> QED
  BY <1>1, <1>2, PTL DEF Spec
-----------------------------------------------------------------------------
(* What a user keeps of his credits after every step is enough, and enough *)
(* for the one debit of his that may be pending.                           *)
Covered(u) ==
  /\ Cover(acc[u]) >= 0
  /\ \A r \in PendingDebits(u) : /\ PendingDebits(u) = {r}
                                 /\ Cover(acc[u]) >= call[r].amount

(* Covered for the users who have not raced is the two invariants.         *)
LEMMA CoveredInvariants ==
  (\A u \in User \ raced : Covered(u)) <=> NoOverdraftUnraced /\ PendingDebitCovered
BY DEF Covered, NoOverdraftUnraced, PendingDebitCovered

(* A call that leaves the pending debits, and changes no account, disturbs *)
(* nothing.                                                                *)
LEMMA FewerDebits ==
  ASSUME NEW u, Covered(u), UNCHANGED acc,
         PendingDebits(u)' \subseteq PendingDebits(u),
         \A r \in PendingDebits(u)' : call'[r] = call[r]
  PROVE  Covered(u)'
BY DEF Covered

(* Reading the balance adds a pending debit only to a user who has none,   *)
(* or else the user has raced; and the account read covers the debit.      *)
LEMMA ReadKeepsCovered ==
  ASSUME TypeOK, NEW r \in Req, ReadBalance(r),
         NEW u \in User \ raced', Covered(u)
  PROVE  Covered(u)'
<1>1. /\ call[r] \in Call /\ call[r].user \in User
      /\ call[r].type \in TransactionType /\ call[r].amount \in Nat
  BY AmountAssumption, CallTypeAssumption DEF ReadBalance, TypeOK, Call
<1>2. UNCHANGED <<acc, call>> /\ pc' = [pc EXCEPT ![r] = "valid"] /\ pc[r] = "open"
  BY DEF ReadBalance
<1>3. CASE call[r].user = u /\ call[r].type \in ValidatedType
  <2>1. PendingDebits(u) = {}
    BY <1>3 DEF ReadBalance
  <2>2. PendingDebits(u)' = {r}
    BY <1>2, <1>3, <2>1 DEF PendingDebits, TypeOK
  <2>3. Cover(acc[u]) >= call[r].amount
    BY <1>1, <1>3, ValidatedIsCovered DEF ReadBalance, TypeOK
  <2> QED
    BY <1>2, <2>2, <2>3 DEF Covered
<1>4. CASE ~(call[r].user = u /\ call[r].type \in ValidatedType)
  <2>1. PendingDebits(u)' \subseteq PendingDebits(u)
    BY <1>2, <1>4 DEF PendingDebits, TypeOK
  <2> QED
    BY <1>2, <2>1, FewerDebits
<1> QED
  BY <1>3, <1>4

(* Writing the row of a pending debit uses the cover it was checked        *)
(* against; any other row leaves the cover or raises it.                   *)
LEMMA InsertKeepsCovered ==
  ASSUME TypeOK, NEW r \in Req, Insert(r),
         NEW u \in User \ raced, Covered(u)
  PROVE  Covered(u)'
<1> DEFINE t == call[r].type
           n == call[r].amount
<1>1. /\ call[r].user \in User /\ t \in TransactionType /\ n \in Nat
      /\ acc[u] \in Account
  BY AmountAssumption, CallTypeAssumption DEF Insert, TypeOK, Call
<1>2. UNCHANGED call /\ pc' = [pc EXCEPT ![r] = "done"] /\ pc[r] = "valid"
  BY DEF Insert
<1>3. PendingDebits(u)' = PendingDebits(u) \ {r}
  BY <1>2 DEF PendingDebits, TypeOK
<1>4. CASE call[r].user # u
  <2>1. acc'[u] = acc[u]
    BY <1>4 DEF Insert, TypeOK
  <2> QED
    BY <1>2, <1>3, <2>1 DEF Covered
<1>5. CASE call[r].user = u /\ t \in ValidatedType
  <2>1. r \in PendingDebits(u)
    BY <1>2, <1>5 DEF PendingDebits
  <2>2. PendingDebits(u)' = {} /\ Cover(acc[u]) >= n
    BY <1>3, <2>1 DEF Covered
  <2>3. acc'[u] = AddRow(acc[u], t, n)
    BY <1>1, <1>5 DEF Insert, TypeOK
  <2>4. Cover(acc'[u]) = Cover(acc[u]) - n /\ Cover(acc[u]) \in Int
    BY <1>1, <1>5, <2>3, AddRowEffect
  <2> QED
    BY <1>1, <2>2, <2>4 DEF Covered
<1>6. CASE call[r].user = u /\ t \notin ValidatedType
  <2>1. acc'[u] = AddRow(acc[u], t, n)
    BY <1>1, <1>6 DEF Insert, TypeOK
  <2>2. /\ Cover(acc'[u]) >= Cover(acc[u])
        /\ Cover(acc[u]) \in Int /\ Cover(acc'[u]) \in Int
    BY <1>1, <1>6, <2>1, AddRowEffect
  <2>3. \A s \in PendingDebits(u) : call[s].amount \in Nat
    BY AmountAssumption DEF PendingDebits, TypeOK, Call
  <2> QED
    BY <1>2, <1>3, <2>2, <2>3 DEF Covered
<1> QED
  BY <1>4, <1>5, <1>6

(* No user who has not raced overdraws: the balance a call validated is    *)
(* still there when its row is written, for any number of concurrent       *)
(* calls, any amounts, and whatever fails or crashes.                      *)
THEOREM NoOverdraft == Spec => [](NoOverdraftUnraced /\ PendingDebitCovered)
<1> DEFINE IInv == \A u \in User \ raced : Covered(u)
<1>1. Init => IInv
  BY DEF Init, Covered, PendingDebits, Cover, Credited, Validated, EmptyAccount,
         TransactionType, CreditType, ValidatedType
<1>2. ASSUME TypeOK, IInv, [Next]_vars
      PROVE  IInv'
  <2> SUFFICES ASSUME NEW u \in User \ raced'
               PROVE  Covered(u)'
    OBVIOUS
  <2>1. u \in User \ raced /\ Covered(u)
    BY <1>2 DEF Next, Connect, Start, StartFails, ReadBalance, Reject, Fail, RollBack,
                Insert, Crash, vars
  <2>2. ASSUME NEW r \in Req, Connect(r) \/ Start(r) \/ StartFails(r)
        PROVE  Covered(u)'
    <3>1. /\ PendingDebits(u)' \subseteq PendingDebits(u)
          /\ \A s \in PendingDebits(u)' : call'[s] = call[s]
      BY <1>2, <2>2 DEF Connect, Start, StartFails, PendingDebits, TypeOK
    <3> QED
      BY <2>1, <2>2, <3>1, FewerDebits DEF Connect, Start, StartFails
  <2>3. ASSUME NEW r \in Req, ReadBalance(r)
        PROVE  Covered(u)'
    BY <1>2, <2>1, <2>3, ReadKeepsCovered
  <2>4. ASSUME NEW r \in Req, RollBack(r)
        PROVE  Covered(u)'
    <3>1. /\ PendingDebits(u)' \subseteq PendingDebits(u)
          /\ \A s \in PendingDebits(u)' : call'[s] = call[s]
      BY <1>2, <2>4 DEF RollBack, PendingDebits, TypeOK
    <3> QED
      BY <2>1, <2>4, <3>1, FewerDebits DEF RollBack
  <2>5. ASSUME NEW r \in Req, Insert(r)
        PROVE  Covered(u)'
    BY <1>2, <2>1, <2>5, InsertKeepsCovered
  <2>6. ASSUME Crash
        PROVE  Covered(u)'
    <3>1. PendingDebits(u)' = {}
      BY <1>2, <2>6 DEF Crash, PendingDebits, Holding, Begun, TypeOK
    <3> QED
      BY <2>1, <2>6, <3>1, FewerDebits DEF Crash
  <2>7. CASE UNCHANGED vars
    <3>1. PendingDebits(u)' = PendingDebits(u) /\ UNCHANGED <<acc, call>>
      BY <2>7 DEF vars, PendingDebits
    <3> QED
      BY <2>1, <3>1, FewerDebits
  <2> QED
    BY <1>2, <2>2, <2>3, <2>4, <2>5, <2>6, <2>7 DEF Next, Reject, Fail
<1>3. IInv <=> NoOverdraftUnraced /\ PendingDebitCovered
  BY CoveredInvariants
<1> HIDE DEF IInv
<1> QED
  BY <1>1, <1>2, <1>3, TypeCorrect, PTL DEF Spec

(* The two parts of TypeCorrect and NoOverdraft that the runs check too.   *)
COROLLARY WalletTyped == Spec => []TypeOK
BY TypeCorrect, PTL

COROLLARY ChecksStayGood == Spec => []PendingDebitCovered
BY NoOverdraft, PTL
-----------------------------------------------------------------------------
(* What the books of AtomicWallet are made of.                             *)
Book == [u \in User |-> IF u \in raced THEN EmptyAccount ELSE acc[u]]

(* The steps that commit nothing and dispute nothing leave the books.      *)
LEMMA QuietStep ==
  ASSUME UNCHANGED <<acc, raced>>
  PROVE  UNCHANGED <<Book, raced>>
BY DEF Book

(* A read that races disputes its user's book; any other leaves the books. *)
LEMMA ReadRefines ==
  ASSUME TypeOK, NEW r \in Req, ReadBalance(r)
  PROVE  (\E u \in User : Atomic!Dispute(u)) \/ UNCHANGED <<Book, raced>>
<1> DEFINE u == call[r].user
<1>1. u \in User /\ UNCHANGED acc
  BY DEF ReadBalance, TypeOK, Call
<1>2. CASE raced' = raced
  BY <1>1, <1>2, QuietStep
<1>3. CASE raced' = raced \cup {u}
  <2>1. Book' = [Book EXCEPT ![u] = EmptyAccount]
    BY <1>1, <1>3 DEF Book
  <2>2. Atomic!Dispute(u)
    BY <1>3, <2>1 DEF Atomic!Dispute, Atomic!EmptyAccount, EmptyAccount, Book,
       Atomic!TransactionType, TransactionType, Atomic!CreditType, CreditType,
       Atomic!ValidatedType, ValidatedType, Atomic!UncheckedType, UncheckedType
  <2> QED
    BY <1>1, <2>2 DEF Atomic!Dispute
<1> QED
  BY <1>2, <1>3 DEF ReadBalance

(* An insert is the atomic call of its arguments, unless its user's book   *)
(* is disputed.                                                            *)
LEMMA InsertRefines ==
  ASSUME TypeOK, PendingDebitCovered, NEW r \in Req, Insert(r)
  PROVE  \/ \E u \in User, t \in CallType, n \in Amount : Atomic!Transaction(u, t, n)
         \/ UNCHANGED <<Book, raced>>
<1> DEFINE u == call[r].user
           t == call[r].type
           n == call[r].amount
<1>1. u \in User /\ t \in CallType /\ n \in Amount /\ n \in Nat
  BY AmountAssumption DEF Insert, TypeOK, Call
<1>2. raced' = raced /\ acc' = [acc EXCEPT ![u] = AddRow(@, t, n)]
  BY DEF Insert
<1>3. CASE u \in raced
  BY <1>1, <1>2, <1>3 DEF Book, TypeOK
<1>4. CASE u \notin raced
  <2>1. Book[u] = acc[u] /\ Book' = [Book EXCEPT ![u] = AddRow(@, t, n)]
    BY <1>1, <1>2, <1>4 DEF Book, TypeOK
  <2>2. ASSUME t \in ValidatedType
        PROVE  n <= Credited(Book[u]) - Validated(Book[u])
    <3>1. r \in PendingDebits(u)
      BY <2>2 DEF PendingDebits, Insert
    <3>2. Cover(acc[u]) >= n
      BY <1>1, <1>4, <3>1 DEF PendingDebitCovered
    <3>3. Cover(acc[u]) \in Int
      BY <1>1, CallTypeAssumption, AddRowEffect DEF TypeOK
    <3> QED
      BY <1>1, <2>1, <3>2, <3>3 DEF Cover
  <2>3. Atomic!Transaction(u, t, n)
    BY <1>1, <1>2, <1>4, <2>1, <2>2 DEF Atomic!Transaction, Atomic!ValidatedType,
       ValidatedType, Atomic!Credited, Credited, Atomic!Validated, Validated,
       Atomic!AddRow, AddRow, Book, EmptyAccount
  <2> QED
    BY <1>1, <2>3 DEF Atomic!Transaction
<1> QED
  BY <1>3, <1>4

(* The awaits of createTransaction cannot be seen by users whose debits    *)
(* did not race: Wallet implements AtomicWallet, for any users, calls,     *)
(* amounts, pool, failures and crashes.                                    *)
THEOREM WalletActsAtomically == Spec => ActsAtomically
<1> DEFINE Inv == TypeOK /\ PendingDebitCovered
<1>1. Init => Atomic!Init
  BY DEF Init, Atomic!Init, Atomic!EmptyAccount, EmptyAccount,
     Atomic!TransactionType, TransactionType, Atomic!CreditType, CreditType,
     Atomic!ValidatedType, ValidatedType, Atomic!UncheckedType, UncheckedType
<1>2. ASSUME Inv, [Next]_vars
      PROVE  [Atomic!Next]_(Atomic!bookVars)
  <2>1. Atomic!bookVars = <<Book, raced>>
    BY DEF Atomic!bookVars, Book
  <2>2. ASSUME UNCHANGED <<acc, raced>>
        PROVE  UNCHANGED Atomic!bookVars
    BY <2>2 DEF Atomic!bookVars
  <2>3. ASSUME NEW r \in Req, ReadBalance(r)
        PROVE  [Atomic!Next]_(Atomic!bookVars)
    BY <1>2, <2>3, ReadRefines DEF Atomic!Next, Atomic!bookVars, Book
  <2>4. ASSUME NEW r \in Req, Insert(r)
        PROVE  [Atomic!Next]_(Atomic!bookVars)
    BY <1>2, <2>4, InsertRefines DEF Atomic!Next, Atomic!bookVars, Book
  <2> QED
    BY <1>2, <2>2, <2>3, <2>4
       DEF Next, Connect, Start, StartFails, Reject, Fail, RollBack, Crash, vars
<1>3. Spec => []Inv
  BY WalletTyped, ChecksStayGood, PTL
<1> HIDE DEF Inv
<1> QED
  BY <1>1, <1>2, <1>3, PTL DEF Spec, ActsAtomically, Atomic!Spec

-----------------------------------------------------------------------------
(* What a row does to the two running totals of getBalance.                *)
LEMMA RowMovesTotals ==
  ASSUME NEW a \in Account, NEW t \in TransactionType, NEW n \in Nat
  PROVE  LET b == AddRow(a, t, n)
         IN  /\ RawAvailable(a) \in Int /\ RawLocked(a) \in Nat
             /\ RawAvailable(b) = RawAvailable(a) + (IF t \in CreditType THEN n ELSE -n)
             /\ RawLocked(b) = RawLocked(a) + (IF t = "BET_LOCK" THEN n ELSE 0)
<1> DEFINE b == AddRow(a, t, n)
<1>1. /\ b[t] = a[t] + n /\ \A x \in TransactionType : x # t => b[x] = a[x]
      /\ \A x \in TransactionType : a[x] \in Nat
  BY DEF AddRow, Account
<1> HIDE DEF b
<1> USE DEF TransactionType, CreditType, ValidatedType, UncheckedType
<1>2. /\ a["DEPOSIT"] \in Nat /\ a["WIN_CREDIT"] \in Nat /\ a["BET_RELEASE"] \in Nat
      /\ a["BET_LOCK"] \in Nat /\ a["WITHDRAW_REQUEST"] \in Nat
      /\ a["WITHDRAW_SUCCESS"] \in Nat /\ a["PENALTY"] \in Nat /\ a["COMMISSION"] \in Nat
  BY <1>1
<1>3. RawAvailable(a) \in Int /\ RawLocked(a) \in Nat
  BY <1>2 DEF RawAvailable, RawLocked, Credited, Validated, Unchecked
<1>4. RawAvailable(b) = RawAvailable(a) + (IF t \in CreditType THEN n ELSE -n)
  BY <1>1, <1>2 DEF RawAvailable, Credited, Validated, Unchecked
<1>5. RawLocked(b) = RawLocked(a) + (IF t = "BET_LOCK" THEN n ELSE 0)
  BY <1>1, <1>2 DEF RawLocked
<1> QED
  BY <1>3, <1>4, <1>5 DEF b

(* BalanceTracked: the balanceAfter a row records is what the account has  *)
(* after it, for every type but BET_LOCK, if no other row was committed    *)
(* since its call read the balance and the account is not overdrawn.       *)
THEOREM RowsTrackBalance == Spec => BalanceTracked
<1> DEFINE Tracked(r) ==
      LET c == call[r]
          after == RawAvailable(acc'[c.user]) + RawLocked(acc'[c.user])
      IN  ( /\ pc[r] = "valid" /\ pc'[r] = "done"
            /\ c.type # "BET_LOCK"
            /\ seen[r] = getBalance(acc[c.user])
            /\ RawAvailable(acc[c.user]) >= 0 )
            => balanceAfter(c.type, c.amount, seen[r]) = after
<1>1. ASSUME TypeOK, [Next]_vars, NEW r \in Req
      PROVE  Tracked(r)
  <2> DEFINE a == acc[call[r].user]
             t == call[r].type
             n == call[r].amount
  <2> SUFFICES ASSUME pc[r] = "valid", pc'[r] = "done", t # "BET_LOCK",
                      seen[r] = getBalance(a), RawAvailable(a) >= 0
               PROVE  balanceAfter(t, n, seen[r])
                        = RawAvailable(acc'[call[r].user]) + RawLocked(acc'[call[r].user])
    OBVIOUS
  <2>1. Insert(r)
    BY <1>1 DEF Next, Connect, Start, StartFails, ReadBalance, Reject, Fail, RollBack,
                Insert, Crash, vars, TypeOK
  <2>2. call[r].user \in User /\ t \in TransactionType /\ n \in Nat /\ a \in Account
    BY <1>1, <2>1, AmountAssumption, CallTypeAssumption DEF Insert, TypeOK, Call
  <2>3. acc'[call[r].user] = AddRow(a, t, n)
    BY <1>1, <2>1, <2>2 DEF Insert, TypeOK
  <2> HIDE DEF a, t, n
  <2>4. seen[r].total = RawAvailable(a) + RawLocked(a)
    BY <2>2, RowMovesTotals DEF getBalance, ClampAtZero
  <2> QED
    BY <2>2, <2>3, <2>4, RowMovesTotals DEF balanceAfter
<1>2. TypeOK /\ [Next]_vars => [\A r \in Req : Tracked(r)]_vars
  BY <1>1
<1> QED
  BY <1>2, WalletTyped, PTL DEF Spec, BalanceTracked

-----------------------------------------------------------------------------
(* The loop of getBalance.  FoldLeft is a recursion over the sets of       *)
(* positions below Len: Loop is the function it recurses by, and its value *)
(* at 1 .. k are the totals after the first k rows.                        *)

Zeros == [available |-> 0, locked |-> 0]

Turn(s, f, d) == IF d = {} THEN Zeros ELSE Step(f[d \ {Max(d)}], s[Max(d)])

Loop(s) == CHOOSE f : f = [d \in SUBSET (DOMAIN s) |-> Turn(s, f, d)]

Fold(s) == FoldLeft(Step, Zeros, s)

LEMMA LeastExists ==
  ASSUME NEW I \in SUBSET Nat, I # {}
  PROVE  \E x \in I : \A y \in I : x <= y
<1> DEFINE Less == {p \in Nat \X Nat : p[1] < p[2]}
<1>1. IsWellFoundedOn(Less, Nat)
  BY NatLessThanWellFounded DEF OpToRel
<1> HIDE DEF Less
<1>2. PICK x \in I : \A y \in I : ~ (<<y, x>> \in Less)
  BY <1>1, WFMin
<1>3. ASSUME NEW y \in I
      PROVE  x <= y
  <2>1. x \in Nat /\ y \in Nat
    OBVIOUS
  <2>2. <<y, x>> \in Less <=> y < x
    BY <2>1 DEF Less
  <2> QED
    BY <1>2, <2>1, <2>2
<1> QED
  BY <1>3

(* The last of some positions.                                             *)
LEMMA LastPosition ==
  ASSUME NEW k \in Nat, NEW d \in SUBSET (1 .. k), d # {}
  PROVE  /\ Max(d) \in d
         /\ k # 0
         /\ d \ {Max(d)} \in SUBSET (1 .. (k - 1))
<1> DEFINE U == {m \in Nat : \A y \in d : y <= m}
<1>1. k \in U /\ U \in SUBSET Nat
  OBVIOUS
<1>2. PICK m \in U : \A y \in U : m <= y
  BY <1>1, LeastExists
<1>3. PICK y \in d : TRUE
  OBVIOUS
<1>4. m \in Nat /\ m <= k /\ 1 <= m
  BY <1>1, <1>2, <1>3
<1>5. m \in d
  <2> SUFFICES ASSUME m \notin d PROVE FALSE
    OBVIOUS
  <2>1. m - 1 \in U
    BY <1>2, <1>4
  <2> QED
    BY <1>2, <1>4, <2>1
<1>6. \A z \in d : m >= z
  BY <1>2, <1>4
<1>7. Max(d) \in d /\ \A z \in d : Max(d) >= z
  BY <1>5, <1>6 DEF Max
<1>8. ASSUME NEW z \in d \ {Max(d)}
      PROVE  z \in 1 .. (k - 1)
  <2>1. z \in 1 .. k /\ Max(d) \in 1 .. k /\ z # Max(d) /\ Max(d) >= z
    BY <1>7
  <2> HIDE DEF U
  <2> QED
    BY <2>1
<1>9. k # 0
  BY <1>3
<1>10. d \ {Max(d)} \in SUBSET (1 .. (k - 1))
  BY <1>8
<1> QED
  BY <1>7, <1>9, <1>10

(* There is such a function: one that is right for the positions up to k   *)
(* yields one that is right up to k + 1.                                   *)
LEMMA LoopUnfolds ==
  ASSUME NEW n \in Nat, NEW s, DOMAIN s = 1 .. n
  PROVE  Loop(s) = [d \in SUBSET (1 .. n) |-> Turn(s, Loop(s), d)]
<1> DEFINE Right(k) == \E f : \A d \in SUBSET (1 .. n) :
                         d \subseteq 1 .. k => f[d] = Turn(s, f, d)
<1>1. Right(0)
  <2> DEFINE f == [d \in SUBSET (1 .. n) |-> Zeros]
  <2>1. \A d \in SUBSET (1 .. n) : d \subseteq 1 .. 0 => f[d] = Turn(s, f, d)
    BY DEF Turn
  <2> QED
    BY <2>1
<1>2. ASSUME NEW k \in Nat, Right(k)
      PROVE  Right(k + 1)
  <2>1. PICK f : \A d \in SUBSET (1 .. n) : d \subseteq 1 .. k => f[d] = Turn(s, f, d)
    BY <1>2
  <2> DEFINE g == [d \in SUBSET (1 .. n) |-> Turn(s, f, d)]
  <2>2. ASSUME NEW d \in SUBSET (1 .. n), d \subseteq 1 .. (k + 1)
        PROVE  g[d] = Turn(s, g, d)
    <3>1. CASE d = {}
      BY <3>1 DEF Turn
    <3>2. CASE d # {}
      <4> DEFINE e == d \ {Max(d)}
      <4>1. e \in SUBSET (1 .. n) /\ e \subseteq 1 .. k
        <5>1. e \in SUBSET (1 .. ((k + 1) - 1))
          BY <2>2, <3>2, k + 1 \in Nat, LastPosition
        <5>2. (k + 1) - 1 = k
          OBVIOUS
        <5> QED
          BY <5>1, <5>2
      <4>2. g[e] = f[e]
        BY <2>1, <4>1
      <4> QED
        BY <3>2, <4>2 DEF Turn
    <3> QED
      BY <3>1, <3>2
  <2> QED
    BY <2>2
<1> HIDE DEF Right
<1>3. Right(n)
  <2> DEFINE Wrong == {k \in Nat : ~Right(k)}
  <2> SUFFICES ASSUME Wrong # {} PROVE FALSE
    OBVIOUS
  <2>1. PICK k \in Wrong : \A j \in Wrong : k <= j
    BY LeastExists
  <2>2. k # 0
    BY <1>1
  <2>3. k - 1 \in Nat /\ k - 1 \notin Wrong
    BY <2>1, <2>2
  <2>4. Right((k - 1) + 1)
    BY <1>2, <2>3
  <2> QED
    BY <2>4
<1>4. PICK f : \A d \in SUBSET (1 .. n) : f[d] = Turn(s, f, d)
  BY <1>3 DEF Right
<1> DEFINE g == [d \in SUBSET (1 .. n) |-> f[d]]
<1>5. g = [d \in SUBSET (1 .. n) |-> Turn(s, g, d)]
  <2> SUFFICES ASSUME NEW d \in SUBSET (1 .. n)
               PROVE  f[d] = Turn(s, g, d)
    OBVIOUS
  <2>1. CASE d = {}
    BY <1>4, <2>1 DEF Turn
  <2>2. CASE d # {}
    <3>1. d \ {Max(d)} \in SUBSET (1 .. n)
      OBVIOUS
    <3> QED
      BY <1>4, <2>2, <3>1 DEF Turn
  <2> QED
    BY <2>1, <2>2
<1> HIDE DEF g
<1> QED
  BY <1>5 DEF Loop

(* The totals after the first k rows come from those after k - 1.          *)
LEMMA LoopSteps ==
  ASSUME NEW n \in Nat, NEW s, DOMAIN s = 1 .. n
  PROVE  /\ Fold(s) = Loop(s)[1 .. n]
         /\ Loop(s)[1 .. 0] = Zeros
         /\ \A k \in 1 .. n : Loop(s)[1 .. k] = Step(Loop(s)[1 .. (k - 1)], s[k])
<1>1. Fold(s) = Loop(s)[1 .. n]
  BY DEF Fold, FoldLeft, MapThenFoldSet, Loop, Turn
<1>2. \A d \in SUBSET (1 .. n) : Loop(s)[d] = Turn(s, Loop(s), d)
  BY LoopUnfolds
<1>3. Loop(s)[1 .. 0] = Zeros
  <2>1. 1 .. 0 = {} /\ {} \in SUBSET (1 .. n)
    OBVIOUS
  <2> QED
    BY <1>2, <2>1 DEF Turn
<1>4. ASSUME NEW k \in 1 .. n
      PROVE  Loop(s)[1 .. k] = Step(Loop(s)[1 .. (k - 1)], s[k])
  <2>1. 1 .. k \in SUBSET (1 .. n) /\ k \in 1 .. k
    OBVIOUS
  <2>2. Max(1 .. k) \in 1 .. k /\ (1 .. k) \ {Max(1 .. k)} \in SUBSET (1 .. (k - 1))
    BY <2>1, LastPosition
  <2>3. Max(1 .. k) = k
    <3>1. k \in Nat /\ k \notin 1 .. (k - 1)
      OBVIOUS
    <3> QED
      BY <2>1, <2>2, <3>1
  <2>4. (1 .. k) \ {k} = 1 .. (k - 1)
    OBVIOUS
  <2> QED
    BY <1>2, <2>1, <2>3, <2>4 DEF Turn
<1> QED
  BY <1>1, <1>3, <1>4

(* What a row adds to the two totals.                                      *)
Gain(txn)  == IF txn.type \in CreditType THEN txn.amount ELSE -txn.amount
Stake(txn) == IF txn.type = "BET_LOCK" THEN txn.amount ELSE 0

LEMMA StepAdds ==
  ASSUME NEW totals \in [available : Int, locked : Int], NEW txn \in Call
  PROVE  /\ Gain(txn) \in Int /\ Stake(txn) \in Int
         /\ Step(totals, txn) = [ available |-> totals.available + Gain(txn),
                                  locked |-> totals.locked + Stake(txn) ]
<1>1. txn.amount \in Nat /\ txn.amount \in Int
  <2>1. txn.amount \in Amount
    BY DEF Call
  <2>2. txn.amount \in Nat
    BY <2>1, AmountAssumption
  <2> QED
    BY <2>2
<1>2. "BET_LOCK" \notin CreditType
  BY DEF CreditType
<1>3. totals = [available |-> totals.available, locked |-> totals.locked]
  OBVIOUS
<1>4. CASE txn.type \in CreditType
  BY <1>1, <1>2, <1>3, <1>4 DEF Step, Gain, Stake
<1>5. CASE txn.type = "BET_LOCK"
  <2>1. Step(totals, txn) = [totals EXCEPT !.available = @ - txn.amount,
                                           !.locked = @ + txn.amount]
    BY <1>2, <1>5 DEF Step
  <2>2. Step(totals, txn) = [ available |-> totals.available - txn.amount,
                              locked |-> totals.locked + txn.amount ]
    BY <1>3, <2>1
  <2> QED
    BY <1>1, <1>2, <1>5, <2>2 DEF Gain, Stake
<1>6. CASE txn.type \notin CreditType /\ txn.type # "BET_LOCK"
  BY <1>1, <1>2, <1>3, <1>6 DEF Step, Gain, Stake
<1> QED
  BY <1>4, <1>5, <1>6

(* The totals after the first k of some rows.                              *)
Available(s, k) == Loop(s)[1 .. k].available
Locked(s, k)    == Loop(s)[1 .. k].locked

LEMMA TotalsAdd ==
  ASSUME NEW n \in Nat, NEW s \in [1 .. n -> Call]
  PROVE  /\ Fold(s) = [ available |-> Available(s, n),
                                         locked |-> Locked(s, n) ]
         /\ Available(s, 0) = 0 /\ Locked(s, 0) = 0
         /\ \A k \in 0 .. n : Available(s, k) \in Int /\ Locked(s, k) \in Int
         /\ \A k \in 1 .. n : /\ Available(s, k) = Available(s, k - 1) + Gain(s[k])
                              /\ Locked(s, k) = Locked(s, k - 1) + Stake(s[k])
<1> DEFINE Sums == [available : Int, locked : Int]
           Typed(k) == k <= n => Loop(s)[1 .. k] \in Sums
<1>0. DOMAIN s = 1 .. n
  OBVIOUS
<1>1. Loop(s)[1 .. 0] = Zeros /\ Zeros \in Sums
  BY <1>0, LoopSteps DEF Zeros
<1>2. ASSUME NEW k \in 1 .. n, Loop(s)[1 .. (k - 1)] \in Sums
      PROVE  /\ Loop(s)[1 .. k] \in Sums
             /\ Loop(s)[1 .. k] = [ available |-> Available(s, k - 1) + Gain(s[k]),
                                    locked |-> Locked(s, k - 1) + Stake(s[k]) ]
  <2>1. Loop(s)[1 .. k] = Step(Loop(s)[1 .. (k - 1)], s[k])
    BY <1>0, LoopSteps
  <2>2. /\ Available(s, k - 1) \in Int /\ Locked(s, k - 1) \in Int
        /\ s[k] \in Call
    BY <1>2 DEF Available, Locked
  <2>3. /\ Gain(s[k]) \in Int /\ Stake(s[k]) \in Int
        /\ Step(Loop(s)[1 .. (k - 1)], s[k])
             = [ available |-> Available(s, k - 1) + Gain(s[k]),
                 locked |-> Locked(s, k - 1) + Stake(s[k]) ]
    BY <1>2, <2>2, StepAdds DEF Available, Locked
  <2> QED
    BY <2>1, <2>2, <2>3
<1>3. \A k \in Nat : Typed(k)
  <2> DEFINE Wrong == {k \in Nat : ~Typed(k)}
  <2> SUFFICES ASSUME Wrong # {} PROVE FALSE
    OBVIOUS
  <2>1. PICK k \in Wrong : \A j \in Wrong : k <= j
    BY LeastExists
  <2>2. k \in Nat /\ k <= n /\ Loop(s)[1 .. k] \notin Sums
    BY <2>1
  <2>3. k # 0
    BY <1>1, <2>2
  <2>4. k - 1 \in Nat /\ k - 1 \notin Wrong
    BY <2>1, <2>2, <2>3
  <2>5. Loop(s)[1 .. (k - 1)] \in Sums
    BY <2>2, <2>4
  <2>6. k \in 1 .. n
    BY <2>2, <2>3
  <2> QED
    BY <1>2, <2>2, <2>5, <2>6
<1>4. \A k \in 0 .. n : Loop(s)[1 .. k] \in Sums
  BY <1>3
<1> HIDE DEF Typed
<1>5. Fold(s) = Loop(s)[1 .. n] /\ Loop(s)[1 .. n] \in Sums
  BY <1>0, <1>4, LoopSteps
<1>6. ASSUME NEW k \in 1 .. n
      PROVE  /\ Available(s, k) = Available(s, k - 1) + Gain(s[k])
             /\ Locked(s, k) = Locked(s, k - 1) + Stake(s[k])
  <2>1. k - 1 \in 0 .. n
    OBVIOUS
  <2>2. Loop(s)[1 .. k] = [ available |-> Available(s, k - 1) + Gain(s[k]),
                            locked |-> Locked(s, k - 1) + Stake(s[k]) ]
    BY <1>2, <1>4, <2>1
  <2> QED
    BY <2>2 DEF Available, Locked
<1> QED
  BY <1>1, <1>4, <1>5, <1>6 DEF Available, Locked, Zeros

(* Without its row m a ledger has the totals it had, less that row's part. *)
Without(s, n, m) == [i \in 1 .. n |-> IF i < m THEN s[i] ELSE s[i + 1]]

LEMMA RowTakenOut ==
  ASSUME NEW n \in Nat, NEW s \in [1 .. (n + 1) -> Call], NEW m \in 1 .. (n + 1)
  PROVE  /\ Without(s, n, m) \in [1 .. n -> Call]
         /\ Available(s, n + 1) = Available(Without(s, n, m), n) + Gain(s[m])
         /\ Locked(s, n + 1) = Locked(Without(s, n, m), n) + Stake(s[m])
<1> DEFINE r == Without(s, n, m)
           Same(k) == k <= n /\ k < m =>
                        Available(s, k) = Available(r, k) /\ Locked(s, k) = Locked(r, k)
           More(k) == k <= n /\ k >= m - 1 =>
                        /\ Available(s, k + 1) = Available(r, k) + Gain(s[m])
                        /\ Locked(s, k + 1) = Locked(r, k) + Stake(s[m])
<1>1. r \in [1 .. n -> Call] /\ \A k \in 1 .. n : r[k] = IF k < m THEN s[k] ELSE s[k + 1]
  BY DEF Without
<1>2. \A k \in 1 .. (n + 1) : Gain(s[k]) \in Int /\ Stake(s[k]) \in Int
  <2>1. Zeros \in [available : Int, locked : Int]
    BY DEF Zeros
  <2> QED
    BY <2>1, StepAdds
<1> HIDE DEF r
<1>3. /\ Available(s, 0) = 0 /\ Locked(s, 0) = 0
      /\ \A k \in 1 .. (n + 1) : /\ Available(s, k) = Available(s, k - 1) + Gain(s[k])
                                 /\ Locked(s, k) = Locked(s, k - 1) + Stake(s[k])
      /\ \A k \in 0 .. (n + 1) : Available(s, k) \in Int /\ Locked(s, k) \in Int
  BY n + 1 \in Nat, TotalsAdd
<1>4. /\ Available(r, 0) = 0 /\ Locked(r, 0) = 0
      /\ \A k \in 1 .. n : /\ Available(r, k) = Available(r, k - 1) + Gain(r[k])
                           /\ Locked(r, k) = Locked(r, k - 1) + Stake(r[k])
      /\ \A k \in 0 .. n : Available(r, k) \in Int /\ Locked(r, k) \in Int
  BY <1>1, TotalsAdd
<1>5. Same(0) /\ More(0)
  <2>1. m \in Nat /\ 1 <= m
    OBVIOUS
  <2>2. ASSUME 0 >= m - 1
        PROVE  /\ Available(s, 1) = Available(r, 0) + Gain(s[m])
               /\ Locked(s, 1) = Locked(r, 0) + Stake(s[m])
    <3>1. m = 1 /\ 1 \in 1 .. (n + 1) /\ 1 - 1 = 0
      BY <2>1, <2>2
    <3> QED
      BY <1>3, <1>4, <3>1
  <2> QED
    BY <1>3, <1>4, <2>2
<1>6. ASSUME NEW k \in 1 .. n, Same(k - 1), More(k - 1)
      PROVE  Same(k) /\ More(k)
  <2> DEFINE g == Gain(s[m])
             t == Stake(s[m])
  <2>1. /\ k \in Nat /\ m \in Nat /\ k <= n
        /\ k - 1 \in 0 .. n /\ k \in 0 .. n /\ k \in 1 .. (n + 1)
        /\ k + 1 \in 1 .. (n + 1) /\ (k - 1) + 1 = k /\ (k + 1) - 1 = k
    OBVIOUS
  <2>2. /\ Available(s, k) = Available(s, k - 1) + Gain(s[k])
        /\ Locked(s, k) = Locked(s, k - 1) + Stake(s[k])
        /\ Available(s, k + 1) = Available(s, k) + Gain(s[k + 1])
        /\ Locked(s, k + 1) = Locked(s, k) + Stake(s[k + 1])
        /\ Available(r, k) = Available(r, k - 1) + Gain(r[k])
        /\ Locked(r, k) = Locked(r, k - 1) + Stake(r[k])
    BY <1>3, <1>4, <2>1
  <2>3. /\ g \in Int /\ t \in Int
        /\ Gain(s[k]) \in Int /\ Stake(s[k]) \in Int
        /\ Gain(s[k + 1]) \in Int /\ Stake(s[k + 1]) \in Int
        /\ Available(r, k - 1) \in Int /\ Locked(r, k - 1) \in Int
    BY <1>2, <1>4, <2>1
  <2>4. CASE k < m
    <3>1. Same(k)
      <4>1. r[k] = s[k] /\ k - 1 <= n /\ k - 1 < m
        BY <1>1, <2>1, <2>4
      <4> QED
        BY <1>6, <2>2, <4>1
    <3>2. ASSUME k >= m - 1
          PROVE  k + 1 = m
      BY <2>1, <2>4, <3>2
    <3> QED
      BY <2>1, <2>2, <2>4, <3>1, <3>2
  <2>5. CASE k >= m
    <3>1. r[k] = s[k + 1] /\ k - 1 <= n /\ k - 1 >= m - 1
      BY <1>1, <2>1, <2>5
    <3>2. Available(s, k) = Available(r, k - 1) + g /\ Locked(s, k) = Locked(r, k - 1) + t
      BY <1>6, <2>1, <3>1
    <3> HIDE DEF g, t, Same, More
    <3>3. Available(s, k + 1) = Available(r, k) + g /\ Locked(s, k + 1) = Locked(r, k) + t
      BY <2>2, <2>3, <3>1, <3>2
    <3> QED
      BY <2>1, <2>5, <3>3 DEF Same, More, g, t
  <2> QED
    BY <2>1, <2>4, <2>5
<1> HIDE DEF Same, More
<1>7. Same(n) /\ More(n)
  <2> DEFINE Wrong == {k \in 0 .. n : ~(Same(k) /\ More(k))}
  <2> SUFFICES ASSUME Wrong # {} PROVE FALSE
    OBVIOUS
  <2>1. Wrong \in SUBSET Nat
    OBVIOUS
  <2>2. PICK k \in Wrong : \A j \in Wrong : k <= j
    BY <2>1, LeastExists
  <2>3. k \in 1 .. n
    BY <1>5, <2>2
  <2>4. k - 1 \in 0 .. n /\ k - 1 \notin Wrong
    BY <2>1, <2>2, <2>3
  <2> QED
    BY <1>6, <2>2, <2>3, <2>4
<1> QED
  BY <1>1, <1>7 DEF More, r

-----------------------------------------------------------------------------
(* The totals of the rows of a user, in any order, are those of the sums.  *)
Rows(rows) == [i \in DOMAIN rows |-> call[rows[i]]]

SumsInv ==
  \A u \in User : \A rows \in SetToSeqs(RowsOf(u)) :
    Fold(Rows(rows)) = [ available |-> RawAvailable(acc[u]),
                         locked |-> RawLocked(acc[u]) ]

(* A user whose rows stay what they are keeps the totals.                  *)
LEMMA SameRows ==
  ASSUME TypeOK, NEW u \in User, RowsOf(u)' = RowsOf(u), acc'[u] = acc[u],
         \A r \in RowsOf(u) : call'[r] = call[r],
         \A rows \in SetToSeqs(RowsOf(u)) :
           Fold(Rows(rows)) = [ available |-> RawAvailable(acc[u]),
                                locked |-> RawLocked(acc[u]) ]
  PROVE  \A rows \in SetToSeqs(RowsOf(u)') :
           Fold(Rows(rows)') = [ available |-> RawAvailable(acc'[u]),
                                 locked |-> RawLocked(acc'[u]) ]
<1> SUFFICES ASSUME NEW rows \in SetToSeqs(RowsOf(u))
             PROVE  Rows(rows)' = Rows(rows)
  OBVIOUS
<1>1. \A i \in DOMAIN rows : rows[i] \in RowsOf(u)
  BY DEF SetToSeqs
<1> QED
  BY <1>1 DEF Rows

(* One more row, wherever the order puts it, moves both as Step does.      *)
LEMMA RowInserted ==
  ASSUME TypeOK, NEW r \in Req, Insert(r), NEW u \in User, call[r].user = u,
         \A rows \in SetToSeqs(RowsOf(u)) :
           Fold(Rows(rows)) = [ available |-> RawAvailable(acc[u]),
                                locked |-> RawLocked(acc[u]) ]
  PROVE  \A rows \in SetToSeqs(RowsOf(u)') :
           Fold(Rows(rows)') = [ available |-> RawAvailable(acc'[u]),
                                 locked |-> RawLocked(acc'[u]) ]
<1> DEFINE S == RowsOf(u)
           n == Cardinality(S)
           txn == call[r]
<1>1. /\ pc[r] = "valid" /\ pc' = [pc EXCEPT ![r] = "done"] /\ call' = call
      /\ txn \in Call /\ txn.type \in TransactionType /\ txn.amount \in Nat
      /\ acc[u] \in Account /\ acc'[u] = AddRow(acc[u], txn.type, txn.amount)
  BY AmountAssumption, CallTypeAssumption DEF Insert, TypeOK, Call
<1>2. /\ RowsOf(u)' = S \cup {r} /\ r \notin S
      /\ \A q \in S \cup {r} : call[q] \in Call
  BY <1>1 DEF RowsOf, TypeOK
<1>3. /\ IsFiniteSet(S) /\ n \in Nat
      /\ IsFiniteSet(S \cup {r}) /\ Cardinality(S \cup {r}) = n + 1
  <2>1. S \in SUBSET Req
    BY DEF RowsOf
  <2>2. IsFiniteSet(S)
    BY <2>1, ReqAssumption, FS_Subset
  <2> HIDE DEF S
  <2> QED
    BY <1>2, <2>2, FS_AddElement, FS_CardinalityType
<1> SUFFICES ASSUME NEW rows \in SetToSeqs(S \cup {r})
             PROVE  Fold(Rows(rows)') = [ available |-> RawAvailable(acc'[u]),
                                          locked |-> RawLocked(acc'[u]) ]
  BY <1>2
<1>4. /\ rows \in [1 .. (n + 1) -> S \cup {r}]
      /\ \A i, j \in 1 .. (n + 1) : i # j => rows[i] # rows[j]
  BY <1>3 DEF SetToSeqs
<1> HIDE DEF S, n
<1>5. PICK m \in 1 .. (n + 1) : rows[m] = r
  <2>1. rows \in Injection(1 .. (n + 1), S \cup {r})
    BY <1>4 DEF Injection, IsInjective
  <2>2. Cardinality(1 .. (n + 1)) = n + 1
    BY <1>3, n + 1 \in Nat, FS_Interval
  <2>3. rows \in Surjection(1 .. (n + 1), S \cup {r})
    BY <1>3, <2>1, <2>2, FS_Injection
  <2> QED
    BY <2>3 DEF Surjection
<1> DEFINE s == Rows(rows)
           rest == Without(rows, n, m)
<1>6. s \in [1 .. (n + 1) -> Call] /\ Rows(rows)' = s /\ s[m] = txn
  BY <1>1, <1>2, <1>4, <1>5 DEF Rows
<1>7. rest \in SetToSeqs(S)
  <2>1. \A i \in 1 .. n : /\ i \in 1 .. (n + 1) /\ i + 1 \in 1 .. (n + 1)
                          /\ rest[i] = IF i < m THEN rows[i] ELSE rows[i + 1]
    BY <1>3 DEF Without
  <2>2. ASSUME NEW i \in 1 .. n
        PROVE  rest[i] \in S
    <3>1. CASE i < m
      BY <1>4, <1>5, <2>1, <3>1
    <3>2. CASE ~(i < m)
      <4>1. i + 1 # m /\ i + 1 \in 1 .. (n + 1)
        BY <2>1, <3>2
      <4> QED
        BY <1>4, <1>5, <2>1, <3>2, <4>1
    <3> QED
      BY <3>1, <3>2
  <2>3. ASSUME NEW i \in 1 .. n, NEW j \in 1 .. n, i # j
        PROVE  rest[i] # rest[j]
    <3> DEFINE p == IF i < m THEN i ELSE i + 1
               q == IF j < m THEN j ELSE j + 1
    <3>1. rest[i] = rows[p] /\ rest[j] = rows[q]
      BY <2>1
    <3>2. p # q
      BY <2>3, m \in Nat
    <3>3. p \in 1 .. (n + 1) /\ q \in 1 .. (n + 1)
      BY <2>1
    <3> QED
      BY <1>4, <3>1, <3>2, <3>3
  <2>4. rest \in [1 .. n -> S]
    BY <2>2 DEF Without
  <2> QED
    BY <2>3, <2>4 DEF SetToSeqs, n
<1>8. Rows(rest) = Without(s, n, m)
  <2>1. DOMAIN rest = 1 .. n
    BY DEF Without
  <2>2. ASSUME NEW i \in 1 .. n
        PROVE  call[rest[i]] = IF i < m THEN s[i] ELSE s[i + 1]
    BY <1>3, <1>4, <2>2 DEF Rows, Without
  <2> QED
    BY <2>1, <2>2 DEF Rows, Without
<1>9. /\ Available(s, n + 1) = Available(Without(s, n, m), n) + Gain(txn)
      /\ Locked(s, n + 1) = Locked(Without(s, n, m), n) + Stake(txn)
      /\ Without(s, n, m) \in [1 .. n -> Call]
  BY <1>3, <1>6, RowTakenOut
<1>10. /\ Available(Without(s, n, m), n) = RawAvailable(acc[u])
       /\ Locked(Without(s, n, m), n) = RawLocked(acc[u])
  <2>1. Fold(Rows(rest)) = [ available |-> RawAvailable(acc[u]),
                             locked |-> RawLocked(acc[u]) ]
    BY <1>7 DEF S
  <2>2. Fold(Without(s, n, m)) = [ available |-> Available(Without(s, n, m), n),
                                   locked |-> Locked(Without(s, n, m), n) ]
    BY <1>3, <1>9, TotalsAdd
  <2> QED
    BY <1>8, <2>1, <2>2
<1>11. Fold(s) = [ available |-> Available(s, n + 1), locked |-> Locked(s, n + 1) ]
  BY <1>3, <1>6, n + 1 \in Nat, TotalsAdd
<1>12. /\ RawAvailable(acc'[u]) = RawAvailable(acc[u]) + Gain(txn)
       /\ RawLocked(acc'[u]) = RawLocked(acc[u]) + Stake(txn)
  BY <1>1, RowMovesTotals DEF Gain, Stake
<1> QED
  BY <1>6, <1>9, <1>10, <1>11, <1>12

LEMMA SumsInvStep ==
  ASSUME TypeOK, SumsInv, [Next]_vars
  PROVE  SumsInv'
<1> DEFINE Sums(u) == \A rows \in SetToSeqs(RowsOf(u)) :
                        Fold(Rows(rows)) = [ available |-> RawAvailable(acc[u]),
                                             locked |-> RawLocked(acc[u]) ]
           Summed(u) == \A rows \in SetToSeqs(RowsOf(u)') :
                          Fold(Rows(rows)') = [ available |-> RawAvailable(acc'[u]),
                                                locked |-> RawLocked(acc'[u]) ]
<1>1. \A u \in User : Sums(u)
  BY DEF SumsInv
<1>2. ASSUME NEW u \in User
      PROVE  Summed(u)
  <2>1. ASSUME NEW r \in Req, Insert(r), call[r].user = u
        PROVE  Summed(u)
    BY <1>1, <2>1, RowInserted
  <2>2. ASSUME NEW r \in Req, Insert(r), call[r].user # u
        PROVE  Summed(u)
    <3>1. RowsOf(u)' = RowsOf(u) /\ acc'[u] = acc[u] /\ call' = call
      BY <2>2 DEF Insert, RowsOf, TypeOK
    <3> QED
      BY <1>1, <3>1, SameRows
  <2>3. ASSUME \A r \in Req : ~Insert(r)
        PROVE  Summed(u)
    <3>1. /\ RowsOf(u)' = RowsOf(u) /\ acc' = acc
          /\ \A r \in RowsOf(u) : call'[r] = call[r]
      <4>1. ASSUME NEW r \in Req, Connect(r) \/ Start(r) \/ ReadBalance(r)
            PROVE  /\ RowsOf(u)' = RowsOf(u) /\ acc' = acc
                   /\ \A q \in RowsOf(u) : call'[q] = call[q]
        BY <4>1 DEF Connect, Start, ReadBalance, RowsOf, TypeOK
      <4>2. ASSUME NEW r \in Req, StartFails(r) \/ Reject(r) \/ Fail(r)
            PROVE  /\ RowsOf(u)' = RowsOf(u) /\ acc' = acc
                   /\ \A q \in RowsOf(u) : call'[q] = call[q]
        BY <4>2 DEF StartFails, Reject, Fail, RollBack, RowsOf, TypeOK
      <4>3. ASSUME Crash
            PROVE  /\ RowsOf(u)' = RowsOf(u) /\ acc' = acc
                   /\ \A q \in RowsOf(u) : call'[q] = call[q]
        BY <4>3 DEF Crash, Holding, Begun, RowsOf, TypeOK
      <4>4. CASE UNCHANGED vars
        BY <4>4 DEF vars, RowsOf
      <4> QED
        BY <2>3, <4>1, <4>2, <4>3, <4>4 DEF Next
    <3> QED
      BY <1>1, <3>1, SameRows
  <2> QED
    BY <2>1, <2>2, <2>3
<1> QED
  BY <1>2 DEF SumsInv

LEMMA SumsInvInit == Init => SumsInv
<1> SUFFICES ASSUME Init, NEW u \in User, NEW rows \in SetToSeqs(RowsOf(u))
             PROVE  Fold(Rows(rows)) = [ available |-> RawAvailable(acc[u]),
                                         locked |-> RawLocked(acc[u]) ]
  BY DEF SumsInv
<1>1. RowsOf(u) = {}
  BY DEF Init, RowsOf
<1>2. Cardinality(RowsOf(u)) = 0
  BY <1>1, FS_EmptySet
<1>3. DOMAIN Rows(rows) = 1 .. 0
  BY <1>2 DEF SetToSeqs, Rows
<1>4. Fold(Rows(rows)) = Zeros
  BY <1>3, 0 \in Nat, LoopSteps
<1>5. RawAvailable(acc[u]) = 0 /\ RawLocked(acc[u]) = 0
  BY DEF Init, EmptyAccount, RawAvailable, RawLocked, Credited, Validated, Unchecked,
         TransactionType, CreditType, ValidatedType, UncheckedType
<1> QED
  BY <1>4, <1>5 DEF Zeros

(* SumsSuffice: whatever rows a user has, in whatever order the query      *)
(* returns them, the loop of getBalance ends with the balance that the     *)
(* sums of the account give: the other modules lose nothing by keeping     *)
(* sums instead of rows.                                                   *)
THEOREM SumsAreEnough == Spec => []SumsSuffice
<1>1. SumsInv => SumsSuffice
  <2> SUFFICES ASSUME NEW u \in User, NEW rows \in SetToSeqs(RowsOf(u)),
                      Fold(Rows(rows)) = [ available |-> RawAvailable(acc[u]),
                                           locked |-> RawLocked(acc[u]) ]
               PROVE  BalanceOf([i \in DOMAIN rows |-> call[rows[i]]]) = getBalance(acc[u])
    BY DEF SumsInv, SumsSuffice
  <2>1. FoldLeft(Step, [available |-> 0, locked |-> 0], [i \in DOMAIN rows |-> call[rows[i]]])
          = Fold(Rows(rows))
    BY DEF Fold, Zeros, Rows, FoldLeft, MapThenFoldSet
  <2> QED
    BY <2>1 DEF BalanceOf, getBalance
<1> QED
  BY <1>1, SumsInvInit, SumsInvStep, WalletTyped, PTL DEF Spec

=============================================================================
