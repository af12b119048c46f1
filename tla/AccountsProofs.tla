--------------------------- MODULE AccountsProofs ---------------------------
(***************************************************************************)
(* Theorems about Accounts, for any numbers of users, addresses and        *)
(* registrations, any width of numbers and whatever clients ask for.       *)
(***************************************************************************)
EXTENDS Accounts, FiniteSetTheorems, TLAPS

-----------------------------------------------------------------------------
(* Arithmetic.                                                             *)

\* A number that is in range is not wrapped.
LEMMA WrapInRange ==
    ASSUME NEW x \in Nat, x < Half
    PROVE  Wrap(x) = x
<1>1. Half \in Nat /\ Half > 10
  BY ConstantsAssumption
<1>2. (x + Half) % (2 * Half) = x + Half
  BY <1>1
<1> QED
  BY <1>1, <1>2 DEF Wrap

LEMMA WrapType ==
    ASSUME NEW x \in Int
    PROVE  Wrap(x) \in Int32
BY ConstantsAssumption DEF Wrap, Int32

LEMMA QuotientType ==
    ASSUME NEW a \in Int32, NEW b \in 1 .. Half - 1
    PROVE  Quotient(a, b) \in Int32
<1>1. Half \in Nat /\ a \in Int /\ b \in Nat \ {0}
  BY ConstantsAssumption DEF Int32
<1>2. ASSUME NEW n \in Nat
      PROVE  n \div b \in Nat /\ n \div b <= n
  BY <1>1
<1>3. CASE a < 0
  <2>1. -a \in Nat /\ -a <= Half
    BY <1>1, <1>3 DEF Int32
  <2>2. (-a) \div b \in Nat /\ (-a) \div b <= -a
    BY <1>2, <2>1
  <2> QED
    BY <1>1, <1>3, <2>1, <2>2 DEF Quotient, Int32
<1>4. CASE ~(a < 0)
  <2>1. a \in Nat /\ a < Half
    BY <1>1, <1>4 DEF Int32
  <2>2. a \div b \in Nat /\ a \div b <= a
    BY <1>2, <2>1
  <2> QED
    BY <1>1, <1>4, <2>1, <2>2 DEF Quotient, Int32
<1> QED
  BY <1>3, <1>4

\* The rows before a page.
LEMMA PageArithmetic ==
    ASSUME NEW k \in Nat \ {0}, NEW l \in Nat \ {0}
    PROVE  /\ k * l \in Nat /\ (k - 1) * l \in Nat
           /\ (k - 1) * l + l = k * l
           /\ l <= k * l /\ k <= k * l
OBVIOUS

\* There is a page for whoever is behind the first k.
LEMMA PagesRoundUp ==
    ASSUME NEW t \in Nat, NEW k \in Nat, NEW l \in 1 .. Half - 1,
           t > k * l, t + l <= Half
    PROVE  TotalPages(t, l) > k
<1>1. Half \in Nat /\ l \in Nat \ {0}
  BY ConstantsAssumption
<1>2. t + l - 1 \in Nat /\ t + l - 1 < Half
  BY <1>1
<1>3. (t + l - 1) \div l > k
  BY <1>1
<1>4. ~(t + l - 1 < 0)
  BY <1>2
<1> QED
  BY <1>2, <1>3, <1>4, WrapInRange DEF TotalPages, Quotient

LEMMA TotalPagesType ==
    ASSUME NEW t \in Nat, NEW l \in 1 .. Half - 1
    PROVE  TotalPages(t, l) \in Int
<1>1. t + l - 1 \in Int
  BY ConstantsAssumption
<1>2. TotalPages(t, l) \in Int32
  BY <1>1, WrapType, QuotientType DEF TotalPages
<1> QED
  BY <1>2, ConstantsAssumption DEF Int32

-----------------------------------------------------------------------------
(* The order of the rows.                                                  *)

LEMMA RanksFacts ==
    ASSUME IsFiniteSet(users), NEW rank \in Ranks
    PROVE  /\ Cardinality(users) \in Nat
           /\ rank \in Injection(users, 1 .. Cardinality(users))
           /\ rank \in Surjection(users, 1 .. Cardinality(users))
<1> DEFINE N == Cardinality(users)
<1>1. N \in Nat
  BY FS_CardinalityType
<1>2. rank \in Injection(users, 1 .. N)
  BY DEF Ranks, Injection, IsInjective
<1>3. IsFiniteSet(1 .. N) /\ Cardinality(1 .. N) = N
  BY <1>1, FS_Interval
<1> HIDE DEF N
<1>4. rank \in Surjection(users, 1 .. N)
  BY <1>2, <1>3, FS_Injection DEF N
<1> QED
  BY <1>1, <1>2, <1>4 DEF N

\* Whoever shares its time with nobody comes right after those that are newer.
LEMMA RankIsAfterNewer ==
    ASSUME IsFiniteSet(users), OneAccountPerEmail, users \subseteq Row,
           NEW rank \in Ranks, NEW u \in users, ~SharesItsTime(u.id)
    PROVE  /\ Cardinality(Newer(u)) \in Nat
           /\ rank[u] \in Nat
           /\ rank[u] - 1 <= Cardinality(Newer(u))
<1> DEFINE N == Cardinality(users)
           n == rank[u] - 1
           L == {v \in users : rank[v] < rank[u]}
           g == [v \in L |-> rank[v]]
<1>1. /\ N \in Nat /\ rank \in [users -> 1 .. N]
      /\ rank \in Surjection(users, 1 .. N)
  BY RanksFacts DEF Injection
<1>2. rank[u] \in 1 .. N /\ n \in Nat
  BY <1>1
<1>3. L \subseteq Newer(u)
  <2> SUFFICES ASSUME NEW v \in users, rank[v] < rank[u]
               PROVE  v.created > u.created
    BY DEF Newer
  <2>1. v.created \in Int /\ u.created \in Int /\ v # u
    BY <1>1, ConstantsAssumption DEF Row, Time
  <2>2. v.id # u.id
    BY <2>1 DEF OneAccountPerEmail
  <2>3. v.created # u.created
    BY <2>2 DEF SharesItsTime
  <2>4. ~(u.created > v.created)
    <3>1. rank[u] \in Int /\ rank[v] \in Int
      BY <1>1
    <3>2. u.created > v.created => rank[u] < rank[v]
      BY DEF Ranks
    <3> QED
      BY <3>1, <3>2
  <2> QED
    BY <2>1, <2>3, <2>4
<1>4. g \in Surjection(L, 1 .. n)
  <2>1. ASSUME NEW v \in L
        PROVE  rank[v] \in 1 .. n
    <3>1. v \in users /\ rank[v] < rank[u] /\ rank[v] \in 1 .. N
      BY <1>1
    <3> QED
      BY <3>1, <1>2
  <2>2. ASSUME NEW i \in 1 .. n
        PROVE  \E v \in L : g[v] = i
    <3>1. i \in 1 .. N /\ i < rank[u]
      BY <1>1, <1>2
    <3>2. PICK v \in users : rank[v] = i
      BY <1>1, <3>1 DEF Surjection
    <3> QED
      BY <3>1, <3>2
  <2>3. g \in [L -> 1 .. n]
    BY <2>1
  <2> QED
    BY <2>2, <2>3 DEF Surjection
<1>5. IsFiniteSet(Newer(u)) /\ IsFiniteSet(L)
      /\ Cardinality(L) <= Cardinality(Newer(u))
  <2>1. IsFiniteSet(Newer(u))
    BY FS_Subset DEF Newer
  <2> QED
    BY <2>1, <1>3, FS_Subset
<1>6. Cardinality(1 .. n) <= Cardinality(L)
  BY <1>4, <1>5, FS_Surjection
<1>7. Cardinality(1 .. n) = n
  BY <1>2, FS_Interval
<1>8. Cardinality(L) \in Nat /\ Cardinality(Newer(u)) \in Nat
  BY <1>5, FS_CardinalityType
<1> HIDE DEF L, g
<1> QED
  BY <1>2, <1>5, <1>6, <1>7, <1>8

\* Those that are newer come before.
LEMMA NewerPrecede ==
    ASSUME IsFiniteSet(users), users \subseteq Row,
           NEW rank \in Ranks, NEW u \in users
    PROVE  Cardinality(Newer(u)) < rank[u]
<1> DEFINE N == Cardinality(users)
           n == rank[u] - 1
           h == [v \in Newer(u) |-> rank[v]]
<1>1. N \in Nat /\ rank \in [users -> 1 .. N] /\ IsInjective(rank)
  BY RanksFacts DEF Injection
<1>2. n \in Nat
  BY <1>1
<1>3. ASSUME NEW v \in Newer(u)
      PROVE  rank[v] \in 1 .. n /\ v \in users
  <2>1. v \in users /\ v.created > u.created
    BY DEF Newer
  <2>2. rank[v] < rank[u]
    BY <2>1 DEF Ranks
  <2> QED
    BY <1>1, <2>1, <2>2
<1>4. h \in Injection(Newer(u), 1 .. n)
  <2>1. h \in [Newer(u) -> 1 .. n]
    BY <1>3
  <2>2. ASSUME NEW v \in Newer(u), NEW w \in Newer(u), h[v] = h[w]
        PROVE  v = w
    BY <2>2, <1>1, <1>3 DEF IsInjective
  <2> QED
    BY <2>1, <2>2 DEF Injection, IsInjective
<1> HIDE DEF h
<1>5. IsFiniteSet(1 .. n) /\ Cardinality(1 .. n) = n
  <2> HIDE DEF n
  <2>1. 1 \in Int /\ n \in Int
    BY <1>2
  <2>2. IsFiniteSet(1 .. n)
        /\ Cardinality(1 .. n) = IF 1 > n THEN 0 ELSE n - 1 + 1
    BY <2>1, FS_Interval
  <2> QED
    BY <1>2, <2>2
<1>6. Cardinality(Newer(u)) <= n /\ IsFiniteSet(Newer(u))
  BY <1>4, <1>5, FS_Injection
<1> QED
  BY <1>1, <1>6, FS_CardinalityType

\* Nobody is newer than itself.
LEMMA NewerIsLess ==
    ASSUME IsFiniteSet(users), users \subseteq Row, NEW u \in users
    PROVE  Cardinality(Newer(u)) \in Nat /\ Cardinality(users) \in Nat
           /\ Cardinality(Newer(u)) < Cardinality(users)
<1>1. Newer(u) \in SUBSET users /\ u \notin Newer(u)
  BY ConstantsAssumption DEF Newer, Row, Time
<1>2. /\ IsFiniteSet(Newer(u))
      /\ Cardinality(Newer(u)) <= Cardinality(users)
      /\ Cardinality(Newer(u)) # Cardinality(users)
  BY <1>1, FS_Subset
<1> QED
  BY <1>2, FS_CardinalityType

\* A window that shows rows ends within the table.
LEMMA WindowFits ==
    ASSUME IsFiniteSet(users), NEW rank \in Ranks,
           NEW offset \in Nat, NEW limit \in Nat
    PROVE  LET count == Cardinality(Window(rank, offset, limit))
           IN  /\ count \in Nat
               /\ count > 0 => offset + count <= Cardinality(users)
<1> DEFINE N == Cardinality(users)
           W == Window(rank, offset, limit)
           h == [u \in W |-> rank[u]]
<1>1. N \in Nat /\ rank \in [users -> 1 .. N] /\ IsInjective(rank)
  BY RanksFacts DEF Injection
<1>2. W \in SUBSET users /\ IsFiniteSet(W) /\ Cardinality(W) \in Nat
  BY FS_Subset, FS_CardinalityType DEF Window
<1>3. ASSUME NEW u \in W
      PROVE  rank[u] \in offset + 1 .. N
  <2>1. rank[u] \in 1 .. N /\ offset < rank[u]
    BY <1>1, <1>2 DEF Window
  <2> QED
    BY <2>1, <1>1
<1>4. h \in Injection(W, offset + 1 .. N)
  <2>1. h \in [W -> offset + 1 .. N]
    BY <1>3
  <2>2. ASSUME NEW u \in W, NEW v \in W, h[u] = h[v]
        PROVE  u = v
    BY <2>2, <1>1, <1>2 DEF IsInjective
  <2> QED
    BY <2>1, <2>2 DEF Injection, IsInjective
<1> HIDE DEF W, h
<1>5. /\ IsFiniteSet(offset + 1 .. N)
      /\ Cardinality(offset + 1 .. N) =
           IF offset + 1 > N THEN 0 ELSE N - (offset + 1) + 1
  <2>1. offset + 1 \in Int /\ N \in Int
    BY <1>1
  <2> HIDE DEF N
  <2> QED
    BY <2>1, FS_Interval
<1>6. Cardinality(W) <= Cardinality(offset + 1 .. N)
  BY <1>4, <1>5, FS_Injection
<1> HIDE DEF N
<1>7. Cardinality(W) > 0 => offset + Cardinality(W) <= N
  BY <1>1, <1>2, <1>5, <1>6
<1> QED
  BY <1>2, <1>7 DEF W, N

-----------------------------------------------------------------------------
(* Types, and what happens to the table.                                   *)

UsersGrow ==
    \/ users' = users
    \/ \E row \in Row : IsFresh(row.id) /\ users' = users \cup {row}

LEMMA RegistrationFacts ==
    ASSUME TypeOK, NEW r \in Request
    PROVE  /\ requests[r] \in Registration
           /\ requests[r].pc \in {"hashing", "inserted"} =>
                requests[r].account \in Account /\ requests[r].role \in Roles
           /\ requests[r].pc = "inserted" => requests[r].user \in UserId
BY DEF TypeOK, Registration, Idle

LEMMA NewRowsAreRows ==
    ASSUME TypeOK, NEW r \in Request, requests[r].pc = "hashing",
           NEW i \in UserId, NEW row \in NewRows(r, i)
    PROVE  /\ row \in Row
           /\ row.id = i /\ row.role = requests[r].role
           /\ row.email = requests[r].account.email
           /\ row.password = requests[r].account.password
BY RegistrationFacts DEF NewRows, Row, Account

LEMMA InsertGrows ==
    ASSUME TypeOK, NEW r \in Request, InsertUser(r)
    PROVE  UsersGrow
<1>1. requests[r].pc = "hashing"
  BY DEF InsertUser
<1>2. CASE Taken(requests[r].account.email)
  BY <1>2 DEF InsertUser, UsersGrow
<1>3. CASE ~Taken(requests[r].account.email)
  <2>1. PICK i \in UserId : \E row \in NewRows(r, i) :
            IsFresh(i) /\ users' = users \cup {row}
    BY <1>3 DEF InsertUser
  <2> QED
    BY <1>1, <2>1, NewRowsAreRows DEF UsersGrow
<1> QED
  BY <1>2, <1>3

LEMMA StepsGrow ==
    ASSUME TypeOK, [Next]_vars
    PROVE  UsersGrow
<1>1. ASSUME NEW r \in Request, InsertUser(r)
      PROVE  UsersGrow
  BY <1>1, InsertGrows
<1> QED
  BY <1>1 DEF Next, vars, UsersGrow, LookUp, StartCreateAdmin,
     AnswerRegistration, Abort, Login, GetUsers, ListUsers, CountUsers,
     AbandonPage

LEMMA GrowthIsFinite ==
    ASSUME IsFiniteSet(users), UsersGrow
    PROVE  /\ IsFiniteSet(users')
           /\ Cardinality(users) \in Nat /\ Cardinality(users') \in Nat
           /\ users \subseteq users'
           /\ Cardinality(users) <= Cardinality(users')
<1>1. IsFiniteSet(users') /\ users \subseteq users'
  BY FS_AddElement DEF UsersGrow
<1> QED
  BY <1>1, FS_Subset, FS_CardinalityType

LEMMA UseType ==
    ASSUME NEW a \in Limits \cup PageNos, NEW d \in 1 .. Half - 1
    PROVE  Use(a, d) \in 1 .. Half - 1
BY ConstantsAssumption DEF Use, Int32

LEMMA InitTypes ==
    ASSUME Init
    PROVE  TypeOK /\ IsFiniteSet(users)
BY FS_EmptySet DEF Init, TypeOK, NoPage, Registration

LEMMA RegistrationKeepsTypes ==
    ASSUME TypeOK, NEW r \in Request,
           LookUp(r) \/ StartCreateAdmin(r) \/ InsertUser(r)
             \/ AnswerRegistration(r) \/ Abort(r)
    PROVE  TypeOK'
<1>1. requests[r] \in Registration
  BY RegistrationFacts
<1>2. CASE LookUp(r) \/ StartCreateAdmin(r)
  <2>1. PICK a \in Account, role \in Roles :
            Go(r, [pc |-> "hashing", account |-> a, role |-> role])
    BY <1>2, ConstantsAssumption DEF LookUp, StartCreateAdmin, Roles
  <2>2. [pc |-> "hashing", account |-> a, role |-> role] \in Registration
    BY DEF Registration
  <2>3. requests' \in [Request -> Registration]
    BY <2>1, <2>2 DEF Go, TypeOK
  <2>4. UNCHANGED <<users, tokens, registered, page>>
    BY <1>2 DEF LookUp, StartCreateAdmin
  <2> QED
    BY <2>3, <2>4 DEF TypeOK
<1>3. CASE InsertUser(r)
  <2>1. requests[r].pc = "hashing" /\ UNCHANGED <<tokens, registered, page>>
    BY <1>3 DEF InsertUser
  <2>2. requests' \in [Request -> Registration]
    <3>1. Go(r, Idle) \/ \E i \in UserId : Inserted(r, i)
      BY <1>3 DEF InsertUser
    <3>2. ASSUME NEW i \in UserId
          PROVE  [pc |-> "inserted", account |-> requests[r].account,
                  role |-> requests[r].role, user |-> i] \in Registration
      BY <2>1, RegistrationFacts DEF Registration
    <3>3. Idle \in Registration
      BY DEF Registration
    <3> QED
      BY <3>1, <3>2, <3>3 DEF Go, Inserted, TypeOK
  <2>3. users' \subseteq Row
    BY <1>3, InsertGrows DEF UsersGrow, TypeOK
  <2> QED
    BY <2>1, <2>2, <2>3 DEF TypeOK
<1>4. CASE AnswerRegistration(r) \/ Abort(r)
  <2>1. requests' \in [Request -> Registration]
    BY <1>4 DEF AnswerRegistration, Abort, Go, TypeOK, Registration
  <2>2. registered' \subseteq Account /\ tokens' \subseteq Token
    BY <1>4, RegistrationFacts
       DEF AnswerRegistration, Abort, TypeOK, Token, Roles
  <2>3. UNCHANGED <<users, page>>
    BY <1>4 DEF AnswerRegistration, Abort
  <2> QED
    BY <2>1, <2>2, <2>3 DEF TypeOK
<1> QED
  BY <1>2, <1>3, <1>4

LEMMA PagesKeepTypes ==
    ASSUME TypeOK, IsFiniteSet(users), GetUsers \/ CountUsers \/ AbandonPage
    PROVE  TypeOK'
<1>1. Half \in Nat /\ Half > 10
  BY ConstantsAssumption
<1>2. CASE GetUsers
  <2>1. PICK limit \in 1 .. Half - 1, pageNo \in 1 .. Half - 1 :
            ListUsers(limit, pageNo)
    <3>1. 10 \in 1 .. Half - 1 /\ 1 \in 1 .. Half - 1
      BY <1>1
    <3> QED
      BY <1>2, <3>1, UseType DEF GetUsers
  <2>2. PICK rank \in Ranks :
            LET listed == Window(rank, Offset(limit, pageNo), limit)
            IN  page' = [pc |-> "listed", limit |-> limit, pageNo |-> pageNo,
                         count |-> Cardinality(listed),
                         unmet |-> Unmet(limit, pageNo, Ids(listed))]
    BY <2>1 DEF ListUsers
  <2> DEFINE W == Window(rank, Offset(limit, pageNo), limit)
             unmet == Unmet(limit, pageNo, Ids(W))
  <2>3. Cardinality(W) \in Nat
    BY FS_Subset, FS_CardinalityType DEF Window
  <2>4. unmet = None \/ unmet \subseteq UserId
    BY DEF Unmet, NextPage, Ids, TypeOK, Row
  <2>5. UNCHANGED <<users, requests, tokens, registered>>
    BY <2>1 DEF ListUsers
  <2> HIDE DEF unmet, W
  <2>6. page' = [pc |-> "listed", limit |-> limit, pageNo |-> pageNo,
                 count |-> Cardinality(W), unmet |-> unmet]
    BY <2>2 DEF unmet, W
  <2> QED
    BY <2>3, <2>4, <2>5, <2>6 DEF TypeOK
<1>3. CASE CountUsers
  <2>1. Cardinality(users) \in Nat /\ page.limit \in 1 .. Half - 1
    BY <1>3, FS_CardinalityType DEF TypeOK, CountUsers
  <2>2. Wrap(Cardinality(users)) \in Int32
    BY <2>1, WrapType
  <2>3. TotalPages(Wrap(Cardinality(users)), page.limit) \in Int32
    <3>1. Wrap(Cardinality(users)) + page.limit - 1 \in Int
      BY <1>1, <2>1, <2>2 DEF Int32
    <3> QED
      BY <3>1, <2>1, WrapType, QuotientType DEF TotalPages
  <2> QED
    BY <1>3, <2>2, <2>3 DEF CountUsers, TypeOK
<1>4. CASE AbandonPage
  BY <1>4 DEF AbandonPage, NoPage, TypeOK
<1> QED
  BY <1>2, <1>3, <1>4

LEMMA NextTypes ==
    ASSUME TypeOK, IsFiniteSet(users), [Next]_vars
    PROVE  (TypeOK /\ IsFiniteSet(users))'
<1>1. IsFiniteSet(users')
  BY StepsGrow, GrowthIsFinite
<1>2. CASE Login
  BY <1>2 DEF Login, TypeOK, Token, Row
<1>3. CASE UNCHANGED vars
  BY <1>3 DEF vars, TypeOK
<1> QED
  BY <1>1, <1>2, <1>3, RegistrationKeepsTypes, PagesKeepTypes DEF Next

-----------------------------------------------------------------------------
(* Accounts.                                                               *)

AccountsInv ==
    /\ OneAccountPerEmail /\ InsertedStand
    /\ AnsweredAccountsStand /\ TokensNameAccounts

LEMMA InitAccounts ==
    ASSUME Init
    PROVE  AccountsInv
BY DEF Init, Idle, AccountsInv, OneAccountPerEmail, InsertedStand,
   AnsweredAccountsStand, TokensNameAccounts

\* What the accounts need is that rows stay.
LEMMA AccountsStay ==
    ASSUME AccountsInv, users \subseteq users',
           UNCHANGED <<tokens, registered>>
    PROVE  (AnsweredAccountsStand /\ TokensNameAccounts)'
BY DEF AccountsInv, AnsweredAccountsStand, TokensNameAccounts

LEMMA InsertKeepsAccounts ==
    ASSUME TypeOK, AccountsInv, NEW r \in Request, InsertUser(r)
    PROVE  AccountsInv'
<1>1. requests[r].pc = "hashing" /\ UNCHANGED <<tokens, registered>>
  BY DEF InsertUser
<1>2. CASE Taken(requests[r].account.email)
  <2>1. UNCHANGED users /\ Go(r, Idle)
    BY <1>2 DEF InsertUser
  <2>2. InsertedStand'
    BY <2>1 DEF AccountsInv, InsertedStand, Go, Idle, TypeOK
  <2> QED
    BY <1>1, <2>1, <2>2, AccountsStay DEF AccountsInv, OneAccountPerEmail
<1>3. CASE ~Taken(requests[r].account.email)
  <2>1. PICK i \in UserId : \E row \in NewRows(r, i) :
            IsFresh(i) /\ users' = users \cup {row} /\ Inserted(r, i)
    BY <1>3 DEF InsertUser
  <2>2. PICK row \in NewRows(r, i) :
            IsFresh(i) /\ users' = users \cup {row} /\ Inserted(r, i)
    BY <2>1
  <2>3. /\ row.id = i /\ row.role = requests[r].role
        /\ row.email = requests[r].account.email
        /\ row.password = requests[r].account.password
    BY <1>1, NewRowsAreRows
  <2>4. \A u \in users : u.email # row.email /\ u.id # row.id
    BY <1>3, <2>2, <2>3 DEF Taken, IsFresh
  <2>5. OneAccountPerEmail'
    BY <2>2, <2>4 DEF AccountsInv, OneAccountPerEmail
  <2>6. InsertedStand'
    <3> SUFFICES ASSUME NEW q \in Request, requests'[q].pc = "inserted"
                 PROVE  \E u \in users' :
                            /\ u.id = requests'[q].user
                            /\ u.role = requests'[q].role
                            /\ u.email = requests'[q].account.email
                            /\ u.password = requests'[q].account.password
      BY DEF InsertedStand
    <3>1. CASE q = r
      <4>1. requests'[r] = [pc |-> "inserted", account |-> requests[r].account,
                            role |-> requests[r].role, user |-> i]
        BY <2>2 DEF Inserted, Go, TypeOK
      <4> QED
        BY <3>1, <4>1, <2>2, <2>3
    <3>2. CASE q # r
      <4>1. requests'[q] = requests[q]
        BY <3>2, <2>2 DEF Inserted, Go, TypeOK
      <4> QED
        BY <4>1, <2>2 DEF AccountsInv, InsertedStand
    <3> QED
      BY <3>1, <3>2
  <2> QED
    BY <1>1, <2>2, <2>5, <2>6, AccountsStay DEF AccountsInv
<1> QED
  BY <1>2, <1>3

LEMMA AnswerKeepsAccounts ==
    ASSUME TypeOK, AccountsInv, NEW r \in Request, AnswerRegistration(r)
    PROVE  AccountsInv'
<1>1. PICK u \in users :
          /\ u.id = requests[r].user /\ u.role = requests[r].role
          /\ u.email = requests[r].account.email
          /\ u.password = requests[r].account.password
  BY DEF AnswerRegistration, AccountsInv, InsertedStand
<1>2. UNCHANGED users
  BY DEF AnswerRegistration
<1>3. OneAccountPerEmail' /\ AnsweredAccountsStand'
  BY <1>1, <1>2 DEF AnswerRegistration, AccountsInv, OneAccountPerEmail,
     AnsweredAccountsStand
<1>4. TokensNameAccounts'
  <2> SUFFICES ASSUME NEW t \in tokens'
               PROVE  \E v \in users : v.id = t.user /\ v.role = t.role
    BY <1>2 DEF TokensNameAccounts
  <2>1. \/ t \in tokens
        \/ /\ requests[r].role = "user"
           /\ t = [user |-> requests[r].user, role |-> "user"]
    BY DEF AnswerRegistration
  <2> QED
    BY <1>1, <2>1 DEF AccountsInv, TokensNameAccounts
<1>5. InsertedStand'
  BY <1>2 DEF AnswerRegistration, AccountsInv, InsertedStand, Go, Idle, TypeOK
<1> QED
  BY <1>3, <1>4, <1>5 DEF AccountsInv

LEMMA StartKeepsAccounts ==
    ASSUME TypeOK, AccountsInv, NEW r \in Request,
           LookUp(r) \/ StartCreateAdmin(r) \/ Abort(r)
    PROVE  AccountsInv'
<1>1. /\ \A q \in Request \ {r} : requests'[q] = requests[q]
      /\ requests'[r].pc # "inserted"
  BY DEF LookUp, StartCreateAdmin, Abort, Go, Idle, TypeOK
<1>2. UNCHANGED <<users, tokens, registered>>
  BY DEF LookUp, StartCreateAdmin, Abort
<1>3. InsertedStand'
  BY <1>1, <1>2 DEF AccountsInv, InsertedStand
<1> QED
  BY <1>2, <1>3, AccountsStay DEF AccountsInv, OneAccountPerEmail

LEMMA LoginKeepsAccounts ==
    ASSUME AccountsInv, Login
    PROVE  AccountsInv'
BY DEF AccountsInv, Login, OneAccountPerEmail, InsertedStand,
   AnsweredAccountsStand, TokensNameAccounts

LEMMA NextAccounts ==
    ASSUME TypeOK, AccountsInv, [Next]_vars
    PROVE  AccountsInv'
<1>1. CASE GetUsers \/ CountUsers \/ AbandonPage \/ UNCHANGED vars
  <2>1. UNCHANGED <<users, requests, tokens, registered>>
    BY <1>1 DEF GetUsers, ListUsers, CountUsers, AbandonPage, vars
  <2> QED
    BY <2>1 DEF AccountsInv, OneAccountPerEmail, InsertedStand,
       AnsweredAccountsStand, TokensNameAccounts
<1> QED
  BY <1>1, InsertKeepsAccounts, AnswerKeepsAccounts, StartKeepsAccounts,
     LoginKeepsAccounts DEF Next

-----------------------------------------------------------------------------
(* Pages.                                                                  *)

PagesInv == Walked /\ PagesFitTheCount /\ WalkMeetsEveryone

LEMMA InitPages ==
    ASSUME Init
    PROVE  PagesInv
BY DEF Init, NoPage, PagesInv, Walked, PagesFitTheCount, WalkMeetsEveryone

LEMMA PageFacts ==
    ASSUME TypeOK, page.pc # "none"
    PROVE  /\ page.limit \in Nat \ {0} /\ page.pageNo \in Nat \ {0}
           /\ page.limit < Half /\ Half \in Nat /\ page.count \in Nat
BY ConstantsAssumption DEF TypeOK

\* Rows that are added push others back, and no row comes to share its time
\* with fewer.
LEMMA GrowthKeepsWalk ==
    ASSUME TypeOK, IsFiniteSet(users), UsersGrow, Walked, UNCHANGED page
    PROVE  Walked'
<1> SUFFICES ASSUME page.pc # "none", page.pageNo * page.limit < Half
             PROVE  Walked'
  BY DEF Walked
<1>1. /\ IsFiniteSet(users') /\ users \subseteq users'
      /\ Cardinality(users) \in Nat /\ Cardinality(users') \in Nat
      /\ Cardinality(users) <= Cardinality(users')
  BY GrowthIsFinite
<1>2. page.count > 0 =>
        (page.pageNo - 1) * page.limit + page.count <= Cardinality(users')
  <2>1. (page.pageNo - 1) * page.limit + page.count \in Int
    BY PageFacts
  <2> QED
    BY <1>1, <2>1 DEF Walked
<1>3. page.unmet # None => page.unmet \subseteq Ids(users')
  BY <1>1 DEF Walked, Ids
<1>4. ASSUME page.unmet # None, NEW u \in users', u.id \in page.unmet,
             ~SharesItsTime(u.id)'
      PROVE  page.pageNo * page.limit <= Cardinality(Newer(u)')
  <2>1. u \in users
    <3>1. PICK v \in users : v.id = u.id
      BY <1>4 DEF Walked, Ids
    <3> QED
      BY <3>1 DEF UsersGrow, IsFresh
  <2>2. ~SharesItsTime(u.id)
    BY <1>1, <1>4 DEF SharesItsTime
  <2>3. page.pageNo * page.limit <= Cardinality(Newer(u))
    BY <1>4, <2>1, <2>2 DEF Walked
  <2>4. Newer(u) \subseteq Newer(u)' /\ Newer(u)' \subseteq users'
    BY <1>1 DEF Newer
  <2>5. /\ Cardinality(Newer(u)) \in Nat /\ Cardinality(Newer(u)') \in Nat
        /\ Cardinality(Newer(u)) <= Cardinality(Newer(u)')
    <3>1. IsFiniteSet(Newer(u)')
      BY <1>1, <2>4, FS_Subset
    <3> QED
      BY <3>1, <2>4, FS_Subset, FS_CardinalityType
  <2>6. page.pageNo * page.limit \in Int
    BY PageFacts
  <2> QED
    BY <2>3, <2>5, <2>6
<1> QED
  BY <1>2, <1>3, <1>4 DEF Walked

LEMMA GrowthKeepsPages ==
    ASSUME TypeOK, IsFiniteSet(users), UsersGrow, PagesInv, UNCHANGED page
    PROVE  PagesInv'
<1>1. /\ Cardinality(users) \in Nat /\ Cardinality(users') \in Nat
      /\ users \subseteq users' /\ Cardinality(users) <= Cardinality(users')
  BY GrowthIsFinite
<1>2. page.pc # "none" /\ InRange' => InRange
  BY <1>1, PageFacts DEF InRange
<1>3. PagesFitTheCount'
  BY <1>2 DEF PagesInv, PagesFitTheCount
<1>4. \A i : SharesItsTime(i) => SharesItsTime(i)'
  BY <1>1 DEF SharesItsTime
<1>5. WalkMeetsEveryone'
  BY <1>2, <1>4 DEF PagesInv, WalkMeetsEveryone
<1> QED
  BY <1>3, <1>5, GrowthKeepsWalk DEF PagesInv

\* A page that is listed goes on where the walk has come to.
LEMMA ListKeepsPages ==
    ASSUME TypeOK, IsFiniteSet(users), OneAccountPerEmail, PagesInv,
           NEW limit \in 1 .. Half - 1, NEW pageNo \in 1 .. Half - 1,
           ListUsers(limit, pageNo)
    PROVE  PagesInv'
<1> DEFINE offset == Offset(limit, pageNo)
<1>1. PICK rank \in Ranks :
          page' = [pc |-> "listed", limit |-> limit, pageNo |-> pageNo,
                   count |-> Cardinality(Window(rank, offset, limit)),
                   unmet |-> Unmet(limit, pageNo,
                                   Ids(Window(rank, offset, limit)))]
  BY DEF ListUsers
<1> DEFINE W == Window(rank, offset, limit)
           unmet == Unmet(limit, pageNo, Ids(W))
<1>2. UNCHANGED users
  BY DEF ListUsers
<1>3. limit \in Nat \ {0} /\ pageNo \in Nat \ {0} /\ Half \in Nat
  BY ConstantsAssumption
<1>4. /\ pageNo * limit \in Nat /\ (pageNo - 1) * limit \in Nat
      /\ (pageNo - 1) * limit + limit = pageNo * limit
  BY <1>3, PageArithmetic
<1>5. ASSUME pageNo * limit < Half
      PROVE  offset = (pageNo - 1) * limit
  BY <1>3, <1>4, <1>5, WrapInRange DEF Offset
<1>6. ASSUME pageNo * limit < Half
      PROVE  Cardinality(W) > 0 =>
               (pageNo - 1) * limit + Cardinality(W) <= Cardinality(users)
  <2>1. offset \in Nat
    BY <1>4, <1>5, <1>6
  <2> QED
    BY <1>3, <1>5, <1>6, <2>1, WindowFits
<1>7. ASSUME pageNo * limit < Half, unmet # None
      PROVE  /\ unmet \subseteq Ids(users)
             /\ \A u \in users : u.id \in unmet /\ ~SharesItsTime(u.id) =>
                    pageNo * limit <= Cardinality(Newer(u))
  <2>1. CASE pageNo = 1
    <3>1. unmet = Ids(users) \ Ids(W) /\ offset = 0
      BY <1>3, <1>5, <1>7, <2>1 DEF Unmet
    <3>2. ASSUME NEW u \in users, u.id \in unmet, ~SharesItsTime(u.id)
          PROVE  pageNo * limit <= Cardinality(Newer(u))
      <4>1. /\ Cardinality(Newer(u)) \in Nat /\ rank[u] \in Nat
            /\ rank[u] - 1 <= Cardinality(Newer(u))
        BY <3>2, RankIsAfterNewer DEF TypeOK
      <4>2. u \notin W
        BY <3>1, <3>2 DEF Ids
      <4>3. rank[u] \in 1 .. Cardinality(users)
        BY RanksFacts DEF Injection
      <4>4. rank[u] > limit
        BY <1>3, <3>1, <4>1, <4>2, <4>3 DEF Window
      <4> QED
        BY <1>3, <2>1, <4>1, <4>4
    <3> QED
      BY <3>1, <3>2
  <2>2. CASE pageNo # 1
    <3>1. NextPage(limit, pageNo) /\ unmet = page.unmet \ Ids(W)
      BY <1>7, <2>2 DEF Unmet
    <3>2. page.pageNo = pageNo - 1 /\ page.limit = limit /\ page.pc # "none"
          /\ page.unmet # None
      BY <3>1 DEF NextPage
    <3>3. (pageNo - 1) * limit < Half
      BY <1>3, <1>4, <1>7
    <3>4. /\ page.unmet \subseteq Ids(users)
          /\ \A u \in users : u.id \in page.unmet /\ ~SharesItsTime(u.id) =>
                (pageNo - 1) * limit <= Cardinality(Newer(u))
      BY <3>2, <3>3 DEF PagesInv, Walked
    <3>5. ASSUME NEW u \in users, u.id \in unmet, ~SharesItsTime(u.id)
          PROVE  pageNo * limit <= Cardinality(Newer(u))
      <4>1. /\ Cardinality(Newer(u)) \in Nat /\ rank[u] \in Nat
            /\ rank[u] - 1 <= Cardinality(Newer(u))
        BY <3>5, RankIsAfterNewer DEF TypeOK
      <4>2. u \notin W /\ u.id \in page.unmet
        BY <3>1, <3>5 DEF Ids
      <4>3. Cardinality(Newer(u)) < rank[u]
        BY <3>5, NewerPrecede DEF TypeOK
      <4>4. rank[u] > offset
        BY <1>4, <1>5, <1>7, <3>4, <3>5, <4>1, <4>2, <4>3
      <4>5. rank[u] > offset + limit
        <5>1. ~(rank[u] <= offset + limit)
          BY <4>2, <4>4 DEF Window
        <5> QED
          BY <5>1, <4>1, <1>3, <1>4, <1>5, <1>7
      <4> QED
        BY <1>3, <1>4, <1>5, <1>7, <4>1, <4>5
    <3> QED
      BY <3>1, <3>4, <3>5
  <2> QED
    BY <2>1, <2>2
<1>8. page' = [pc |-> "listed", limit |-> limit, pageNo |-> pageNo,
               count |-> Cardinality(W), unmet |-> unmet]
  BY <1>1
<1> HIDE DEF W, unmet, offset
<1>9. Walked'
  <2>1. \A u : Newer(u)' = Newer(u) /\ SharesItsTime(u.id)' = SharesItsTime(u.id)
    BY <1>2 DEF Newer, SharesItsTime
  <2> QED
    BY <1>2, <1>6, <1>7, <1>8, <2>1 DEF Walked
<1> QED
  BY <1>8, <1>9 DEF PagesInv, PagesFitTheCount, WalkMeetsEveryone

LEMMA CountKeepsPages ==
    ASSUME TypeOK, IsFiniteSet(users), PagesInv, CountUsers
    PROVE  PagesInv'
<1> DEFINE total == Cardinality(users)
<1>1. /\ page.pc = "listed" /\ UNCHANGED users
      /\ page' = [pc |-> "answered", limit |-> page.limit,
                  pageNo |-> page.pageNo, count |-> page.count,
                  unmet |-> page.unmet, totalCount |-> Wrap(total),
                  totalPages |-> TotalPages(Wrap(total), page.limit)]
  BY DEF CountUsers
<1>2. /\ page.limit \in Nat \ {0} /\ page.pageNo \in Nat \ {0}
      /\ page.limit \in 1 .. Half - 1 /\ Half \in Nat /\ page.count \in Nat
      /\ total \in Nat
  BY <1>1, PageFacts, FS_CardinalityType DEF TypeOK
<1>3. /\ page.pageNo * page.limit \in Nat
      /\ (page.pageNo - 1) * page.limit \in Nat
      /\ (page.pageNo - 1) * page.limit + page.limit = page.pageNo * page.limit
  BY <1>2, PageArithmetic
<1>4. \A u : Newer(u)' = Newer(u) /\ SharesItsTime(u)' = SharesItsTime(u)
  BY <1>1 DEF Newer, SharesItsTime
<1>5. Walked'
  <2>1. \A u : SharesItsTime(u.id)' = SharesItsTime(u.id)
    BY <1>4
  <2> QED
    BY <1>1, <1>4, <2>1 DEF PagesInv, Walked
<1>6. ASSUME InRange'
      PROVE  /\ page.pageNo * page.limit < Half /\ total + page.limit <= Half
             /\ Wrap(total) = total
             /\ (page.count > 0 =>
                   (page.pageNo - 1) * page.limit + page.count <= total)
  <2>1. page.pageNo * page.limit < Half /\ total + page.limit <= Half
    BY <1>1, <1>6 DEF InRange
  <2>2. Wrap(total) = total
    BY <1>2, <2>1, WrapInRange
  <2> QED
    BY <1>1, <2>1, <2>2 DEF PagesInv, Walked
<1>7. ASSUME InRange', page.count > 0
      PROVE  page.pageNo <= TotalPages(total, page.limit)
  <2>1. total > (page.pageNo - 1) * page.limit
    BY <1>2, <1>3, <1>6, <1>7
  <2>2. TotalPages(total, page.limit) > page.pageNo - 1
    BY <1>2, <1>6, <1>7, <2>1, PagesRoundUp
  <2>3. TotalPages(total, page.limit) \in Int
    BY <1>2, <1>6, <1>7, TotalPagesType
  <2> QED
    BY <1>2, <2>2, <2>3
<1>8. PagesFitTheCount'
  BY <1>1, <1>6, <1>7 DEF PagesFitTheCount
<1>9. ASSUME InRange', page.unmet # None,
             page.pageNo >= TotalPages(total, page.limit),
             NEW i \in page.unmet
      PROVE  SharesItsTime(i)
  <2> SUFFICES ASSUME ~SharesItsTime(i)
               PROVE  FALSE
    OBVIOUS
  <2>1. PICK u \in users : u.id = i
    BY <1>1, <1>6, <1>9 DEF PagesInv, Walked, Ids
  <2>2. page.pageNo * page.limit <= Cardinality(Newer(u))
    BY <1>1, <1>6, <1>9, <2>1 DEF PagesInv, Walked
  <2>3. total > page.pageNo * page.limit
    <3>1. Cardinality(Newer(u)) \in Nat /\ Cardinality(Newer(u)) < total
      BY <2>1, NewerIsLess DEF TypeOK
    <3> QED
      BY <1>2, <1>3, <2>2, <3>1
  <2>4. TotalPages(total, page.limit) > page.pageNo
    BY <1>2, <1>6, <1>9, <2>3, PagesRoundUp
  <2>5. TotalPages(total, page.limit) \in Int
    BY <1>2, <1>6, <1>9, TotalPagesType
  <2> QED
    BY <1>2, <1>9, <2>4, <2>5
<1>10. WalkMeetsEveryone'
  <2> SUFFICES ASSUME InRange', page'.unmet # None,
                      page'.pageNo >= page'.totalPages, NEW i \in page'.unmet
               PROVE  SharesItsTime(i)'
    BY DEF WalkMeetsEveryone
  <2>1. page'.totalPages = TotalPages(total, page.limit)
    BY <1>1, <1>6
  <2> QED
    BY <1>1, <1>4, <1>9, <2>1
<1> QED
  BY <1>5, <1>8, <1>10 DEF PagesInv

LEMMA NextPages ==
    ASSUME TypeOK, IsFiniteSet(users), AccountsInv, PagesInv, [Next]_vars
    PROVE  PagesInv'
<1>1. CASE UNCHANGED page
  BY <1>1, StepsGrow, GrowthKeepsPages
<1>2. CASE GetUsers
  <2>1. 10 \in 1 .. Half - 1 /\ 1 \in 1 .. Half - 1
    BY ConstantsAssumption
  <2>2. PICK limit \in 1 .. Half - 1, pageNo \in 1 .. Half - 1 :
            ListUsers(limit, pageNo)
    BY <1>2, <2>1, UseType DEF GetUsers
  <2> QED
    BY <2>2, ListKeepsPages DEF AccountsInv
<1>3. CASE CountUsers
  BY <1>3, CountKeepsPages
<1>4. CASE AbandonPage
  BY <1>4 DEF AbandonPage, NoPage, PagesInv, Walked, PagesFitTheCount,
     WalkMeetsEveryone
<1> QED
  BY <1>1, <1>2, <1>3, <1>4 DEF Next, vars, LookUp, StartCreateAdmin,
     InsertUser, AnswerRegistration, Abort, Login

-----------------------------------------------------------------------------
(* The theorems.                                                           *)

\* The inductive invariant holds in every reachable state: types, accounts,
\* and pages that keep up with the rows.
THEOREM Invariance == Spec => []IndInv
<1>1. Init => IndInv
  BY InitTypes, InitAccounts, InitPages DEF IndInv, AccountsInv, PagesInv
<1>2. IndInv /\ [Next]_vars => IndInv'
  <2> SUFFICES ASSUME IndInv, [Next]_vars
               PROVE  IndInv'
    OBVIOUS
  <2>1. TypeOK /\ IsFiniteSet(users) /\ AccountsInv /\ PagesInv
    BY DEF IndInv, AccountsInv, PagesInv
  <2>2. (TypeOK /\ IsFiniteSet(users))' /\ AccountsInv' /\ PagesInv'
    BY <2>1, NextTypes, NextAccounts, NextPages
  <2> QED
    BY <2>2 DEF IndInv, AccountsInv, PagesInv
<1> QED
  BY <1>1, <1>2, PTL DEF Spec

\* The table, the registrations, the tokens and the page keep their types,
\* whatever numbers clients ask for.
THEOREM AccountTypesCorrect == Spec => []TypeOK
BY Invariance, PTL DEF IndInv

\* However many registrations find an address free, it gets one account.
THEOREM EmailsAreUnique == Spec => []OneAccountPerEmail
BY Invariance, PTL DEF IndInv

\* A registration that was answered is never undone or overwritten.
THEOREM RegistrationsStand == Spec => []AnsweredAccountsStand
BY Invariance, PTL DEF IndInv

\* Every token is for an account that exists, with its role.
THEOREM TokensAreBacked == Spec => []TokensNameAccounts
BY Invariance, PTL DEF IndInv

\* The list and the count of an answer agree, whoever registers in between.
THEOREM PagesAlwaysFit == Spec => []PagesFitTheCount
BY Invariance, PTL DEF IndInv

\* A walk through the pages meets everybody who was there when it started and
\* whose created_at is unique.
THEOREM WalksMeetEveryone == Spec => []WalkMeetsEveryone
BY Invariance, PTL DEF IndInv
=============================================================================
