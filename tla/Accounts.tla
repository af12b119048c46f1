------------------------------ MODULE Accounts ------------------------------
(***************************************************************************)
(* Accounts, sessions and the administrator's list of users                *)
(* (user.resolvers.go, admin.resolvers.go, auth/jwt.go).                   *)
(*                                                                         *)
(* A registration looks for the address, hashes the password and inserts   *)
(* the row, with other registrations between any two of these steps.  A    *)
(* session is a signed token that the client keeps; nothing is stored for  *)
(* it.  A page of users is two statements, the list and then the count,    *)
(* and the client walks from page to page while users are added.           *)
(*                                                                         *)
(* Page numbers are int32 in the code; here they are as wide as Half says. *)
(* NOW() of an INSERT is taken when its statement begins, and a statement   *)
(* may wait: rows appear in any order of their created_at, which may also  *)
(* be the same, and the model lets created_at be any time.                 *)
(***************************************************************************)
EXTENDS Integers, FiniteSets

CONSTANTS
    UserId, Email, Password,
    UserAccounts, AdminAccounts, \* what clients register, and as what
    Request,   \* the registrations that run at the same time
    Half,      \* an int32 is at least -Half and less than Half
    MaxTime,   \* bounds created_at
    Limits, PageNos, \* what clients ask for
    None       \* an argument that is left out

Int32 == -Half .. Half - 1
Account == [email : Email, password : Password]

ASSUME ConstantsAssumption ==
    /\ UserAccounts \cup AdminAccounts \subseteq Account
    /\ Half \in Nat /\ Half > 10
    /\ MaxTime \in Nat
    /\ Limits \cup PageNos \subseteq Int32 \cup {None}
    /\ None \notin Int32

VARIABLES
    users,      \* the table users
    requests,   \* the registration of each member of Request
    tokens,     \* the tokens that were handed out and not lost on the way
    registered, \* history variable: what clients were told they registered
    page        \* the page of users that is asked for, or was answered last

vars == <<users, requests, tokens, registered, page>>

Roles == {"user", "admin"}
Time == 0 .. MaxTime
Row == [id : UserId, email : Email, password : Password, role : Roles,
        created : Time]
Token == [user : UserId, role : Roles]

-----------------------------------------------------------------------------
Idle == [pc |-> "idle"]
Registration ==
    {Idle}
      \cup [pc : {"hashing"}, account : Account, role : Roles]
      \cup [pc : {"inserted"}, account : Account, role : Roles, user : UserId]

NoPage == [pc |-> "none"]

Init ==
    /\ users = {}
    /\ requests = [r \in Request |-> Idle]
    /\ tokens = {}
    /\ registered = {}
    /\ page = NoPage

Go(r, state) == requests' = [requests EXCEPT ![r] = state]

Taken(email) == \E u \in users : u.email = email

\* RegisterUser: nobody has the address.  Otherwise it is refused.
LookUp(r) ==
    /\ requests[r] = Idle
    /\ \E a \in UserAccounts :
        /\ ~Taken(a.email)
        /\ Go(r, [pc |-> "hashing", account |-> a, role |-> "user"])
    /\ UNCHANGED <<users, tokens, registered, page>>

\* CreateAdminUser does not look.
StartCreateAdmin(r) ==
    /\ requests[r] = Idle
    /\ \E a \in AdminAccounts :
        Go(r, [pc |-> "hashing", account |-> a, role |-> "admin"])
    /\ UNCHANGED <<users, tokens, registered, page>>

NewRows(r, i) ==
    {[id |-> i, email |-> requests[r].account.email,
      password |-> requests[r].account.password, role |-> requests[r].role,
      created |-> time] : time \in Time}

Inserted(r, i) ==
    Go(r, [pc |-> "inserted", account |-> requests[r].account,
           role |-> requests[r].role, user |-> i])

IsFresh(i) == \A u \in users : u.id # i

\* Mutant: nothing but the lookup keeps addresses apart.
InsertWithoutUnique(r) ==
    /\ requests[r].pc = "hashing"
    /\ \E i \in UserId : \E row \in NewRows(r, i) :
        /\ IsFresh(i)
        /\ users' = users \cup {row}
        /\ Inserted(r, i)
    /\ UNCHANGED <<tokens, registered, page>>

\* Mutant: ON CONFLICT (email) DO UPDATE.
InsertOrUpdate(r) ==
    /\ requests[r].pc = "hashing"
    /\ \E i \in UserId : \E row \in NewRows(r, i) :
        /\ IF Taken(requests[r].account.email)
           THEN \E u \in users :
                    u.id = i /\ u.email = requests[r].account.email
           ELSE IsFresh(i)
        /\ users' = {u \in users : u.id # i} \cup {row}
        /\ Inserted(r, i)
    /\ UNCHANGED <<tokens, registered, page>>

\* Mutant: the token is made of the id before the row is there.
InsertAfterToken(r) ==
    /\ requests[r].pc = "hashing"
    /\ \E i \in UserId : \E row \in NewRows(r, i) :
        /\ IsFresh(i)
        /\ tokens' = tokens \cup {[user |-> i, role |-> requests[r].role]}
        /\ IF Taken(requests[r].account.email)
           THEN Go(r, Idle) /\ UNCHANGED users
           ELSE users' = users \cup {row} /\ Inserted(r, i)
    /\ UNCHANGED <<registered, page>>

\* CreateUser, CreateAdmin: email is UNIQUE, the id is a new UUID.
InsertUser(r) ==
    /\ requests[r].pc = "hashing"
    /\ IF Taken(requests[r].account.email)
       THEN Go(r, Idle) /\ UNCHANGED users
       ELSE \E i \in UserId : \E row \in NewRows(r, i) :
                /\ IsFresh(i)
                /\ users' = users \cup {row}
                /\ Inserted(r, i)
    /\ UNCHANGED <<tokens, registered, page>>

\* RegisterUser answers with a token, CreateAdminUser with the id.
AnswerRegistration(r) ==
    /\ requests[r].pc = "inserted"
    /\ registered' = registered \cup {requests[r].account}
    /\ tokens' =
         IF requests[r].role = "user"
         THEN tokens \cup {[user |-> requests[r].user, role |-> "user"]}
         ELSE tokens
    /\ Go(r, Idle)
    /\ UNCHANGED <<users, page>>

\* An error, a cancelled context or a crash, at any point; or the client does
\* not see the answer.
Abort(r) ==
    /\ requests[r] # Idle
    /\ Go(r, Idle)
    /\ UNCHANGED <<users, tokens, registered, page>>

\* One statement; the role in the token is that of the row.
Login ==
    /\ \E u \in users :
        tokens' = tokens \cup {[user |-> u.id, role |-> u.role]}
    /\ UNCHANGED <<users, requests, registered, page>>

-----------------------------------------------------------------------------
(* GetUsers.                                                               *)

\* Arithmetic of int32.
Wrap(x) == ((x + Half) % (2 * Half)) - Half

\* Division truncates toward zero.
Quotient(a, b) == IF a < 0 THEN -((-a) \div b) ELSE a \div b

\* Mutant: any number will do.
UseAny(argument, default) == IF argument # None THEN argument ELSE default

Use(argument, default) ==
    IF argument # None /\ argument > 0 THEN argument ELSE default

Offset(limit, pageNo) == Wrap((pageNo - 1) * limit)

\* Mutant: a last page that is not full does not count.
FullPages(total, limit) == Quotient(total, limit)

TotalPages(total, limit) == Quotient(Wrap(total + limit - 1), limit)

\* ORDER BY created_at DESC leaves it to the database how rows of the same
\* created_at are ordered.
Ranks ==
    {rank \in [users -> 1 .. Cardinality(users)] :
        \A u, v \in users :
            /\ rank[u] = rank[v] => u = v
            /\ u.created > v.created => rank[u] < rank[v]}

Window(rank, offset, limit) ==
    {u \in users : offset < rank[u] /\ rank[u] <= offset + limit}

Ids(rows) == {u.id : u \in rows}

\* The client goes on from the page it was answered last.
NextPage(limit, pageNo) ==
    /\ page.pc = "answered" /\ page.unmet # None
    /\ page.limit = limit /\ page.pageNo = pageNo - 1

\* page.unmet: the users who were there when the client asked for its first
\* page and whom it has not met on any page up to this one; None if it has not
\* walked page by page.
Unmet(limit, pageNo, met) ==
    IF pageNo = 1 THEN Ids(users) \ met
    ELSE IF NextPage(limit, pageNo) THEN page.unmet \ met ELSE None

IsAdmin == \E t \in tokens : t.role = "admin"

\* The first statement.  A negative OFFSET is an error of the database.
ListUsers(limit, pageNo) ==
    /\ page.pc # "listed"
    /\ IsAdmin
    /\ Offset(limit, pageNo) >= 0
    /\ \E rank \in Ranks :
        LET listed == Window(rank, Offset(limit, pageNo), limit)
        IN  page' = [pc |-> "listed", limit |-> limit, pageNo |-> pageNo,
                     count |-> Cardinality(listed),
                     unmet |-> Unmet(limit, pageNo, Ids(listed))]
    /\ UNCHANGED <<users, requests, tokens, registered>>

\* Mutant: the count is taken first, and then the list.
CountFirst(limit, pageNo) ==
    /\ page.pc # "counted"
    /\ IsAdmin
    /\ Offset(limit, pageNo) >= 0
    /\ page' = [pc |-> "counted", limit |-> limit, pageNo |-> pageNo,
                unmet |-> Unmet(limit, pageNo, {}),
                totalCount |-> Wrap(Cardinality(users)),
                totalPages |-> TotalPages(Wrap(Cardinality(users)), limit)]
    /\ UNCHANGED <<users, requests, tokens, registered>>
ListLast ==
    /\ page.pc = "counted"
    /\ \E rank \in Ranks :
        LET listed == Window(rank, Offset(page.limit, page.pageNo), page.limit)
        IN  page' = [pc |-> "answered", limit |-> page.limit,
                     pageNo |-> page.pageNo, count |-> Cardinality(listed),
                     unmet |-> IF page.unmet = None THEN None
                               ELSE page.unmet \ Ids(listed),
                     totalCount |-> page.totalCount,
                     totalPages |-> page.totalPages]
    /\ UNCHANGED <<users, requests, tokens, registered>>
GetUsersCountingFirst ==
    \/ \E limit \in Limits, pageNo \in PageNos :
        CountFirst(Use(limit, 10), Use(pageNo, 1))
    \/ ListLast

GetUsers ==
    \E limit \in Limits, pageNo \in PageNos :
        ListUsers(Use(limit, 10), Use(pageNo, 1))

\* The second statement, and the answer.
CountUsers ==
    /\ page.pc = "listed"
    /\ page' = [pc |-> "answered", limit |-> page.limit, pageNo |-> page.pageNo,
                count |-> page.count, unmet |-> page.unmet,
                totalCount |-> Wrap(Cardinality(users)),
                totalPages |-> TotalPages(Wrap(Cardinality(users)), page.limit)]
    /\ UNCHANGED <<users, requests, tokens, registered>>

\* One of the statements fails, or the client goes away.
AbandonPage ==
    /\ page.pc # "none"
    /\ page' = NoPage
    /\ UNCHANGED <<users, requests, tokens, registered>>

Next ==
    \/ \E r \in Request :
        \/ LookUp(r) \/ StartCreateAdmin(r) \/ InsertUser(r)
        \/ AnswerRegistration(r) \/ Abort(r)
    \/ Login
    \/ GetUsers \/ CountUsers \/ AbandonPage

Spec == Init /\ [][Next]_vars

-----------------------------------------------------------------------------
TypeOK ==
    /\ users \subseteq Row
    /\ requests \in [Request -> Registration]
    /\ tokens \subseteq Token
    /\ registered \subseteq Account
    /\ page.pc \in {"none", "listed", "answered"}
    /\ page.pc # "none" =>
        /\ page.limit \in 1 .. Half - 1 /\ page.pageNo \in 1 .. Half - 1
        /\ page.count \in Nat
        /\ page.unmet = None \/ page.unmet \subseteq UserId
    /\ page.pc = "answered" => page.totalCount \in Int32 /\ page.totalPages \in Int32

\* Registrations that all find the address free leave one account behind, and
\* an account is one row (RegisterUser, CreateAdminUser).
OneAccountPerEmail ==
    \A u, v \in users : u.email = v.email \/ u.id = v.id => u = v

\* Who was told that an account was registered can log in to it with that
\* password, whatever others register later or at the same time.
AnsweredAccountsStand ==
    \A a \in registered :
        \E u \in users : u.email = a.email /\ u.password = a.password

\* A token is the only record of a session.  It names an account that exists
\* and has the role that the token claims (GenerateToken, Me, HasRole).
TokensNameAccounts ==
    \A t \in tokens : \E u \in users : u.id = t.user /\ u.role = t.role

\* The numbers of the page and of the users are within int32.
InRange ==
    /\ page.pageNo * page.limit < Half
    /\ Cardinality(users) + page.limit <= Half

\* An answer agrees with itself, though users are added between its two
\* statements: who is listed is counted, and the page is one of the pages.
PagesFitTheCount ==
    page.pc = "answered" /\ InRange /\ page.count > 0 =>
        /\ (page.pageNo - 1) * page.limit + page.count <= page.totalCount
        /\ page.pageNo <= page.totalPages

SharesItsTime(i) ==
    \E u, v \in users : u.id = i /\ v.id # i /\ u.created = v.created

\* An administrator who starts on the first page and goes on until the page
\* number reaches the number of pages has met every user that was there at the
\* start, though each page is a statement of its own and new users push the
\* others back.  Users of the same created_at have no fixed order: those may be
\* missed.
WalkMeetsEveryone ==
    page.pc = "answered" /\ InRange /\ page.unmet # None
        /\ page.pageNo >= page.totalPages
            => \A i \in page.unmet : SharesItsTime(i)

-----------------------------------------------------------------------------
\* What an INSERT has made stays until the answer.
InsertedStand ==
    \A r \in Request : requests[r].pc = "inserted" =>
        \E u \in users :
            /\ u.id = requests[r].user /\ u.role = requests[r].role
            /\ u.email = requests[r].account.email
            /\ u.password = requests[r].account.password

Newer(u) == {v \in users : v.created > u.created}

\* A page lists rows that are there; and whom the walk has not met is behind
\* all the rows of the pages so far.
Walked ==
    page.pc # "none" /\ page.pageNo * page.limit < Half =>
        /\ page.count > 0 =>
             (page.pageNo - 1) * page.limit + page.count <= Cardinality(users)
        /\ page.unmet # None =>
             /\ page.unmet \subseteq Ids(users)
             /\ \A u \in users :
                 u.id \in page.unmet /\ ~SharesItsTime(u.id) =>
                    page.pageNo * page.limit <= Cardinality(Newer(u))

\* The inductive invariant.
IndInv ==
    /\ TypeOK /\ IsFiniteSet(users)
    /\ OneAccountPerEmail /\ InsertedStand
    /\ AnsweredAccountsStand /\ TokensNameAccounts
    /\ Walked /\ PagesFitTheCount /\ WalkMeetsEveryone
=============================================================================
