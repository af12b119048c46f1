CONSTANTS
    UserId = {u1, u2, u3}
    e1 = e1
    e2 = e2
    e3 = e3
    p1 = p1
    p2 = p2
    Email = {e1, e2, e3}
    Password = {p1, p2}
    UserAccounts <- MCUserAccounts
    AdminAccounts <- MCAdminAccounts
    Request = {r1, r2}
    Half = 12
    MaxTime = 1
    Limits <- MCLimits
    PageNos <- MCPageNos
    None = None
SYMMETRY Interchangeable
SPECIFICATION Spec
INVARIANTS
    TypeOK
    OneAccountPerEmail
    AnsweredAccountsStand
    TokensNameAccounts
    PagesFitTheCount
    WalkMeetsEveryone
