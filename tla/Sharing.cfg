CONSTANTS
    d1 = d1
    d2 = d2
    f1 = f1
    alice = alice
    bob = bob
    File = {f1}
    Folder = {d1, d2}
    Within <- Nested
    Home <- InnerHome
    User = {alice, bob}
    OwnerOf <- Owners
    Token = {t1, t2}
    ShareId = {s1, s2}
    Request = {r1, r2}
    Root = Root
    Nobody = Nobody
    None = None
SYMMETRY Interchangeable
SPECIFICATION Spec
INVARIANTS
    TypeOK
    SharesResolve
    AnswersWereAllowed
    IndInv
PROPERTY
    UnshareIsComplete
CHECK_DEADLOCK FALSE
