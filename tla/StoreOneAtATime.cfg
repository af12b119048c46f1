CONSTANTS
    Hash = {h1, h2}
    FileId = {f1, f2, f3}
    Folder = {d1, d2}
    d1 = d1
    d2 = d2
    Within <- Nested
    Request = {r1}
    Root = Root
    None = None
SYMMETRY Interchangeable
SPECIFICATION SpecWithoutFailure
INVARIANT KeptIsReferenced
