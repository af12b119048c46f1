CONSTANTS
    Hash = {h1}
    FileId = {f1, f2}
    Folder = {d1}
    d1 = d1
    d2 = d2
    Within <- OneFolder
    Request = {r1, r2}
    Root = Root
    None = None
SYMMETRY Interchangeable
SPECIFICATION SpecWithoutFailure
INVARIANT KeptIsReferenced
