CONSTANTS
    Hash = {h1}
    FileId = {f1}
    Folder = {d1, d2}
    d1 = d1
    d2 = d2
    Within <- Nested
    Request = {r1, r2}
    Root = Root
    None = None
SPECIFICATION FairSpec
PROPERTIES
    RequestsFinish
    CondemnedIsCollected
