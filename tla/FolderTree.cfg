CONSTANTS
    FolderId = {a, b, c}
    Request = {r1, r2}
    Root = Root
    None = None
CHECK_DEADLOCK FALSE
SPECIFICATION FairSpec
INVARIANTS
    TypeOK
    PathsFollowParents
PROPERTIES
    DeletesExactlyTheSubtree
    ImplementsHierarchy
    RequestsFinish
