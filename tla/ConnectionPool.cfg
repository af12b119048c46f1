CONSTANTS
    Connections = 2
    MaxUploads = 2
    Request = {r1, r2}
    h1 = h1
    h2 = h2
    d1 = d1
    n1 = n1
    root = root
    Roots = {root}
    Hash = {h1, h2}
    Place = {root, d1}
    Name = {n1}
    Lists <- MCLists
    MaxFiles = 2
    None = None
SPECIFICATION FairUploadsSpec
INVARIANTS
    TypeOK
    ConnectionsAccountedFor
    AnswersAreTrue
    RetriesAddNoFile
PROPERTIES
    ServedUnlessDry
    ListsAreFinished
