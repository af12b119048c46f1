CONSTANTS
    Connections = 1
    MaxUploads = 2
    Request = {r1, r2}
SPECIFICATION FairSpec
PROPERTY WaitersAreServed
