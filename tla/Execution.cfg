CONSTANTS
    MaxDepth = 5
    Position <- MCPosition
    Root <- MCRoot
    Parent <- MCParent
    Below <- MCBelow
    Kind <- MCKind
    NonNull <- MCNonNull
    Nilable <- MCNilable
    Resolved <- MCResolved
    Parsed <- MCParsed
    Guard <- MCGuard
    Before <- MCBefore
    InSequence <- MCInSequence
    Restricted <- MCRestricted
    Operations <- MCOperations
    Requester <- MCRequester
SPECIFICATION FairSpec
INVARIANTS
    TypeOK
    NullsPropagate
    NullsAreExplained
    MutationsInSequence
    AdministrationIsForAdmins
PROPERTIES
    OperationsAreAnswered
    ImplementsResponse
CHECK_DEADLOCK FALSE
