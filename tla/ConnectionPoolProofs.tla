------------------------ MODULE ConnectionPoolProofs ------------------------
(***************************************************************************)
(* Theorems about ConnectionPool, for every size of the pool, every number *)
(* of requests and every length of the lists they send.                    *)
(***************************************************************************)
EXTENDS ConnectionPool, FiniteSetTheorems, TLAPS

-----------------------------------------------------------------------------
(* How one request changes the set of those who hold a connection.         *)

\* The counts and the states, without the bounds that follow from accounting.
Counts ==
    /\ idle \in Nat /\ lost \in Nat
    /\ requests \in [Request -> RequestState]

\* The inductive invariant.
IndInv == Counts /\ ConnectionsAccountedFor

LEMMA HoldersAreFinite == IsFiniteSet(Holders) /\ Cardinality(Holders) \in Nat
<1>1. Holders \subseteq Request
  BY DEF Holders
<1> QED
  BY <1>1, RequestAssumption, FS_Subset, FS_CardinalityType

LEMMA BeginHolding ==
    ASSUME NEW r \in Request, r \notin Holders, Holders' = Holders \cup {r}
    PROVE  Cardinality(Holders') = Cardinality(Holders) + 1
BY HoldersAreFinite, FS_AddElement

LEMMA EndHolding ==
    ASSUME NEW r \in Request, r \in Holders, Holders' = Holders \ {r}
    PROVE  Cardinality(Holders') = Cardinality(Holders) - 1
BY HoldersAreFinite, FS_RemoveElement

\* What a request does next decides whether it holds a connection.
LEMMA HoldersAfterStep ==
    ASSUME requests \in [Request -> RequestState],
           NEW r \in Request, NEW state \in RequestState,
           requests' = [requests EXCEPT ![r] = state]
    PROVE  /\ requests' \in [Request -> RequestState]
           /\ state.pc \in Holding => Holders' = Holders \cup {r}
           /\ state.pc \notin Holding => Holders' = Holders \ {r}
<1>1. requests' \in [Request -> RequestState]
  OBVIOUS
<1>2. \A q \in Request : requests'[q] = IF q = r THEN state ELSE requests[q]
  OBVIOUS
<1> QED
  BY <1>1, <1>2 DEF Holders

LEMMA DoneIsIdle == Done \in RequestState /\ Done.pc \notin Holding
BY MaxUploadsAssumption DEF RequestState, Done, Waiting, Holding

LEMMA StateAfterGo ==
    ASSUME requests \in [Request -> RequestState], NEW r \in Request,
           NEW pc \in {"done"} \cup Waiting \cup Holding, Go(r, pc)
    PROVE  \E state \in RequestState :
               /\ requests' = [requests EXCEPT ![r] = state]
               /\ state.pc = pc /\ state.left = requests[r].left
<1> DEFINE state == requests'[r]
<1>1. state = [requests[r] EXCEPT !.pc = pc]
  BY DEF Go
<1>2. requests' = [requests EXCEPT ![r] = state]
  BY DEF Go
<1>3. requests[r] \in RequestState
  OBVIOUS
<1>4. /\ state \in RequestState /\ state.pc = pc
      /\ state.left = requests[r].left
  BY <1>1, <1>3 DEF RequestState
<1> QED
  BY <1>2, <1>4

\* A request that goes on without a connection, or keeps the one it has.
LEMMA KeepsConnections ==
    ASSUME IndInv, NEW r \in Request, NEW state \in RequestState,
           requests' = [requests EXCEPT ![r] = state],
           state.pc \in Holding <=> requests[r].pc \in Holding,
           UNCHANGED <<idle, lost>>
    PROVE  IndInv'
<1>1. requests' \in [Request -> RequestState] /\ Holders' = Holders
  BY HoldersAfterStep DEF IndInv, Counts, Holders
<1> QED
  BY <1>1 DEF IndInv, Counts, ConnectionsAccountedFor

LEMMA TakesConnection ==
    ASSUME IndInv, NEW r \in Request, NEW state \in RequestState,
           requests' = [requests EXCEPT ![r] = state],
           state.pc \in Holding, requests[r].pc \notin Holding,
           Acquire, UNCHANGED lost
    PROVE  IndInv'
<1>1. requests' \in [Request -> RequestState] /\ Holders' = Holders \cup {r}
  BY HoldersAfterStep DEF IndInv, Counts
<1>2. Cardinality(Holders') = Cardinality(Holders) + 1
  BY <1>1, BeginHolding DEF Holders
<1> QED
  BY <1>1, <1>2, HoldersAreFinite, ConnectionsAssumption
  DEF IndInv, Counts, ConnectionsAccountedFor, Acquire

\* The connection goes back to the pool, or is lost.
LEMMA GivesConnectionUp ==
    ASSUME IndInv, NEW r \in Request, NEW state \in RequestState,
           requests' = [requests EXCEPT ![r] = state],
           state.pc \notin Holding, requests[r].pc \in Holding,
           \/ idle' = idle + 1 /\ lost' = lost
           \/ idle' = idle /\ lost' = lost + 1
    PROVE  IndInv'
<1>1. requests' \in [Request -> RequestState] /\ Holders' = Holders \ {r}
  BY HoldersAfterStep DEF IndInv, Counts
<1>2. Cardinality(Holders') = Cardinality(Holders) - 1
  BY <1>1, EndHolding DEF Holders
<1> QED
  BY <1>1, <1>2, HoldersAreFinite, ConnectionsAssumption
  DEF IndInv, Counts, ConnectionsAccountedFor

\* After an upload comes another one, or the answer.
LEMMA NextUploadState ==
    ASSUME requests \in [Request -> RequestState], NEW r \in Request,
           NextUpload(r)
    PROVE  \E state \in RequestState :
               /\ requests' = [requests EXCEPT ![r] = state]
               /\ state.pc \notin Holding
               /\ state.pc \in {"upload", "done"}
               /\ state.pc = "upload" =>
                    requests[r].left > 1 /\ state.left = requests[r].left - 1
<1> DEFINE state == IF requests[r].left > 1
                    THEN [pc |-> "upload", left |-> requests[r].left - 1]
                    ELSE Done
<1>1. /\ state \in RequestState /\ state.pc \notin Holding
      /\ state.pc \in {"upload", "done"}
      /\ state.pc = "upload" =>
           requests[r].left > 1 /\ state.left = requests[r].left - 1
  BY MaxUploadsAssumption DEF RequestState, Done, Waiting, Holding
<1>2. requests' = [requests EXCEPT ![r] = state]
  BY DEF NextUpload
<1> QED
  BY <1>1, <1>2

-----------------------------------------------------------------------------
LEMMA InitEstablishesInvariant == Init => IndInv
<1> SUFFICES ASSUME Init PROVE IndInv
  OBVIOUS
<1>1. Counts
  BY ConnectionsAssumption, MaxUploadsAssumption DEF Init, Counts, RequestState, Done
<1>2. Holders = {}
  BY DEF Init, Holders, Done, Holding
<1> QED
  BY <1>1, <1>2, FS_EmptySet, ConnectionsAssumption DEF Init, IndInv, ConnectionsAccountedFor

LEMMA StartKeepsInvariant ==
    ASSUME IndInv, NEW r \in Request, Start(r)
    PROVE  IndInv'
<1>1. requests \in [Request -> RequestState]
  BY DEF IndInv, Counts
<1>2. CASE Query(r)
  BY <1>1, <1>2, StateAfterGo, KeepsConnections DEF Query, Done, Waiting, Holding
<1>3. CASE ConfirmUploads(r)
  <2>1. PICK n \in 1 .. MaxUploads :
          requests' = [requests EXCEPT ![r] = [pc |-> "upload", left |-> n]]
    BY <1>3 DEF ConfirmUploads
  <2>2. [pc |-> "upload", left |-> n] \in RequestState
    BY MaxUploadsAssumption DEF RequestState, Waiting
  <2>3. [pc |-> "upload", left |-> n].pc \notin Holding
    BY DEF Holding
  <2>4. requests[r].pc \notin Holding /\ UNCHANGED <<idle, lost>>
    BY <1>3, DoneIsIdle DEF ConfirmUploads
  <2> QED
    BY <2>1, <2>2, <2>3, <2>4, KeepsConnections
<1>4. CASE DeleteFolder(r)
  BY <1>1, <1>4, StateAfterGo, KeepsConnections DEF DeleteFolder, Done, Waiting, Holding
<1> QED
  BY <1>2, <1>3, <1>4 DEF Start

LEMMA ContinueKeepsInvariant ==
    ASSUME IndInv, NEW r \in Request, Continue(r)
    PROVE  IndInv'
<1>1. requests \in [Request -> RequestState]
  BY DEF IndInv, Counts
<1>2. CASE RunStatement(r)
  BY <1>1, <1>2, StateAfterGo, TakesConnection DEF RunStatement, Waiting, Holding
<1>3. CASE EndStatement(r)
  <2>1. Go(r, "query") \/ Go(r, "done")
    BY <1>3 DEF EndStatement
  <2>2. ASSUME NEW pc \in {"query", "done"}, Go(r, pc) PROVE IndInv'
    BY <1>1, <1>3, <2>2, StateAfterGo, GivesConnectionUp
    DEF EndStatement, Release, Waiting, Holding
  <2> QED
    BY <2>1, <2>2
<1>4. CASE BeginUpload(r)
  BY <1>1, <1>4, StateAfterGo, TakesConnection DEF BeginUpload, Waiting, Holding
<1>5. CASE UploadVerified(r)
  BY <1>1, <1>5, StateAfterGo, KeepsConnections DEF UploadVerified, Waiting, Holding
<1>6. CASE EndUpload(r)
  BY <1>1, <1>6, NextUploadState, GivesConnectionUp DEF EndUpload, Release, Holding
<1>7. CASE CommitFails(r)
  BY <1>7, DoneIsIdle, GivesConnectionUp DEF CommitFails, Release, Holding
<1>8. CASE BeginDelete(r)
  BY <1>1, <1>8, StateAfterGo, TakesConnection DEF BeginDelete, Waiting, Holding
<1>9. CASE EndDelete(r)
  BY <1>1, <1>9, StateAfterGo, GivesConnectionUp DEF EndDelete, Release, Waiting, Holding
<1> QED
  BY <1>2, <1>3, <1>4, <1>5, <1>6, <1>7, <1>8, <1>9 DEF Continue

LEMMA StepKeepsInvariant == IndInv /\ [Next]_vars => IndInv'
<1> SUFFICES ASSUME IndInv, [Next]_vars PROVE IndInv'
  OBVIOUS
<1>1. requests \in [Request -> RequestState]
  BY DEF IndInv, Counts
<1>2. ASSUME NEW r \in Request, Start(r) PROVE IndInv'
  BY <1>2, StartKeepsInvariant
<1>3. ASSUME NEW r \in Request, Continue(r) PROVE IndInv'
  BY <1>3, ContinueKeepsInvariant
<1>4. ASSUME NEW r \in Request, UploadRefused(r) PROVE IndInv'
  BY <1>1, <1>4, NextUploadState, GivesConnectionUp DEF UploadRefused, Holding
<1>5. ASSUME NEW r \in Request, GiveUp(r) PROVE IndInv'
  BY <1>5, DoneIsIdle, KeepsConnections DEF GiveUp, Waiting, Holding
<1>6. CASE Restart
  <2>1. Init'
    BY <1>6 DEF Restart, Init
  <2> QED
    BY <2>1, InitEstablishesInvariant, PTL
<1>7. CASE UNCHANGED vars
  BY <1>7 DEF vars, IndInv, Counts, ConnectionsAccountedFor, Holders
<1> QED
  BY <1>2, <1>3, <1>4, <1>5, <1>6, <1>7 DEF Next

\* Every connection is idle, held by one request, or lost with a transaction
\* that was left open: whatever requests do, wherever they fail or restart
\* (database.go, ConfirmUploads, DeleteFolder).
THEOREM Accounting == Spec => []ConnectionsAccountedFor
<1>1. IndInv => ConnectionsAccountedFor
  BY DEF IndInv
<1> QED
  BY <1>1, InitEstablishesInvariant, StepKeepsInvariant, PTL DEF Spec

\* Counts stay within the pool, and requests remember what they may.
THEOREM PoolTypesCorrect == Spec => []TypeOK
<1>1. IndInv => TypeOK
  BY HoldersAreFinite, ConnectionsAssumption
  DEF IndInv, Counts, ConnectionsAccountedFor, TypeOK
<1> QED
  BY <1>1, InitEstablishesInvariant, StepKeepsInvariant, PTL DEF Spec

\* A request that is not confirming uploads has none left, and a new one can
\* take its place when it is done.
OnlyUploadsAreLeft ==
    \A r \in Request :
        requests[r].pc \in {"done", "query", "querying", "delete", "deleting"}
            => requests[r].left = 0

LEMMA RequestLeavesNothing ==
    ASSUME requests \in [Request -> RequestState], OnlyUploadsAreLeft,
           NEW r \in Request, NEW state \in RequestState,
           requests' = [requests EXCEPT ![r] = state],
           \/ state.left = 0
           \/ state.pc \in {"upload", "verifying", "recording"}
    PROVE  OnlyUploadsAreLeft'
<1>1. \A q \in Request : requests'[q] = IF q = r THEN state ELSE requests[q]
  OBVIOUS
<1> QED
  BY <1>1 DEF OnlyUploadsAreLeft

LEMMA NothingIsLeft ==
    ASSUME IndInv, OnlyUploadsAreLeft, [Next]_vars
    PROVE  OnlyUploadsAreLeft'
<1>1. requests \in [Request -> RequestState]
  BY DEF IndInv, Counts
<1>2. Done \in RequestState /\ Done.left = 0
  BY DoneIsIdle DEF Done
<1>3. ASSUME NEW r \in Request,
             \/ Query(r) \/ RunStatement(r) \/ EndStatement(r)
             \/ DeleteFolder(r) \/ BeginDelete(r) \/ EndDelete(r)
      PROVE  OnlyUploadsAreLeft'
  <2>1. requests[r].left = 0
    BY <1>3, <1>2
    DEF OnlyUploadsAreLeft, Query, RunStatement, EndStatement, DeleteFolder,
        BeginDelete, EndDelete
  <2>2. PICK pc \in {"done"} \cup Waiting \cup Holding : Go(r, pc)
    BY <1>3
    DEF Query, RunStatement, EndStatement, DeleteFolder, BeginDelete, EndDelete,
        Waiting, Holding
  <2> QED
    BY <1>1, <2>1, <2>2, StateAfterGo, RequestLeavesNothing
<1>4. ASSUME NEW r \in Request, BeginUpload(r) \/ UploadVerified(r)
      PROVE  OnlyUploadsAreLeft'
  <2>1. PICK pc \in {"verifying", "recording"} : Go(r, pc)
    BY <1>4 DEF BeginUpload, UploadVerified
  <2>2. pc \in {"done"} \cup Waiting \cup Holding
    BY <2>1 DEF Holding
  <2> QED
    BY <1>1, <2>1, <2>2, StateAfterGo, RequestLeavesNothing
<1>5. ASSUME NEW r \in Request, EndUpload(r) \/ UploadRefused(r)
      PROVE  OnlyUploadsAreLeft'
  <2>1. requests' = [requests EXCEPT
                       ![r] = IF @.left > 1
                              THEN [pc |-> "upload", left |-> @.left - 1]
                              ELSE Done]
    BY <1>5 DEF EndUpload, UploadRefused, NextUpload
  <2>2. requests[r] \in RequestState
    BY <1>1
  <2>3. /\ requests'[r] \in RequestState
        /\ requests'[r].left = 0 \/ requests'[r].pc = "upload"
    BY <1>1, <1>2, <2>1, <2>2, MaxUploadsAssumption DEF RequestState, Waiting
  <2>4. requests' = [requests EXCEPT ![r] = requests'[r]]
    BY <1>1, <2>1
  <2> QED
    BY <1>1, <2>3, <2>4, RequestLeavesNothing
<1>6. ASSUME NEW r \in Request, CommitFails(r) \/ GiveUp(r)
      PROVE  OnlyUploadsAreLeft'
  BY <1>1, <1>2, <1>6, RequestLeavesNothing DEF CommitFails, GiveUp
<1>7. ASSUME NEW r \in Request, ConfirmUploads(r) PROVE OnlyUploadsAreLeft'
  <2>1. PICK n \in 1 .. MaxUploads :
          requests' = [requests EXCEPT ![r] = [pc |-> "upload", left |-> n]]
    BY <1>7 DEF ConfirmUploads
  <2>2. [pc |-> "upload", left |-> n] \in RequestState
    BY MaxUploadsAssumption DEF RequestState, Waiting
  <2> QED
    BY <1>1, <2>1, <2>2, RequestLeavesNothing
<1>8. CASE Restart
  BY <1>2, <1>8 DEF Restart, OnlyUploadsAreLeft
<1>9. CASE UNCHANGED vars
  BY <1>9 DEF vars, OnlyUploadsAreLeft
<1> QED
  BY <1>3, <1>4, <1>5, <1>6, <1>7, <1>8, <1>9 DEF Next, Start, Continue

\* As long as one connection is not lost, some request can go on: requests that
\* hold a connection never wait for those that want one (ConfirmUploads and
\* DeleteFolder run every statement of a transaction on its connection).
THEOREM PoolNeverStuck == Spec => []NobodyIsStuck
<1>1. ASSUME IndInv, OnlyUploadsAreLeft PROVE NobodyIsStuck
  <2> SUFFICES ASSUME NEW r \in Request, requests[r] # Done,
                      \A q \in Request : ~CanContinue(q)
               PROVE  lost = Connections
    BY DEF NobodyIsStuck
  <2>1. Holders = {}
    BY DEF CanContinue, Holders
  <2>2. requests[r].pc \in {"done"} \cup Waiting \cup Holding
    BY <1>1 DEF IndInv, Counts, RequestState
  <2>3. CASE requests[r].pc \in Waiting
    <3>1. idle = 0
      BY <1>1, <2>3 DEF CanContinue, IndInv, Counts
    <3>2. Cardinality(Holders) = 0
      BY <2>1, FS_EmptySet
    <3> QED
      BY <1>1, <3>1, <3>2, ConnectionsAssumption
      DEF IndInv, Counts, ConnectionsAccountedFor
  <2>4. CASE requests[r].pc = "done"
    <3>1. requests[r] \in RequestState /\ requests[r].left = 0
      BY <1>1, <2>4 DEF OnlyUploadsAreLeft, IndInv, Counts
    <3> QED
      BY <2>4, <3>1 DEF RequestState, Done
  <2> QED
    BY <2>1, <2>2, <2>3, <2>4 DEF Holders
<1>2. Init => OnlyUploadsAreLeft
  BY DEF Init, OnlyUploadsAreLeft, Done
<1> QED
  BY <1>1, <1>2, InitEstablishesInvariant, StepKeepsInvariant, NothingIsLeft,
     PTL
  DEF Spec
=============================================================================
