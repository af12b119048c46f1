--------------------------- MODULE ConnectionPool ---------------------------
(***************************************************************************)
(* The pool of database connections that all requests of files-backend     *)
(* share (pgxpool, internal/database/database.go).  A statement outside a  *)
(* transaction takes a connection for its own duration; Begin takes one    *)
(* until Commit or Rollback; who finds no connection waits.  ConfirmUploads*)
(* opens one transaction per upload, talks to S3 while it holds it, and    *)
(* passes to the next upload without a Rollback when the upload is refused *)
(* (files.resolvers.go:396-426).                                           *)
(***************************************************************************)
EXTENDS Integers, FiniteSets

CONSTANTS
    Connections,  \* how many connections the pool may open
    MaxUploads,   \* the most uploads that one ConfirmUploads lists
    Request       \* the requests that run at the same time

ASSUME ConnectionsAssumption == Connections \in Nat \ {0}
ASSUME MaxUploadsAssumption == MaxUploads \in Nat
ASSUME RequestAssumption == IsFiniteSet(Request)

VARIABLES
    idle,      \* how many connections wait in the pool
    lost,      \* how many belong to a transaction that nobody will end
    requests   \* what each request is doing

vars == <<idle, lost, requests>>

\* query: wants a connection for one statement; querying: has it.
\* upload: is about to Begin for the next upload; verifying: holds the
\* transaction while S3 answers; recording: is to run its INSERTs in it.
\* delete, deleting: DeleteFolder wants, or has, its transaction.
Waiting == {"query", "upload", "delete"}
Holding == {"querying", "verifying", "recording", "deleting"}

RequestState == [pc : {"done"} \cup Waiting \cup Holding,
                 left : 0..MaxUploads]
Done == [pc |-> "done", left |-> 0]

Go(r, pc) == requests' = [requests EXCEPT ![r].pc = pc]

Init ==
    /\ idle = Connections
    /\ lost = 0
    /\ requests = [r \in Request |-> Done]

Acquire == idle > 0 /\ idle' = idle - 1
Release == idle' = idle + 1

-----------------------------------------------------------------------------
(* A request that runs single statements, each on a connection of its own. *)

Query(r) ==
    /\ requests[r] = Done
    /\ Go(r, "query")
    /\ UNCHANGED <<idle, lost>>

RunStatement(r) ==
    /\ requests[r].pc = "query"
    /\ Acquire
    /\ Go(r, "querying")
    /\ UNCHANGED lost

EndStatement(r) ==
    /\ requests[r].pc = "querying"
    /\ Release
    /\ Go(r, "query") \/ Go(r, "done")
    /\ UNCHANGED lost

-----------------------------------------------------------------------------
(* ConfirmUploads *)

ConfirmUploads(r) ==
    /\ requests[r] = Done
    /\ \E n \in 1..MaxUploads :
           requests' = [requests EXCEPT ![r] = [pc |-> "upload", left |-> n]]
    /\ UNCHANGED <<idle, lost>>

\* On to the next upload, or to the answer.
NextUpload(r) ==
    requests' = [requests EXCEPT
                   ![r] = IF @.left > 1
                          THEN [pc |-> "upload", left |-> @.left - 1]
                          ELSE Done]

BeginUpload(r) ==
    /\ requests[r].pc = "upload"
    /\ Acquire
    /\ Go(r, "verifying")
    /\ UNCHANGED lost

UploadVerified(r) ==
    /\ requests[r].pc = "verifying"
    /\ Go(r, "recording")
    /\ UNCHANGED <<idle, lost>>

\* The object is missing or cannot be read, or its type or size is another:
\* the loop goes on and leaves the transaction open.
UploadRefused(r) ==
    /\ requests[r].pc = "verifying"
    /\ NextUpload(r)
    /\ lost' = lost + 1
    /\ UNCHANGED idle

\* Mutant: the INSERTs run on r.DB instead of on the transaction, and take a
\* second connection.
RecordOutsideTransaction(r) ==
    /\ requests[r].pc = "recording"
    /\ idle > 0
    /\ Release
    /\ NextUpload(r)
    /\ UNCHANGED lost

\* Mutant: a deferred Rollback gives the connection back a second time.
EndUploadTwice(r) ==
    /\ requests[r].pc = "recording"
    /\ idle' = idle + 2
    /\ NextUpload(r)
    /\ UNCHANGED lost

\* Commit, or Rollback when an INSERT fails.
EndUpload(r) ==
    /\ requests[r].pc = "recording"
    /\ Release
    /\ NextUpload(r)
    /\ UNCHANGED lost

\* An error of Commit ends the request; the connection goes back to the pool.
CommitFails(r) ==
    /\ requests[r].pc = "recording"
    /\ Release
    /\ requests' = [requests EXCEPT ![r] = Done]
    /\ UNCHANGED lost

-----------------------------------------------------------------------------
(* DeleteFolder: every way out of it commits or rolls back. *)

DeleteFolder(r) ==
    /\ requests[r] = Done
    /\ Go(r, "delete")
    /\ UNCHANGED <<idle, lost>>

BeginDelete(r) ==
    /\ requests[r].pc = "delete"
    /\ Acquire
    /\ Go(r, "deleting")
    /\ UNCHANGED lost

\* Mutant: an error of a statement returns without a Rollback.
EndDeleteWithoutRollback(r) ==
    /\ requests[r].pc = "deleting"
    /\ \/ Release
       \/ UNCHANGED idle
    /\ Go(r, "done")
    /\ UNCHANGED lost

EndDelete(r) ==
    /\ requests[r].pc = "deleting"
    /\ Release
    /\ Go(r, "done")
    /\ UNCHANGED lost

-----------------------------------------------------------------------------
\* The client goes away while its request waits for a connection.
GiveUp(r) ==
    /\ requests[r].pc \in Waiting
    /\ requests' = [requests EXCEPT ![r] = Done]
    /\ UNCHANGED <<idle, lost>>

\* A new process starts with a pool of its own.
Restart ==
    /\ idle' = Connections
    /\ lost' = 0
    /\ requests' = [r \in Request |-> Done]

Start(r) == Query(r) \/ ConfirmUploads(r) \/ DeleteFolder(r)

Continue(r) ==
    \/ RunStatement(r) \/ EndStatement(r)
    \/ BeginUpload(r) \/ UploadVerified(r) \/ EndUpload(r) \/ CommitFails(r)
    \/ BeginDelete(r) \/ EndDelete(r)

Next ==
    \/ \E r \in Request : Start(r) \/ Continue(r) \/ UploadRefused(r) \/ GiveUp(r)
    \/ Restart

Spec == Init /\ [][Next]_vars

\* The pool serves its waiters in turn; S3 and PostgreSQL answer.
Fairness ==
    \A r \in Request :
        /\ SF_vars(RunStatement(r)) /\ SF_vars(BeginUpload(r))
        /\ SF_vars(BeginDelete(r))
        /\ WF_vars(EndStatement(r)) /\ WF_vars(EndUpload(r))
        /\ WF_vars(UploadVerified(r) \/ UploadRefused(r))
        /\ WF_vars(EndDelete(r))

FairSpec == Spec /\ Fairness

-----------------------------------------------------------------------------
(* Properties *)

Holders == {r \in Request : requests[r].pc \in Holding}

\* Counts and states stay in range.
TypeOK ==
    /\ idle \in 0..Connections
    /\ lost \in 0..Connections
    /\ requests \in [Request -> RequestState]

\* Every connection is idle, in use by one request, or lost with an abandoned
\* transaction: none is released twice, and none is lost in any other way.
ConnectionsAccountedFor == idle + Cardinality(Holders) + lost = Connections

\* Who holds a connection goes on without another one; who waits, if there is
\* one.
CanContinue(r) ==
    \/ requests[r].pc \in Holding
    \/ requests[r].pc \in Waiting /\ idle > 0

\* Requests never wait for each other in a circle: when all of them wait, they
\* wait for connections that refused uploads have left open, every one of them
\* (no code path takes a second connection while it has one).
NobodyIsStuck ==
    (\E r \in Request : requests[r] # Done)
        => (\E r \in Request : CanContinue(r)) \/ lost = Connections

\* Whoever waits for a connection gets one, or gives up.
WaitersAreServed ==
    \A r \in Request :
        requests[r].pc \in Waiting ~> requests[r].pc \notin Waiting

\* So it is until refused uploads have taken the last connection, though
\* transactions stay open while S3 is asked about an object.
ServedUnlessDry ==
    \A r \in Request :
        requests[r].pc \in Waiting
            ~> requests[r].pc \notin Waiting \/ lost = Connections
=============================================================================
