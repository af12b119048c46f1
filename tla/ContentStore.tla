---------------------------- MODULE ContentStore ----------------------------
(***************************************************************************)
(* The life of stored content in files-backend: the resolvers that upload, *)
(* deduplicate and delete (internal/graph/resolver/files.resolvers.go),    *)
(* the tables physical_files, files and folders they share, the S3 bucket, *)
(* and the cleanup worker (internal/utils/worker.go).                      *)
(*                                                                         *)
(* A step of a request is one SQL statement or one S3 call, since requests *)
(* and the worker interleave between any two of them.  A transaction runs  *)
(* at PostgreSQL's default READ COMMITTED: its statements see what is      *)
(* committed, its writes appear at Commit, and the rows it wrote are       *)
(* locked until then.  Its UPDATEs and DELETEs select their rows in one    *)
(* snapshot, and lock them one after the other, waiting at each for the    *)
(* transaction that has locked it.  A physical file is identified with its *)
(* content hash (content_hash is UNIQUE).                                  *)
(*                                                                         *)
(* Left out: users and file names.  They decide only whether a request is  *)
(* refused, or whether an INSERT violates UNIQUE (owner, folder, filename):*)
(* here any INSERT may fail, and a refused request changes nothing.        *)
(***************************************************************************)
EXTENDS Integers, Sequences, FiniteSets, SequencesExt

CONSTANTS
    Hash,      \* content hashes, the keys of the bucket and of physical_files
    FileId,    \* ids that rows of the table files may receive
    Folder,    \* folders that exist at the start (FolderTree models creation)
    Within,    \* Within[d]: the folders whose path is at or below that of d
    Request,   \* the mutations that the server runs at the same time
    Root,      \* a NULL folder_id
    None       \* an argument that a request does not have

\* Ids of files and of physical files are different random UUIDs.
ASSUME IdsAreDistinct == FileId \cap Hash = {}

\* Ltree's <@ on the paths of folders is reflexive and transitive.
ASSUME WithinIsAnOrder ==
    /\ Within \in [Folder -> SUBSET Folder]
    /\ \A d \in Folder : d \in Within[d]
    /\ \A d \in Folder : \A e \in Within[d] : Within[e] \subseteq Within[d]

ASSUME ConstantsAreDistinct ==
    Root \notin Folder /\ None \notin Hash \cup FileId \cup Folder \cup {Root}

ASSUME FinitelyMany == IsFiniteSet(Folder) /\ IsFiniteSet(Request)

VARIABLES
    physicalFiles,   \* content hashes of the rows of physical_files
    referenceCount,  \* their reference_count; 0 for a hash with no row
    files,           \* the committed rows of files
    folders,         \* the committed rows of folders
    objects,         \* the keys at which the bucket holds an object
    putUrls,         \* the keys for which a presigned PUT URL is still valid
    requests,        \* the running mutation of each member of Request
    cleanupList,     \* rows that CleanupFiles has listed and not yet handled
    collected,       \* the row whose object it has just deleted, or None
    history          \* history variable: every row that files has ever held

tables == <<physicalFiles, referenceCount, files, folders, history>>
bucket == <<objects, putUrls>>
worker == <<cleanupList, collected>>
vars == <<tables, bucket, requests, worker>>

-----------------------------------------------------------------------------
(* Rows, requests, locks. *)

FileRow == [id : FileId, content : Hash, folder : Folder \cup {Root},
            original : BOOLEAN]

InTransaction == {"begun", "decrementing", "deletingFiles",
                  "deletingFolders", "cascading"}
Pc == {"idle", "reuse", "verified", "deleteRow", "decrement"}
          \cup InTransaction

\* The statement that runs has the rows todo before it, in this order.  The
\* transaction has decremented the counts counted, and deleted the files doomed
\* and the folders gone; triggers are those that have yet to cascade.
RequestState ==
    [pc : Pc, file : FileId \cup {None}, content : Hash \cup {None},
     folder : Folder \cup {Root, None}, todo : Seq(Hash \cup FileRow \cup Folder),
     counted : SUBSET Hash, doomed : SUBSET FileRow, gone : SUBSET Folder,
     triggers : SUBSET Folder]

Call(pc, file, content, folder) ==
    [pc |-> pc, file |-> file, content |-> content, folder |-> folder,
     todo |-> <<>>, counted |-> {}, doomed |-> {}, gone |-> {}, triggers |-> {}]
Idle == Call("idle", None, None, None)

Become(r, state) == requests' = [requests EXCEPT ![r] = state]

\* q at the start of a statement that has found these rows, in whatever order.
Scanning(q, pc, rows) ==
    {[q EXCEPT !.pc = pc, !.todo = scan] : scan \in SetToSeqs(rows)}

\* The folders a statement of DeleteFolder selects: none once d is gone.
Subtree(d) == IF d \in folders THEN Within[d] \cap folders ELSE {}
FilesIn(d) == {f \in files : f.folder \in Subtree(d)}

\* The rows that q has locked in the table that a statement is about.
Locked(q, pc) ==
    CASE pc = "decrementing" -> q.counted
      [] pc \in {"deletingFiles", "cascading"} -> q.doomed
      [] pc = "deletingFolders" -> q.gone

\* The next statement of r, or the rest of the one that runs, has to wait until
\* the open transaction of q is over.
WaitsFor(r, q) ==
    LET waiter == requests[r]
        owner == requests[q]
    IN  /\ r # q
        /\ \/ waiter.pc \in {"reuse", "verified"} /\ waiter.folder \in owner.gone
           \/ waiter.pc = "deleteRow" /\ \E f \in owner.doomed : f.id = waiter.file
           \/ waiter.pc = "decrement" /\ waiter.content \in owner.counted
           \/ waiter.todo # <<>> /\ Head(waiter.todo) \in Locked(owner, waiter.pc)

Waits(r) == \E q \in Request : WaitsFor(r, q)

FolderIsFree(d) == \A r \in Request : d \notin requests[r].gone

Condemned == {h \in physicalFiles : referenceCount[h] <= 0}
Kept == {h \in physicalFiles : referenceCount[h] >= 1}

Init ==
    /\ physicalFiles = {}
    /\ referenceCount = [h \in Hash |-> 0]
    /\ files = {}
    /\ folders = Folder
    /\ objects = {}
    /\ putUrls = {}
    /\ requests = [r \in Request |-> Idle]
    /\ cleanupList = {}
    /\ collected = None
    /\ history = {}

-----------------------------------------------------------------------------
(* The queries that several operations share. *)

\* Mutant: the INSERT does not wait for a folder that is being deleted.
InsertIgnoringLocks(content, folder, original) ==
    \E i \in FileId :
        LET row == [id |-> i, content |-> content, folder |-> folder,
                    original |-> original]
        IN  /\ \A f \in history : f.id # i
            /\ folder \in folders \cup {Root}
            /\ files' = files \cup {row}
            /\ history' = history \cup {row}

\* INSERT INTO files: the id is new and the folder must exist; a folder that
\* an open transaction has deleted makes the INSERT wait.
CreateFileReference(content, folder, original) ==
    \E i \in FileId :
        LET row == [id |-> i, content |-> content, folder |-> folder,
                    original |-> original]
        IN  /\ \A f \in history : f.id # i
            /\ folder \in folders \cup {Root}
            /\ FolderIsFree(folder)
            /\ files' = files \cup {row}
            /\ history' = history \cup {row}

\* DELETE FROM files WHERE id = i
DeleteFileReference(i) == files' = {f \in files : f.id # i}

-----------------------------------------------------------------------------
(* PreUploadCheck: content that has a row is referenced again, without a   *)
(* second upload; for any other content the client receives a PUT URL.     *)

PreUploadCheck(r, h, d) ==
    /\ requests[r] = Idle
    /\ \/ /\ h \in physicalFiles
          /\ Become(r, Call("reuse", None, h, d))
          /\ UNCHANGED putUrls
       \/ /\ h \notin physicalFiles
          /\ putUrls' = putUrls \cup {h}
          /\ UNCHANGED requests
    /\ UNCHANGED <<tables, objects, worker>>

\* Any error of the lookup counts as "no such content".
PreUploadCheckMisses(h) ==
    /\ putUrls' = putUrls \cup {h}
    /\ UNCHANGED <<tables, objects, requests, worker>>

\* Mutant: a reused content is counted, whatever its count is.
ReuseAndCount(r) ==
    /\ requests[r].pc = "reuse"
    /\ CreateFileReference(requests[r].content, requests[r].folder, FALSE)
    /\ referenceCount' = [referenceCount EXCEPT ![requests[r].content] = @ + 1]
    /\ Become(r, Idle)
    /\ UNCHANGED <<physicalFiles, folders, bucket, worker>>

\* The reference is inserted and counted nowhere; a failed INSERT is ignored.
ReuseContent(r) ==
    /\ requests[r].pc = "reuse"
    /\ \/ CreateFileReference(requests[r].content, requests[r].folder, FALSE)
       \/ UNCHANGED <<files, history>>
    /\ Become(r, Idle)
    /\ UNCHANGED <<physicalFiles, referenceCount, folders, bucket, worker>>

\* The client uses its URL, within the 15 minutes it is valid for.
PutObject(h) ==
    /\ h \in putUrls
    /\ objects' = objects \cup {h}
    /\ UNCHANGED <<tables, putUrls, requests, worker>>

UrlExpires(h) ==
    /\ h \in putUrls
    /\ putUrls' = putUrls \ {h}
    /\ UNCHANGED <<tables, objects, requests, worker>>

-----------------------------------------------------------------------------
(* ConfirmUploads, one upload of the list at a time. *)

\* The object is there, and its type and size are those the client named.
\* (An upload that is refused changes nothing in this module.)
VerifyUpload(r, h, d) ==
    /\ requests[r] = Idle
    /\ h \in objects
    /\ Become(r, Call("verified", None, h, d))
    /\ UNCHANGED <<tables, bucket, worker>>

\* Mutant: INSERT ... ON CONFLICT DO UPDATE SET reference_count = ... + 1
UpsertPhysicalFile(h) ==
    /\ physicalFiles' = physicalFiles \cup {h}
    /\ referenceCount' = [referenceCount EXCEPT ![h] = @ + 1]

\* INSERT INTO physical_files ... VALUES (..., 1)
CreatePhysicalFile(h) ==
    /\ h \notin physicalFiles
    /\ physicalFiles' = physicalFiles \cup {h}
    /\ referenceCount' = [referenceCount EXCEPT ![h] = 1]

\* Both INSERTs commit together, or the transaction is rolled back.
RecordUpload(r) ==
    /\ requests[r].pc = "verified"
    /\ \/ /\ CreatePhysicalFile(requests[r].content)
          /\ CreateFileReference(requests[r].content, requests[r].folder, TRUE)
       \/ UNCHANGED <<physicalFiles, referenceCount, files, history>>
    /\ Become(r, Idle)
    /\ UNCHANGED <<folders, bucket, worker>>

-----------------------------------------------------------------------------
(* DeleteFile: three statements, each a transaction of its own. *)

\* Mutant: the two ids of the row change places.
FindFileSwappingIds(r, f) ==
    /\ requests[r] = Idle
    /\ f \in files
    /\ Become(r, Call("deleteRow", f.content, f.id, None))
    /\ UNCHANGED <<tables, bucket, worker>>

FindFile(r, f) ==
    /\ requests[r] = Idle
    /\ f \in files
    /\ Become(r, Call("deleteRow", f.id, f.content, None))
    /\ UNCHANGED <<tables, bucket, worker>>

\* It succeeds when the row is already gone, too.
DeleteFileRow(r) ==
    /\ requests[r].pc = "deleteRow"
    /\ ~Waits(r)
    /\ DeleteFileReference(requests[r].file)
    /\ Become(r, [requests[r] EXCEPT !.pc = "decrement"])
    /\ UNCHANGED <<physicalFiles, referenceCount, folders, history, bucket,
                   worker>>

DecrementCount(r) ==
    /\ requests[r].pc = "decrement"
    /\ ~Waits(r)
    /\ referenceCount' = [referenceCount EXCEPT ![requests[r].content] = @ - 1]
    /\ Become(r, Idle)
    /\ UNCHANGED <<physicalFiles, files, folders, history, bucket, worker>>

-----------------------------------------------------------------------------
(* DeleteFolder: an owner check, then three statements in a transaction. *)

FindFolder(r, d) ==
    /\ requests[r] = Idle
    /\ d \in folders
    /\ Become(r, Call("begun", None, None, d))
    /\ UNCHANGED <<tables, bucket, worker>>

\* Mutant: the operands of <@ change places.
ListContentsAbove(r) ==
    /\ requests[r].pc = "begun"
    /\ \E state \in Scanning(requests[r], "decrementing",
                   {f.content : f \in {g \in files : g.folder \in folders /\
                                        requests[r].folder \in Within[g.folder]}}) :
           Become(r, state)
    /\ UNCHANGED <<tables, bucket, worker>>

\* Mutant: folder_id = $1, which misses the folders below.
ListContentsOfOneFolder(r) ==
    /\ requests[r].pc = "begun"
    /\ \E state \in Scanning(requests[r], "decrementing",
                   {f.content : f \in {g \in files :
                                        g.folder = requests[r].folder}}) :
           Become(r, state)
    /\ UNCHANGED <<tables, bucket, worker>>

\* The UPDATE of the counts evaluates its subselect once ...
ListContents(r) ==
    /\ requests[r].pc = "begun"
    /\ \E state \in Scanning(requests[r], "decrementing",
                             {f.content : f \in FilesIn(requests[r].folder)}) :
           Become(r, state)
    /\ UNCHANGED <<tables, bucket, worker>>

\* ... and takes one reference off each row it found, once nobody else has it
\* locked, whatever has happened to the files meanwhile.
DecrementContents(r) ==
    LET h == Head(requests[r].todo)
    IN  /\ requests[r].pc = "decrementing" /\ requests[r].todo # <<>>
        /\ ~Waits(r)
        /\ Become(r, [requests[r] EXCEPT !.todo = Tail(@),
                                         !.counted = @ \cup ({h} \cap physicalFiles)])
        /\ UNCHANGED <<tables, bucket, worker>>

DeleteFilesInFolder(r) ==
    /\ requests[r].pc = "decrementing" /\ requests[r].todo = <<>>
    /\ \E state \in Scanning(requests[r], "deletingFiles",
                             FilesIn(requests[r].folder)) :
           Become(r, state)
    /\ UNCHANGED <<tables, bucket, worker>>

\* The next row of a DELETE FROM files, or of a cascade; it is skipped if whom
\* the statement waited for has deleted it.
DeleteNextFile(r) ==
    LET f == Head(requests[r].todo)
    IN  /\ requests[r].pc \in {"deletingFiles", "cascading"}
        /\ requests[r].todo # <<>>
        /\ ~Waits(r)
        /\ Become(r, [requests[r] EXCEPT !.todo = Tail(@),
                                         !.doomed = @ \cup ({f} \cap files)])
        /\ UNCHANGED <<tables, bucket, worker>>

\* Mutant: the statement runs on r.DB, outside the transaction, and waits for
\* the rows that the transaction has deleted.
DeleteFoldersOutside(r) ==
    /\ requests[r].pc = "deletingFiles" /\ requests[r].todo = <<>>
    /\ FilesIn(requests[r].folder) \cap requests[r].doomed = {}
    /\ \E state \in Scanning(requests[r], "deletingFolders",
                             Subtree(requests[r].folder)) :
           Become(r, state)
    /\ UNCHANGED <<tables, bucket, worker>>

DeleteFoldersRecursively(r) ==
    /\ requests[r].pc = "deletingFiles" /\ requests[r].todo = <<>>
    /\ \E state \in Scanning(requests[r], "deletingFolders",
                             Subtree(requests[r].folder)) :
           Become(r, state)
    /\ UNCHANGED <<tables, bucket, worker>>

DeleteNextFolder(r) ==
    LET deleted == {Head(requests[r].todo)} \cap folders
    IN  /\ requests[r].pc = "deletingFolders" /\ requests[r].todo # <<>>
        /\ ~Waits(r)
        /\ Become(r, [requests[r] EXCEPT !.todo = Tail(@),
                                         !.gone = @ \cup deleted,
                                         !.triggers = @ \cup deleted])
        /\ UNCHANGED <<tables, bucket, worker>>

\* Mutant: files.folder_id without ON DELETE CASCADE.
DoNotCascade(r) ==
    /\ requests[r].pc \in {"deletingFolders", "cascading"}
    /\ requests[r].todo = <<>>
    /\ \E d \in requests[r].triggers :
           Become(r, [requests[r] EXCEPT !.triggers = @ \ {d}])
    /\ UNCHANGED <<tables, bucket, worker>>

\* ON DELETE CASCADE for one deleted folder: a statement with a snapshot of its
\* own, which finds the files that were inserted since DELETE FROM files.
Cascade(r) ==
    /\ requests[r].pc \in {"deletingFolders", "cascading"}
    /\ requests[r].todo = <<>>
    /\ \E d \in requests[r].triggers :
           \E state \in Scanning([requests[r] EXCEPT !.triggers = @ \ {d}],
                                 "cascading",
                                 {f \in files : f.folder = d} \ requests[r].doomed) :
               Become(r, state)
    /\ UNCHANGED <<tables, bucket, worker>>

CommitDeleteFolder(r) ==
    /\ requests[r].pc \in {"deletingFolders", "cascading"}
    /\ requests[r].todo = <<>> /\ requests[r].triggers = {}
    /\ referenceCount' =
           [h \in Hash |-> IF h \in requests[r].counted
                           THEN referenceCount[h] - 1 ELSE referenceCount[h]]
    /\ files' = files \ requests[r].doomed
    /\ folders' = folders \ requests[r].gone
    /\ Become(r, Idle)
    /\ UNCHANGED <<physicalFiles, history, bucket, worker>>

-----------------------------------------------------------------------------
(* CleanupFiles, on every tick of the hourly ticker. *)

\* Mutant: reference_count <= 1
ListLastReferences ==
    /\ cleanupList = {} /\ collected = None
    /\ cleanupList' = {h \in physicalFiles : referenceCount[h] <= 1}
    /\ UNCHANGED <<tables, bucket, requests, collected>>

\* Mutant: reference_count = 0, which misses a row decremented twice.
ListZeroCounts ==
    /\ cleanupList = {} /\ collected = None
    /\ cleanupList' = {h \in physicalFiles : referenceCount[h] = 0}
    /\ UNCHANGED <<tables, bucket, requests, collected>>

\* SELECT * FROM physical_files WHERE reference_count <= 0
ListForCleanup ==
    /\ cleanupList = {} /\ collected = None
    /\ cleanupList' = Condemned
    /\ UNCHANGED <<tables, bucket, requests, collected>>

DeleteObject(h) ==
    /\ h \in cleanupList /\ collected = None
    /\ objects' = objects \ {h}
    /\ cleanupList' = cleanupList \ {h}
    /\ collected' = h
    /\ UNCHANGED <<tables, putUrls, requests>>

DeleteObjectFails(h) ==
    /\ h \in cleanupList /\ collected = None
    /\ cleanupList' = cleanupList \ {h}
    /\ UNCHANGED <<tables, bucket, requests, collected>>

\* Mutant: the worker calls DeletePhysicalFileById, as its log message says.
DeletePhysicalRecord ==
    /\ collected # None
    /\ \A f \in files : f.content # collected
    /\ physicalFiles' = physicalFiles \ {collected}
    /\ referenceCount' = [referenceCount EXCEPT ![collected] = 0]
    /\ collected' = None
    /\ UNCHANGED <<files, folders, history, bucket, requests, cleanupList>>

\* The worker passes the id of a physical file to the query that deletes a
\* row of files.
DeleteRecord ==
    /\ collected # None
    /\ DeleteFileReference(collected)
    /\ collected' = None
    /\ UNCHANGED <<physicalFiles, referenceCount, folders, history, bucket,
                   requests, cleanupList>>

-----------------------------------------------------------------------------
(* Failures: a statement or an S3 call that returns an error, a deadlock    *)
(* that PostgreSQL breaks, and a crash of the server.  An open transaction  *)
(* is rolled back; statements outside one stay done.                        *)

Abort(r) ==
    /\ requests[r] # Idle
    /\ Become(r, Idle)
    /\ UNCHANGED <<tables, bucket, worker>>

\* Requests that wait for one another.  (Each waits for the one that has locked
\* its next row.)
Circles ==
    {circle \in (SUBSET Request) \ {{}} :
        /\ \A r \in circle : \E q \in circle : WaitsFor(r, q)
        /\ \A q \in circle : \E r \in circle : WaitsFor(r, q)}

\* PostgreSQL detects such a circle and fails one of them.
BreakDeadlock == \E circle \in Circles : \E r \in circle : Abort(r)

Crash ==
    /\ requests' = [r \in Request |-> Idle]
    /\ cleanupList' = {} /\ collected' = None
    /\ UNCHANGED <<tables, bucket>>

-----------------------------------------------------------------------------
Start(r) ==
    \/ \E h \in Hash, d \in Folder \cup {Root} :
           PreUploadCheck(r, h, d) \/ VerifyUpload(r, h, d)
    \/ \E f \in files : FindFile(r, f)
    \/ \E d \in Folder : FindFolder(r, d)

Continue(r) ==
    \/ ReuseContent(r)
    \/ RecordUpload(r)
    \/ DeleteFileRow(r)
    \/ DecrementCount(r)
    \/ ListContents(r)
    \/ DecrementContents(r)
    \/ DeleteFilesInFolder(r)
    \/ DeleteNextFile(r)
    \/ DeleteFoldersRecursively(r)
    \/ DeleteNextFolder(r)
    \/ Cascade(r)
    \/ CommitDeleteFolder(r)

Client == \E h \in Hash : PutObject(h) \/ UrlExpires(h)

CleanupFiles ==
    \/ ListForCleanup
    \/ \E h \in Hash : DeleteObject(h)
    \/ DeleteRecord

Failure ==
    \/ \E h \in Hash : PreUploadCheckMisses(h) \/ DeleteObjectFails(h)
    \/ \E r \in Request : Abort(r)
    \/ BreakDeadlock
    \/ Crash

NextWithoutFailure ==
    \/ \E r \in Request : Start(r) \/ Continue(r)
    \/ Client
    \/ CleanupFiles

Next == NextWithoutFailure \/ Failure

SpecWithoutFailure == Init /\ [][NextWithoutFailure]_vars

Spec == Init /\ [][Next]_vars

\* PostgreSQL queues the waiters of a row, so that a statement that can run
\* again and again runs in the end, and watches for deadlocks; the ticker ticks,
\* and a DeleteObject that S3 refuses is tried again at every tick until S3
\* accepts it.
Fairness ==
    /\ \A r \in Request : SF_vars(Continue(r))
    /\ WF_vars(BreakDeadlock)
    /\ WF_vars(ListForCleanup) /\ WF_vars(DeleteRecord)
    /\ \A h \in Hash : SF_vars(DeleteObject(h))

FairSpec == Spec /\ Fairness

-----------------------------------------------------------------------------
(* Properties *)

\* Every variable, and every argument of a request that waits between two
\* statements, keeps its type.
TypeOK ==
    /\ physicalFiles \subseteq Hash
    /\ referenceCount \in [Hash -> Int]
    /\ files \subseteq FileRow
    /\ folders \subseteq Folder
    /\ objects \subseteq Hash
    /\ putUrls \subseteq Hash
    /\ requests \in [Request -> RequestState]
    /\ cleanupList \subseteq Hash
    /\ collected \in Hash \cup {None}
    /\ history \subseteq FileRow

\* Content whose reference_count is positive is in the bucket: no cleanup that
\* works from an old list, and no upload verified long before it is recorded,
\* leaves a counted row without its object.
KeptContentAvailable == Kept \subseteq objects

\* What the worker has listed it may still delete when it gets there: no
\* request has brought a listed row back to a positive count meanwhile.
CleanupOnlyCondemned ==
    (cleanupList \cup ({collected} \ {None})) \subseteq Condemned

\* However many requests confirm the same upload, concurrently or after a
\* retry, at most one row of files is ever its original.
OneOriginalPerContent ==
    \A f, g \in history :
        f.original /\ g.original /\ f.content = g.content => f = g

\* A DeleteFolder leaves no file in a folder that is gone, though other
\* requests insert files between its statements.
FolderIntegrity == \A f \in files : f.folder \in folders \cup {Root}

\* Content is given up only after a file that referred to it was deleted;
\* neither a failed, repeated or interleaved deletion nor a crash condemns
\* content of which no reference was ever deleted.
LostOnlyAfterDeletion ==
    \A h \in Condemned : \E f \in history \ files : f.content = h

-----------------------------------------------------------------------------
(* The inductive invariant: what the steps between two statements rely on. *)

\* A request that waits between two statements knows its arguments.
ArgumentsOK ==
    \A r \in Request :
        LET q == requests[r]
        IN  /\ q.pc \in {"reuse", "verified"} =>
                   q.content \in Hash /\ q.folder \in Folder \cup {Root}
            /\ q.pc \in {"deleteRow", "decrement"} =>
                   q.content \in Hash /\ q.file \in FileId
            /\ q.pc \in InTransaction => q.folder \in Folder

\* Locks are taken in the order of the statements, and by DeleteFolder only; the
\* deleted folders cascade when the last of them is deleted.
StatementsInOrder ==
    \A r \in Request :
        LET q == requests[r]
        IN  /\ q.pc \notin InTransaction \ {"begun"} => q.todo = <<>> /\ q.counted = {}
            /\ q.pc \notin {"deletingFiles", "deletingFolders", "cascading"} =>
                   q.doomed = {}
            /\ q.pc \notin {"deletingFolders", "cascading"} => q.gone = {}
            /\ q.pc = "deletingFolders" => q.gone \subseteq q.triggers
            /\ q.triggers \subseteq q.gone

\* Foreign keys: rows of files were inserted once and name physical rows.
ReferencesResolve ==
    /\ files \subseteq history
    /\ \A f \in history : f.content \in physicalFiles
    /\ \A r \in Request :
           requests[r].pc = "reuse" => requests[r].content \in physicalFiles

\* An upload that was verified is still there when it is recorded, unless
\* another request recorded it first.
VerifiedIsStored ==
    \A r \in Request :
        requests[r].pc = "verified" =>
            requests[r].content \in physicalFiles \cup objects

\* A folder that is there has all the folders above it.
FoldersAreClosed ==
    \A d \in Folder : \A e \in Within[d] : e \in folders => d \in folders

\* A folder that will go at a commit is locked by one transaction only; a file
\* in it goes along, unless the cascade has yet to look for it.
LocksCover ==
    /\ \A r, s \in Request : r # s => requests[r].gone \cap requests[s].gone = {}
    /\ \A r \in Request : \A f \in files :
           f.folder \in requests[r].gone \ requests[r].triggers =>
               f \in requests[r].doomed \cup ToSet(requests[r].todo)

\* What the DELETE FROM folders has found is all of the subtree, still.
SubtreeIsFound ==
    \A r \in Request :
        LET q == requests[r]
        IN  /\ q.gone # {} => q.gone \subseteq Within[q.folder]
            /\ q.pc = "deletingFolders" =>
                   /\ ToSet(q.todo) \subseteq Within[q.folder]
                   /\ Subtree(q.folder) \subseteq q.gone \cup ToSet(q.todo)
            /\ q.pc = "cascading" => Subtree(q.folder) \subseteq q.gone

\* The counts that q has decremented, or is about to.
Decrements(q) ==
    q.counted \cup IF q.pc = "decrementing" THEN ToSet(q.todo) ELSE {}

\* A pending decrement is owed to a reference that has been deleted, or that
\* goes when the folder it is in goes.
DecrementsAreOwed ==
    \A r \in Request :
        LET q == requests[r]
        IN  /\ q.pc = "deleteRow" =>
                   \E f \in history : f.id = q.file /\ f.content = q.content
            /\ q.pc = "decrement" =>
                   \E f \in history \ files : f.content = q.content
            /\ q.pc \in InTransaction =>
                   \A h \in Decrements(q) : \E f \in history :
                       f.content = h /\ f.folder \in Within[q.folder]

\* The safety properties, with what makes them inductive.
IndInv ==
    /\ TypeOK /\ IsFiniteSet(files)
    /\ ArgumentsOK
    /\ StatementsInOrder
    /\ ReferencesResolve
    /\ OneOriginalPerContent
    /\ CleanupOnlyCondemned
    /\ VerifiedIsStored
    /\ KeptContentAvailable
    /\ FoldersAreClosed
    /\ LocksCover
    /\ SubtreeIsFound
    /\ FolderIntegrity
    /\ DecrementsAreOwed
    /\ LostOnlyAfterDeletion

-----------------------------------------------------------------------------
(* Implementation, liveness, and what the code does not keep. *)

\* How far the tables say that each content has come.
ContentPhase ==
    [h \in Hash |-> IF h \notin physicalFiles THEN "unknown"
                    ELSE IF referenceCount[h] >= 1 THEN "kept"
                    ELSE "condemned"]

Lifecycle ==
    INSTANCE ContentLifecycle WITH phase <- ContentPhase, stored <- objects

\* Every step of the store, in every interleaving and after every failure, is
\* a step of the content lifecycle or leaves it as it is (ContentLifecycle).
ImplementsLifecycle == Lifecycle!Spec

\* Every mutation ends: whatever order the statements of DeleteFile, DeleteFolder
\* and the uploads take their locks in, and though they keep them to the end of
\* the transaction, no two of them wait for each other forever.
RequestsFinish ==
    \A r \in Request : requests[r] # Idle ~> requests[r] = Idle

\* Condemned content leaves the bucket, though deletions fail, the server
\* crashes, and clients upload it again with a URL that is still valid.
CondemnedIsCollected ==
    \A h \in Hash : h \in Condemned ~> h \notin objects

\* Between mutations, a positive reference_count means that some file refers to
\* the content: otherwise no deletion will ever condemn it, and its object is
\* never collected.
KeptIsReferenced ==
    (\A r \in Request : requests[r] = Idle) =>
        \A h \in Kept : \E f \in files : f.content = h

\* The request runs, and the statement that comes next need not wait.
CanContinue(r) == requests[r].pc # "idle" /\ ~Waits(r)

\* Mutations wait for each other in no other way than PostgreSQL breaks, and it
\* breaks none but deletions of folders: no upload, reuse or deletion of a file,
\* waiting for a folder, a file or a count, is ever in a circle.
NobodyIsStuck ==
    /\ (\E r \in Request : requests[r].pc # "idle") =>
           (\E r \in Request : CanContinue(r)) \/ Circles # {}
    /\ \A circle \in Circles : \A r \in circle : requests[r].pc \in InTransaction

\* What a single request keeps while nothing fails: a count is 1 at most, and
\* is owed to a row, or to the decrement that follows the deletion of the last
\* one; DeleteFolder counts the contents of whatever it deletes.
CountsAreOwed ==
    /\ \A h \in Hash : referenceCount[h] <= 1
    /\ \A f, g \in history : f.id = g.id => f = g
    /\ \A h \in Kept :
        \/ \E f \in files : f.content = h
        \/ \E r \in Request :
               requests[r].pc = "decrement" /\ requests[r].content = h
    /\ \A r \in Request :
        LET q == requests[r]
        IN  /\ q.pc \in InTransaction \ {"begun"} =>
                   \A f \in FilesIn(q.folder) : f.content \in Decrements(q)
            /\ q.pc \in {"deletingFiles", "cascading"} =>
                   \A f \in ToSet(q.todo) \cap files : f.content \in q.counted
            /\ \A f \in q.doomed : f.content \in q.counted

\* Every file that the tables hold can be downloaded: in particular one that
\* was made by reference to content already uploaded.
FilesAreStored == \A f \in files : f.content \in objects

\* The last step of a cleanup removes the record of the content it collected.
CleanupRemovesRecord ==
    [][DeleteRecord => collected \notin physicalFiles']_vars
=============================================================================
