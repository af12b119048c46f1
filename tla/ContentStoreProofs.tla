------------------------- MODULE ContentStoreProofs -------------------------
(***************************************************************************)
(* Proofs about ContentStore, for every set of contents and files, and     *)
(* finitely many folders and requests.  The inductive invariant is proved  *)
(* in layers: each layer is preserved by every step from a state in which  *)
(* the layers before it hold.                                              *)
(***************************************************************************)
EXTENDS ContentStore, Scans, FiniteSetTheorems, TLAPS

-----------------------------------------------------------------------------
(* Steps. *)

\* A step of DeleteFolder before it commits: it changes none of the tables.
DeletionStep(r) ==
  \/ ListContents(r) \/ DecrementContents(r)
  \/ DeleteFilesInFolder(r) \/ DeleteNextFile(r)
  \/ DeleteFoldersRecursively(r) \/ DeleteNextFolder(r)
  \/ Cascade(r)

LEMMA ContinueKinds ==
  ASSUME NEW r \in Request, Continue(r)
  PROVE  \/ ReuseContent(r) \/ RecordUpload(r)
         \/ DeleteFileRow(r) \/ DecrementCount(r)
         \/ CommitDeleteFolder(r)
         \/ DeletionStep(r)
  BY DEF Continue, DeletionStep

LEMMA DeletionKeepsTables ==
  ASSUME NEW r \in Request, DeletionStep(r)
  PROVE  UNCHANGED <<tables, bucket, worker>>
  BY DEF DeletionStep, ListContents, DecrementContents, DeleteFilesInFolder,
         DeleteNextFile, DeleteFoldersRecursively, DeleteNextFolder, Cascade

\* The victim of a deadlock is aborted like any other request.
LEMMA FailureKinds ==
  ASSUME Failure
  PROVE  \/ \E h \in Hash : PreUploadCheckMisses(h) \/ DeleteObjectFails(h)
         \/ \E r \in Request : Abort(r)
         \/ Crash
  BY DEF Failure, BreakDeadlock, Circles

-----------------------------------------------------------------------------
(* The rows that a statement of DeleteFolder has before it. *)

Rows == Hash \cup FileRow \cup Folder

LEMMA IdleType == Idle \in RequestState
  BY DEF Idle, Call, RequestState, Pc

\* Giving a request a well-typed state keeps the table of requests well-typed.
LEMMA BecomeType ==
  ASSUME requests \in [Request -> RequestState],
         NEW r \in Request, NEW state \in RequestState, Become(r, state)
  PROVE  requests' \in [Request -> RequestState]
  BY DEF Become

\* It changes the state of that request only.
LEMMA BecomeEffect ==
  ASSUME TypeOK, NEW r \in Request, NEW state, Become(r, state)
  PROVE  /\ requests'[r] = state
         /\ \A s \in Request \ {r} : requests'[s] = requests[s]
  BY DEF Become, TypeOK

\* new is the request q, at another statement or another row.
SameCall(q, new) ==
  /\ new \in RequestState
  /\ new.file = q.file /\ new.content = q.content /\ new.folder = q.folder

SameLocks(q, new) ==
  /\ new.counted = q.counted /\ new.doomed = q.doomed /\ new.gone = q.gone

\* A statement starts with all the rows that it has found before it.
LEMMA ScanningState ==
  ASSUME NEW q \in RequestState, NEW pc \in Pc,
         NEW rows \in SUBSET Rows, IsFiniteSet(rows),
         NEW state \in Scanning(q, pc, rows)
  PROVE  /\ SameCall(q, state) /\ SameLocks(q, state)
         /\ state.triggers = q.triggers
         /\ state.pc = pc /\ ToSet(state.todo) = rows
<1>1. PICK scan \in SetToSeqs(rows) :
          state = [q EXCEPT !.pc = pc, !.todo = scan]
  BY DEF Scanning
<1>2. scan \in Seq(Rows) /\ ToSet(scan) = rows
  BY ScanType, ScanRows
<1>. QED
  BY <1>1, <1>2 DEF RequestState, SameCall, SameLocks, Rows

\* What DeleteFolder reads is a finite set of rows, and of their contents.
LEMMA FilesInType ==
  ASSUME TypeOK, IsFiniteSet(files), NEW d
  PROVE  /\ FilesIn(d) \subseteq files
         /\ FilesIn(d) \subseteq FileRow
         /\ {f.content : f \in FilesIn(d)} \subseteq Hash
         /\ IsFiniteSet(FilesIn(d))
         /\ IsFiniteSet({f.content : f \in FilesIn(d)})
<1>1. /\ FilesIn(d) \subseteq files
      /\ FilesIn(d) \subseteq FileRow
      /\ {f.content : f \in FilesIn(d)} \subseteq Hash
  BY DEF TypeOK, FilesIn, FileRow
<1>2. IsFiniteSet(FilesIn(d))
  BY <1>1, FS_Subset
<1>3. IsFiniteSet({f.content : f \in FilesIn(d)})
  <2>. DEFINE S == FilesIn(d)
              T == {f.content : f \in S}
              content == [f \in S |-> f.content]
  <2>1. content \in Surjection(S, T)
    BY DEF Surjection
  <2>. HIDE DEF S, T, content
  <2>2. IsFiniteSet(T)
    BY <1>2, <2>1, FS_Surjection DEF S
  <2>. QED
    BY <2>2 DEF S, T
<1>. QED
  BY <1>1, <1>2, <1>3

LEMMA SubtreeType ==
  ASSUME TypeOK, NEW d
  PROVE  Subtree(d) \subseteq folders /\ Subtree(d) \subseteq Folder
         /\ IsFiniteSet(Subtree(d))
<1>1. Subtree(d) \subseteq folders /\ Subtree(d) \subseteq Folder
  BY DEF Subtree, TypeOK
<1>. QED
  BY <1>1, FinitelyMany, FS_Subset

\* What each step of a deletion makes of the request, and of its locks.
LEMMA DeletionMoves ==
  ASSUME TypeOK, IsFiniteSet(files), NEW r \in Request, DeletionStep(r)
  PROVE  LET q == requests[r]
             new == requests'[r]
             next == Head(q.todo)
         IN  /\ \A s \in Request \ {r} : requests'[s] = requests[s]
             /\ SameCall(q, new)
             /\ q.pc \in InTransaction /\ new.pc \in InTransaction \ {"begun"}
             /\ \/ /\ ListContents(r)
                   /\ q.pc = "begun" /\ new.pc = "decrementing"
                   /\ SameLocks(q, new) /\ new.triggers = q.triggers
                   /\ ToSet(new.todo) = {f.content : f \in FilesIn(q.folder)}
                \/ /\ DecrementContents(r)
                   /\ q.pc = "decrementing" /\ new.pc = "decrementing"
                   /\ new.counted = q.counted \cup ({next} \cap physicalFiles)
                   /\ new.doomed = q.doomed /\ new.gone = q.gone
                   /\ new.triggers = q.triggers
                   /\ ToSet(q.todo) = {next} \cup ToSet(new.todo)
                \/ /\ DeleteFilesInFolder(r)
                   /\ q.pc = "decrementing" /\ new.pc = "deletingFiles"
                   /\ SameLocks(q, new) /\ new.triggers = q.triggers
                   /\ ToSet(q.todo) = {} /\ ToSet(new.todo) = FilesIn(q.folder)
                \/ /\ DeleteNextFile(r)
                   /\ q.pc \in {"deletingFiles", "cascading"} /\ new.pc = q.pc
                   /\ new.counted = q.counted /\ new.gone = q.gone
                   /\ new.triggers = q.triggers
                   /\ new.doomed = q.doomed \cup ({next} \cap files)
                   /\ ToSet(q.todo) = {next} \cup ToSet(new.todo)
                \/ /\ DeleteFoldersRecursively(r)
                   /\ q.pc = "deletingFiles" /\ new.pc = "deletingFolders"
                   /\ SameLocks(q, new) /\ new.triggers = q.triggers
                   /\ ToSet(new.todo) = Subtree(q.folder)
                \/ /\ DeleteNextFolder(r) /\ ~Waits(r)
                   /\ q.pc = "deletingFolders" /\ new.pc = "deletingFolders"
                   /\ q.todo # <<>>
                   /\ new.counted = q.counted /\ new.doomed = q.doomed
                   /\ new.gone = q.gone \cup ({next} \cap folders)
                   /\ new.triggers = q.triggers \cup ({next} \cap folders)
                   /\ ToSet(q.todo) = {next} \cup ToSet(new.todo)
                \/ /\ Cascade(r)
                   /\ q.pc \in {"deletingFolders", "cascading"}
                   /\ new.pc = "cascading"
                   /\ SameLocks(q, new) /\ ToSet(q.todo) = {}
                   /\ \E d \in q.triggers :
                          /\ new.triggers = q.triggers \ {d}
                          /\ ToSet(new.todo)
                                 = {f \in files : f.folder = d} \ q.doomed
<1>. DEFINE q == requests[r]
            next == Head(q.todo)
<1>0. q \in RequestState /\ q.todo \in Seq(Rows)
  BY DEF TypeOK, RequestState, Rows
<1>1. ASSUME q.todo # <<>>
      PROVE  /\ Tail(q.todo) \in Seq(Rows)
             /\ ToSet(q.todo) = {next} \cup ToSet(Tail(q.todo))
  BY <1>0, <1>1, HeadAndTail
<1>2. CASE ListContents(r)
  <2>. DEFINE found == {f.content : f \in FilesIn(q.folder)}
  <2>1. found \in SUBSET Rows /\ IsFiniteSet(found)
    BY FilesInType DEF Rows
  <2>2. PICK state \in Scanning(q, "decrementing", found) : Become(r, state)
    BY <1>2 DEF ListContents
  <2>3. /\ SameCall(q, state) /\ SameLocks(q, state)
        /\ state.triggers = q.triggers
        /\ state.pc = "decrementing" /\ ToSet(state.todo) = found
    BY <1>0, <2>1, ScanningState DEF Pc, InTransaction
  <2>. QED
    BY <1>2, <2>2, <2>3, BecomeEffect DEF ListContents, InTransaction
<1>3. CASE DecrementContents(r)
  <2>. DEFINE new == [q EXCEPT !.todo = Tail(@),
                               !.counted = @ \cup ({next} \cap physicalFiles)]
  <2>1. Become(r, new) /\ q.todo # <<>> /\ q.pc = "decrementing"
    BY <1>3 DEF DecrementContents
  <2>2. /\ SameCall(q, new) /\ new.pc = q.pc /\ new.todo = Tail(q.todo)
        /\ new.counted = q.counted \cup ({next} \cap physicalFiles)
        /\ new.doomed = q.doomed /\ new.gone = q.gone
        /\ new.triggers = q.triggers
    BY <1>0, <1>1, <2>1 DEF RequestState, SameCall, TypeOK, Rows
  <2>. HIDE DEF new
  <2>. QED
    BY <1>1, <1>3, <2>1, <2>2, BecomeEffect DEF InTransaction
<1>4. CASE DeleteFilesInFolder(r)
  <2>. DEFINE found == FilesIn(q.folder)
  <2>1. found \in SUBSET Rows /\ IsFiniteSet(found)
    BY FilesInType DEF Rows
  <2>2. PICK state \in Scanning(q, "deletingFiles", found) : Become(r, state)
    BY <1>4 DEF DeleteFilesInFolder
  <2>3. /\ SameCall(q, state) /\ SameLocks(q, state)
        /\ state.triggers = q.triggers
        /\ state.pc = "deletingFiles" /\ ToSet(state.todo) = found
    BY <1>0, <2>1, ScanningState DEF Pc, InTransaction
  <2>. QED
    BY <1>4, <2>2, <2>3, BecomeEffect, NoRows
    DEF DeleteFilesInFolder, InTransaction
<1>5. CASE DeleteNextFile(r)
  <2>. DEFINE new == [q EXCEPT !.todo = Tail(@),
                               !.doomed = @ \cup ({next} \cap files)]
  <2>1. Become(r, new) /\ q.todo # <<>> /\ q.pc \in {"deletingFiles", "cascading"}
    BY <1>5 DEF DeleteNextFile
  <2>2. /\ SameCall(q, new) /\ new.pc = q.pc /\ new.todo = Tail(q.todo)
        /\ new.doomed = q.doomed \cup ({next} \cap files)
        /\ new.counted = q.counted /\ new.gone = q.gone
        /\ new.triggers = q.triggers
    BY <1>0, <1>1, <2>1 DEF RequestState, SameCall, TypeOK, Rows
  <2>. HIDE DEF new
  <2>. QED
    BY <1>1, <1>5, <2>1, <2>2, BecomeEffect DEF InTransaction
<1>6. CASE DeleteFoldersRecursively(r)
  <2>. DEFINE found == Subtree(q.folder)
  <2>1. found \in SUBSET Rows /\ IsFiniteSet(found)
    BY SubtreeType DEF Rows
  <2>2. PICK state \in Scanning(q, "deletingFolders", found) : Become(r, state)
    BY <1>6 DEF DeleteFoldersRecursively
  <2>3. /\ SameCall(q, state) /\ SameLocks(q, state)
        /\ state.triggers = q.triggers
        /\ state.pc = "deletingFolders" /\ ToSet(state.todo) = found
    BY <1>0, <2>1, ScanningState DEF Pc, InTransaction
  <2>. QED
    BY <1>6, <2>2, <2>3, BecomeEffect DEF DeleteFoldersRecursively, InTransaction
<1>7. CASE DeleteNextFolder(r)
  <2>. DEFINE deleted == {next} \cap folders
              new == [q EXCEPT !.todo = Tail(@), !.gone = @ \cup deleted,
                               !.triggers = @ \cup deleted]
  <2>1. /\ Become(r, new) /\ q.todo # <<>> /\ q.pc = "deletingFolders"
        /\ ~Waits(r)
    BY <1>7 DEF DeleteNextFolder
  <2>2. /\ SameCall(q, new) /\ new.pc = q.pc /\ new.todo = Tail(q.todo)
        /\ new.counted = q.counted /\ new.doomed = q.doomed
        /\ new.gone = q.gone \cup deleted
        /\ new.triggers = q.triggers \cup deleted
    BY <1>0, <1>1, <2>1 DEF RequestState, SameCall, TypeOK, Rows
  <2>. HIDE DEF new
  <2>. QED
    BY <1>1, <1>7, <2>1, <2>2, BecomeEffect DEF InTransaction
<1>8. CASE Cascade(r)
  <2>1. /\ q.pc \in {"deletingFolders", "cascading"} /\ q.todo = <<>>
        /\ \E d \in q.triggers :
               \E state \in Scanning([q EXCEPT !.triggers = @ \ {d}], "cascading",
                                     {f \in files : f.folder = d} \ q.doomed) :
                   Become(r, state)
    BY <1>8 DEF Cascade
  <2>2. PICK d \in q.triggers :
          \E state \in Scanning([q EXCEPT !.triggers = @ \ {d}], "cascading",
                                {f \in files : f.folder = d} \ q.doomed) :
              Become(r, state)
    BY <2>1
  <2>. DEFINE found == {f \in files : f.folder = d} \ q.doomed
              started == [q EXCEPT !.triggers = @ \ {d}]
  <2>3. found \in SUBSET Rows /\ IsFiniteSet(found)
    <3>1. found \subseteq files
      OBVIOUS
    <3>. QED
      BY <3>1, FS_Subset DEF TypeOK, Rows
  <2>4. /\ SameCall(q, started) /\ SameLocks(q, started)
        /\ started.triggers = q.triggers \ {d}
    BY <1>0 DEF RequestState, SameCall, SameLocks
  <2>. HIDE DEF started, found
  <2>5. PICK state \in Scanning(started, "cascading", found) : Become(r, state)
    BY <2>2 DEF started, found
  <2>6. /\ SameCall(started, state) /\ SameLocks(started, state)
        /\ state.triggers = started.triggers
        /\ state.pc = "cascading" /\ ToSet(state.todo) = found
    BY <2>3, <2>4, ScanningState DEF Pc, InTransaction, SameCall
  <2>7. requests'[r] = state /\ \A s \in Request \ {r} : requests'[s] = requests[s]
    BY <2>5, BecomeEffect
  <2>8. SameCall(q, state) /\ SameLocks(q, state)
    BY <2>4, <2>6 DEF SameCall, SameLocks
  <2>9. /\ state.triggers = q.triggers \ {d}
        /\ ToSet(state.todo) = {f \in files : f.folder = d} \ q.doomed
    BY <2>4, <2>6 DEF found
  <2>. QED
    BY <1>8, <2>1, <2>6, <2>7, <2>8, <2>9, NoRows DEF InTransaction
<1>. QED
  BY <1>2, <1>3, <1>4, <1>5, <1>6, <1>7, <1>8 DEF DeletionStep

LEMMA DeletionBecomes ==
  ASSUME TypeOK, NEW r \in Request, DeletionStep(r)
  PROVE  Become(r, requests'[r])
<1>1. \E state : Become(r, state)
  BY DEF DeletionStep, ListContents, DecrementContents, DeleteFilesInFolder,
         DeleteNextFile, DeleteFoldersRecursively, DeleteNextFolder, Cascade
<1>. QED
  BY <1>1, BecomeEffect

-----------------------------------------------------------------------------
(* Types. *)

LEMMA TypeInit == Init => TypeOK
  BY IdleType DEF Init, TypeOK

LEMMA TypeCreateReference ==
  ASSUME TypeOK, NEW h \in Hash, NEW d \in Folder \cup {Root},
         NEW original \in BOOLEAN, CreateFileReference(h, d, original)
  PROVE  files' \subseteq FileRow /\ history' \subseteq FileRow
  BY DEF TypeOK, CreateFileReference, FileRow

LEMMA TypeStart ==
  ASSUME TypeOK, NEW r \in Request, Start(r)
  PROVE  TypeOK'
<1>1. ASSUME NEW h \in Hash, NEW d \in Folder \cup {Root},
             PreUploadCheck(r, h, d)
      PROVE  TypeOK'
  <2>1. Call("reuse", None, h, d) \in RequestState
    BY DEF Call, RequestState, Pc
  <2>2. requests' \in [Request -> RequestState]
    BY <1>1, <2>1, BecomeType DEF PreUploadCheck, TypeOK
  <2>. QED
    BY <1>1, <2>2 DEF PreUploadCheck, TypeOK, tables, worker
<1>2. ASSUME NEW h \in Hash, NEW d \in Folder \cup {Root},
             VerifyUpload(r, h, d)
      PROVE  TypeOK'
  <2>1. Call("verified", None, h, d) \in RequestState
    BY DEF Call, RequestState, Pc
  <2>2. requests' \in [Request -> RequestState]
    BY <1>2, <2>1, BecomeType DEF VerifyUpload, TypeOK
  <2>. QED
    BY <1>2, <2>2 DEF VerifyUpload, TypeOK, tables, bucket, worker
<1>3. ASSUME NEW f \in files, FindFile(r, f)
      PROVE  TypeOK'
  <2>1. Call("deleteRow", f.id, f.content, None) \in RequestState
    BY DEF Call, RequestState, Pc, TypeOK, FileRow
  <2>2. requests' \in [Request -> RequestState]
    BY <1>3, <2>1, BecomeType DEF FindFile, TypeOK
  <2>. QED
    BY <1>3, <2>2 DEF FindFile, TypeOK, tables, bucket, worker
<1>4. ASSUME NEW d \in Folder, FindFolder(r, d)
      PROVE  TypeOK'
  <2>1. Call("begun", None, None, d) \in RequestState
    BY DEF Call, RequestState, Pc, InTransaction
  <2>2. requests' \in [Request -> RequestState]
    BY <1>4, <2>1, BecomeType DEF FindFolder, TypeOK
  <2>. QED
    BY <1>4, <2>2 DEF FindFolder, TypeOK, tables, bucket, worker
<1>. QED
  BY <1>1, <1>2, <1>3, <1>4 DEF Start

LEMMA TypeContinue ==
  ASSUME TypeOK, IsFiniteSet(files), ArgumentsOK, NEW r \in Request, Continue(r)
  PROVE  TypeOK'
<1>. DEFINE q == requests[r]
<1>q. q \in RequestState
  BY DEF TypeOK
<1>1. CASE ReuseContent(r)
  <2>1. files' \subseteq FileRow /\ history' \subseteq FileRow
    BY <1>1, TypeCreateReference DEF ReuseContent, ArgumentsOK, TypeOK
  <2>2. requests' \in [Request -> RequestState]
    BY <1>1, IdleType, BecomeType DEF ReuseContent, TypeOK
  <2>. QED
    BY <1>1, <2>1, <2>2 DEF ReuseContent, TypeOK, bucket, worker
<1>2. CASE RecordUpload(r)
  <2>1. files' \subseteq FileRow /\ history' \subseteq FileRow
    BY <1>2, TypeCreateReference DEF RecordUpload, ArgumentsOK, TypeOK
  <2>2. requests' \in [Request -> RequestState]
    BY <1>2, IdleType, BecomeType DEF RecordUpload, TypeOK
  <2>3. q.content \in Hash
    BY <1>2 DEF RecordUpload, ArgumentsOK
  <2>4. physicalFiles' \subseteq Hash /\ referenceCount' \in [Hash -> Int]
    <3>1. CASE CreatePhysicalFile(q.content)
      BY <2>3, <3>1 DEF CreatePhysicalFile, TypeOK
    <3>2. CASE UNCHANGED <<physicalFiles, referenceCount>>
      BY <3>2 DEF TypeOK
    <3>. QED
      BY <1>2, <3>1, <3>2 DEF RecordUpload
  <2>. QED
    BY <1>2, <2>1, <2>2, <2>4 DEF RecordUpload, TypeOK, bucket, worker
<1>3. CASE DeleteFileRow(r)
  <2>1. [q EXCEPT !.pc = "decrement"] \in RequestState
    BY <1>q DEF RequestState, Pc
  <2>2. requests' \in [Request -> RequestState]
    BY <1>3, <2>1, BecomeType DEF DeleteFileRow, TypeOK
  <2>. QED
    BY <1>3, <2>2
    DEF DeleteFileRow, DeleteFileReference, TypeOK, bucket, worker
<1>4. CASE DecrementCount(r)
  <2>1. requests' \in [Request -> RequestState]
    BY <1>4, IdleType, BecomeType DEF DecrementCount, TypeOK
  <2>2. referenceCount' \in [Hash -> Int]
    BY <1>4 DEF DecrementCount, ArgumentsOK, TypeOK
  <2>. QED
    BY <1>4, <2>1, <2>2 DEF DecrementCount, TypeOK, bucket, worker
<1>5. CASE DeletionStep(r)
  <2>1. /\ requests'[r] \in RequestState
        /\ \A s \in Request \ {r} : requests'[s] = requests[s]
    BY <1>5, DeletionMoves DEF SameCall
  <2>2. requests' = [requests EXCEPT ![r] = requests'[r]]
    BY <1>5, DeletionBecomes DEF Become, TypeOK
  <2>3. requests' \in [Request -> RequestState]
    BY <2>1, <2>2 DEF TypeOK
  <2>. QED
    BY <1>5, <2>3, DeletionKeepsTables DEF TypeOK, tables, bucket, worker
<1>6. CASE CommitDeleteFolder(r)
  <2>1. requests' \in [Request -> RequestState]
    BY <1>6, IdleType, BecomeType DEF CommitDeleteFolder, TypeOK
  <2>2. referenceCount' \in [Hash -> Int]
    BY <1>6 DEF CommitDeleteFolder, TypeOK
  <2>. QED
    BY <1>6, <2>1, <2>2 DEF CommitDeleteFolder, TypeOK, bucket, worker
<1>. QED
  BY <1>1, <1>2, <1>3, <1>4, <1>5, <1>6, ContinueKinds

LEMMA TypeOthers ==
  ASSUME TypeOK, Client \/ CleanupFiles \/ Failure
  PROVE  TypeOK'
<1>1. CASE Client
  BY <1>1 DEF Client, PutObject, UrlExpires, TypeOK, tables, worker
<1>2. CASE CleanupFiles
  BY <1>2 DEF CleanupFiles, ListForCleanup, DeleteObject, DeleteRecord,
              DeleteFileReference, Condemned, TypeOK, tables, bucket
<1>3. CASE Failure
  <2>1. ASSUME NEW h \in Hash, PreUploadCheckMisses(h) \/ DeleteObjectFails(h)
        PROVE  TypeOK'
    BY <2>1 DEF PreUploadCheckMisses, DeleteObjectFails, TypeOK, tables,
                bucket, worker
  <2>2. ASSUME NEW r \in Request, Abort(r)
        PROVE  TypeOK'
    <3>1. requests' \in [Request -> RequestState]
      BY <2>2, IdleType, BecomeType DEF Abort, TypeOK
    <3>. QED
      BY <2>2, <3>1 DEF Abort, TypeOK, tables, bucket, worker
  <2>3. CASE Crash
    BY <2>3, IdleType DEF Crash, TypeOK, tables, bucket
  <2>. QED
    BY <1>3, <2>1, <2>2, <2>3, FailureKinds
<1>. QED
  BY <1>1, <1>2, <1>3

LEMMA TypeNext ==
  ASSUME TypeOK, IsFiniteSet(files), ArgumentsOK, Next
  PROVE  TypeOK'
  BY TypeStart, TypeContinue, TypeOthers DEF Next, NextWithoutFailure

\* The table of files stays finite: an INSERT adds one row.
LEMMA FiniteNext ==
  ASSUME IsFiniteSet(files), Next
  PROVE  IsFiniteSet(files')
<1>1. ASSUME files' \subseteq files
      PROVE  IsFiniteSet(files')
  BY <1>1, FS_Subset
<1>2. ASSUME NEW h, NEW d, NEW original, CreateFileReference(h, d, original)
      PROVE  IsFiniteSet(files')
  <2>1. \E row : files' = files \cup {row}
    BY <1>2 DEF CreateFileReference
  <2>. QED
    BY <2>1, FS_AddElement
<1>3. ASSUME NEW r \in Request, Start(r) \/ Abort(r)
      PROVE  files' \subseteq files
  BY <1>3 DEF Start, PreUploadCheck, VerifyUpload, FindFile, FindFolder, Abort,
              tables
<1>4. ASSUME NEW r \in Request, Continue(r)
      PROVE  \/ files' \subseteq files
             \/ \E h, d, original : CreateFileReference(h, d, original)
  BY <1>4, ContinueKinds, DeletionKeepsTables
  DEF ReuseContent, RecordUpload, DeleteFileRow, DeleteFileReference,
      DecrementCount, CommitDeleteFolder, tables
<1>5. CASE Client \/ CleanupFiles
  BY <1>1, <1>5 DEF Client, PutObject, UrlExpires, CleanupFiles,
         ListForCleanup, DeleteObject, DeleteRecord, DeleteFileReference, tables
<1>6. CASE Failure
  BY <1>1, <1>3, <1>6, FailureKinds
  DEF PreUploadCheckMisses, DeleteObjectFails, Crash, tables
<1>. QED
  BY <1>1, <1>2, <1>3, <1>4, <1>5, <1>6 DEF Next, NextWithoutFailure

-----------------------------------------------------------------------------
(* The arguments of a request that waits. *)

LEMMA ArgumentsInit == Init => ArgumentsOK
  BY DEF Init, ArgumentsOK, Idle, Call, InTransaction

\* A request that is given well-formed arguments leaves the others theirs.
LEMMA ArgumentsBecome ==
  ASSUME TypeOK, ArgumentsOK, NEW r \in Request, NEW state, Become(r, state),
         state.pc \in {"reuse", "verified"} =>
             state.content \in Hash /\ state.folder \in Folder \cup {Root},
         state.pc \in {"deleteRow", "decrement"} =>
             state.content \in Hash /\ state.file \in FileId,
         state.pc \in InTransaction => state.folder \in Folder
  PROVE  ArgumentsOK'
  BY BecomeEffect DEF ArgumentsOK

LEMMA ArgumentsNext ==
  ASSUME TypeOK, IsFiniteSet(files), ArgumentsOK, Next
  PROVE  ArgumentsOK'
<1>1. ASSUME NEW r \in Request, Start(r)
      PROVE  ArgumentsOK'
  <2>1. ASSUME NEW h \in Hash, NEW d \in Folder \cup {Root},
               PreUploadCheck(r, h, d) \/ VerifyUpload(r, h, d)
        PROVE  ArgumentsOK'
    BY <2>1, ArgumentsBecome
    DEF PreUploadCheck, VerifyUpload, Call, InTransaction, ArgumentsOK
  <2>2. ASSUME NEW f \in files, FindFile(r, f)
        PROVE  ArgumentsOK'
    BY <2>2, ArgumentsBecome
    DEF FindFile, Call, InTransaction, TypeOK, FileRow
  <2>3. ASSUME NEW d \in Folder, FindFolder(r, d)
        PROVE  ArgumentsOK'
    BY <2>3, ArgumentsBecome DEF FindFolder, Call
  <2>. QED
    BY <1>1, <2>1, <2>2, <2>3 DEF Start
<1>2. ASSUME NEW r \in Request, Continue(r)
      PROVE  ArgumentsOK'
  <2>. DEFINE q == requests[r]
  <2>0. q \in RequestState
    BY DEF TypeOK
  <2>1. CASE Become(r, Idle)
    BY <2>1, ArgumentsBecome DEF Idle, Call, InTransaction
  <2>2. CASE DeleteFileRow(r)
    BY <2>0, <2>2, ArgumentsBecome
    DEF DeleteFileRow, RequestState, InTransaction, ArgumentsOK
  <2>3. CASE DeletionStep(r)
    <3>1. /\ SameCall(q, requests'[r])
          /\ q.pc \in InTransaction /\ requests'[r].pc \in InTransaction
          /\ Become(r, requests'[r])
      BY <2>3, DeletionMoves, DeletionBecomes
    <3>2. requests'[r].pc \notin {"reuse", "verified", "deleteRow", "decrement"}
      BY <3>1 DEF InTransaction
    <3>3. requests'[r].folder \in Folder
      BY <3>1 DEF SameCall, ArgumentsOK
    <3>. QED
      BY <3>1, <3>2, <3>3, ArgumentsBecome
  <2>. QED
    BY <1>2, <2>1, <2>2, <2>3, ContinueKinds
    DEF ReuseContent, RecordUpload, DecrementCount, CommitDeleteFolder
<1>3. CASE Client \/ CleanupFiles
  BY <1>3 DEF Client, PutObject, UrlExpires, CleanupFiles, ListForCleanup,
              DeleteObject, DeleteRecord, ArgumentsOK
<1>4. CASE Failure
  <2>1. ASSUME NEW r \in Request, Abort(r)
        PROVE  ArgumentsOK'
    BY <2>1, ArgumentsBecome DEF Abort, Idle, Call, InTransaction
  <2>2. CASE Crash
    BY <2>2 DEF Crash, ArgumentsOK, Idle, Call, InTransaction
  <2>3. ASSUME NEW h \in Hash, PreUploadCheckMisses(h) \/ DeleteObjectFails(h)
        PROVE  ArgumentsOK'
    BY <2>3 DEF PreUploadCheckMisses, DeleteObjectFails, ArgumentsOK
  <2>. QED
    BY <1>4, <2>1, <2>2, <2>3, FailureKinds
<1>. QED
  BY <1>1, <1>2, <1>3, <1>4 DEF Next, NextWithoutFailure

\* Every reachable state is well-typed, whatever fails.
THEOREM TypeCorrect == Spec => []TypeOK
<1>. DEFINE Inv == TypeOK /\ IsFiniteSet(files) /\ ArgumentsOK
<1>1. Init => Inv
  BY TypeInit, ArgumentsInit, FS_EmptySet DEF Init
<1>2. Inv /\ [Next]_vars => Inv'
  <2>1. ASSUME Inv, Next
        PROVE  Inv'
    BY <2>1, TypeNext, FiniteNext, ArgumentsNext
  <2>2. ASSUME Inv, UNCHANGED vars
        PROVE  Inv'
    BY <2>2 DEF TypeOK, ArgumentsOK, vars, tables, bucket, worker
  <2>. QED
    BY <2>1, <2>2
<1>3. Inv => TypeOK
  OBVIOUS
<1>. QED
  BY <1>1, <1>2, <1>3, PTL DEF Spec

-----------------------------------------------------------------------------
(* What a step does to the rows: it inserts one, or it inserts none. *)

Inserted(row) ==
  /\ row \in FileRow
  /\ \A f \in history : f.id # row.id
  /\ history' = history \cup {row}
  /\ files' = files \cup {row}
  /\ folders' = folders
  /\ row.folder \in folders \cup {Root}
  /\ FolderIsFree(row.folder)
  /\ physicalFiles' = physicalFiles \cup {row.content}
  /\ row.original => row.content \notin physicalFiles

NothingInserted ==
  /\ history' = history
  /\ files' \subseteq files
  /\ physicalFiles' = physicalFiles

LEMMA CreateReferenceInserts ==
  ASSUME TypeOK, NEW h \in Hash, NEW d \in Folder \cup {Root},
         NEW original \in BOOLEAN, CreateFileReference(h, d, original),
         folders' = folders, physicalFiles' = physicalFiles \cup {h},
         original => h \notin physicalFiles
  PROVE  \E row \in FileRow : Inserted(row) /\ row.content = h
<1>1. PICK i \in FileId :
        LET row == [id |-> i, content |-> h, folder |-> d,
                    original |-> original]
        IN  /\ \A f \in history : f.id # i
            /\ d \in folders \cup {Root}
            /\ FolderIsFree(d)
            /\ files' = files \cup {row}
            /\ history' = history \cup {row}
  BY DEF CreateFileReference
<1>. DEFINE row == [id |-> i, content |-> h, folder |-> d,
                    original |-> original]
<1>2. row \in FileRow /\ row.content = h
  BY DEF FileRow
<1>3. Inserted(row)
  BY <1>1, <1>2 DEF Inserted
<1>. QED
  BY <1>2, <1>3

LEMMA ReuseInserts ==
  ASSUME TypeOK, ArgumentsOK, ReferencesResolve,
         NEW r \in Request, ReuseContent(r)
  PROVE  NothingInserted \/ \E row \in FileRow : Inserted(row)
<1>1. /\ requests[r].content \in Hash
      /\ requests[r].folder \in Folder \cup {Root}
      /\ requests[r].content \in physicalFiles
  BY DEF ReuseContent, ArgumentsOK, ReferencesResolve
<1>2. physicalFiles' = physicalFiles /\ folders' = folders
  BY DEF ReuseContent
<1>3. CASE CreateFileReference(requests[r].content, requests[r].folder, FALSE)
  BY <1>1, <1>2, <1>3, CreateReferenceInserts
<1>4. CASE UNCHANGED <<files, history>>
  BY <1>2, <1>4 DEF NothingInserted
<1>. QED
  BY <1>3, <1>4 DEF ReuseContent

LEMMA RecordInserts ==
  ASSUME TypeOK, ArgumentsOK, NEW r \in Request, RecordUpload(r)
  PROVE  \/ NothingInserted /\ UNCHANGED referenceCount
         \/ /\ CreatePhysicalFile(requests[r].content)
            /\ \E row \in FileRow :
                   Inserted(row) /\ row.content = requests[r].content
<1>1. /\ requests[r].content \in Hash
      /\ requests[r].folder \in Folder \cup {Root}
  BY DEF RecordUpload, ArgumentsOK
<1>2. CASE /\ CreatePhysicalFile(requests[r].content)
           /\ CreateFileReference(requests[r].content, requests[r].folder, TRUE)
  <2>1. /\ physicalFiles' = physicalFiles \cup {requests[r].content}
        /\ requests[r].content \notin physicalFiles
        /\ folders' = folders
    BY <1>2 DEF CreatePhysicalFile, RecordUpload
  <2>. QED
    BY <1>1, <1>2, <2>1, CreateReferenceInserts
<1>3. CASE UNCHANGED <<physicalFiles, referenceCount, files, history>>
  BY <1>3 DEF NothingInserted
<1>. QED
  BY <1>2, <1>3 DEF RecordUpload

LEMMA RowsNext ==
  ASSUME TypeOK, ArgumentsOK, ReferencesResolve, Next
  PROVE  NothingInserted \/ \E row \in FileRow : Inserted(row)
<1>1. ASSUME NEW r \in Request, Start(r)
      PROVE  NothingInserted
  BY <1>1 DEF Start, PreUploadCheck, VerifyUpload, FindFile, FindFolder,
              NothingInserted, tables
<1>2. ASSUME NEW r \in Request, Continue(r), ~ReuseContent(r), ~RecordUpload(r)
      PROVE  NothingInserted
  BY <1>2, ContinueKinds, DeletionKeepsTables
  DEF DeleteFileRow, DeleteFileReference, DecrementCount, CommitDeleteFolder,
      NothingInserted, tables
<1>3. CASE Client \/ CleanupFiles \/ Failure
  BY <1>3, FailureKinds
  DEF Client, PutObject, UrlExpires, CleanupFiles, ListForCleanup,
      DeleteObject, DeleteRecord, DeleteFileReference,
      PreUploadCheckMisses, DeleteObjectFails, Abort, Crash,
      NothingInserted, tables
<1>. QED
  BY <1>1, <1>2, <1>3, ReuseInserts, RecordInserts
  DEF Next, NextWithoutFailure

-----------------------------------------------------------------------------
(* References and originals. *)

\* A request goes on to its next statement or ends; none starts over.
LEMMA ContinueBecomes ==
  ASSUME TypeOK, IsFiniteSet(files), NEW r \in Request, Continue(r)
  PROVE  \E state : /\ Become(r, state)
                    /\ state.pc \in {"idle", "decrement"} \cup InTransaction
<1>. DEFINE q == requests[r]
<1>0. q \in RequestState
  BY DEF TypeOK
<1>1. CASE Become(r, Idle)
  BY <1>1 DEF Idle, Call
<1>2. CASE DeleteFileRow(r)
  <2>1. [q EXCEPT !.pc = "decrement"].pc = "decrement"
    BY <1>0 DEF RequestState
  <2>. QED
    BY <1>2, <2>1 DEF DeleteFileRow
<1>3. CASE DeletionStep(r)
  BY <1>3, DeletionMoves, DeletionBecomes
<1>. QED
  BY <1>1, <1>2, <1>3, ContinueKinds
  DEF ReuseContent, RecordUpload, DecrementCount, CommitDeleteFolder

\* Only PreUploadCheck makes a request one that reuses content.
LEMMA ReuseNext ==
  ASSUME TypeOK, IsFiniteSet(files), ArgumentsOK, ReferencesResolve, Next,
         NEW s \in Request, requests'[s].pc = "reuse"
  PROVE  requests'[s].content \in physicalFiles
<1>1. ASSUME NEW r \in Request, Start(r)
      PROVE  requests'[s].content \in physicalFiles
  <2>1. ASSUME NEW h \in Hash, NEW d \in Folder \cup {Root},
               PreUploadCheck(r, h, d)
        PROVE  requests'[s].content \in physicalFiles
    BY <2>1, BecomeEffect DEF PreUploadCheck, Call, ReferencesResolve
  <2>2. ASSUME NEW h \in Hash, NEW d \in Folder \cup {Root},
               VerifyUpload(r, h, d)
        PROVE  requests'[s].content \in physicalFiles
    BY <2>2, BecomeEffect DEF VerifyUpload, Call, ReferencesResolve
  <2>3. ASSUME NEW f \in files, FindFile(r, f)
        PROVE  requests'[s].content \in physicalFiles
    BY <2>3, BecomeEffect DEF FindFile, Call, ReferencesResolve
  <2>4. ASSUME NEW d \in Folder, FindFolder(r, d)
        PROVE  requests'[s].content \in physicalFiles
    BY <2>4, BecomeEffect DEF FindFolder, Call, ReferencesResolve
  <2>. QED
    BY <1>1, <2>1, <2>2, <2>3, <2>4 DEF Start
<1>2. ASSUME NEW r \in Request, Continue(r)
      PROVE  requests'[s].content \in physicalFiles
  <2>1. \E state : Become(r, state) /\ state.pc # "reuse"
    BY <1>2, ContinueBecomes DEF InTransaction
  <2>. QED
    BY <2>1, BecomeEffect DEF ReferencesResolve
<1>3. CASE Client \/ CleanupFiles
  BY <1>3 DEF Client, PutObject, UrlExpires, CleanupFiles, ListForCleanup,
              DeleteObject, DeleteRecord, ReferencesResolve
<1>4. CASE Failure
  <2>1. ASSUME NEW r \in Request, Abort(r)
        PROVE  requests'[s].content \in physicalFiles
    BY <2>1, BecomeEffect DEF Abort, Idle, Call, ReferencesResolve
  <2>2. ASSUME NEW h \in Hash, PreUploadCheckMisses(h) \/ DeleteObjectFails(h)
        PROVE  requests'[s].content \in physicalFiles
    BY <2>2 DEF PreUploadCheckMisses, DeleteObjectFails, ReferencesResolve
  <2>3. CASE Crash
    BY <2>3 DEF Crash, Idle, Call
  <2>. QED
    BY <1>4, <2>1, <2>2, <2>3, FailureKinds
<1>. QED
  BY <1>1, <1>2, <1>3, <1>4 DEF Next, NextWithoutFailure

LEMMA ReferencesNext ==
  ASSUME TypeOK, IsFiniteSet(files), ArgumentsOK, ReferencesResolve, Next
  PROVE  ReferencesResolve'
<1>1. /\ files' \subseteq history'
      /\ \A f \in history' : f.content \in physicalFiles'
      /\ physicalFiles \subseteq physicalFiles'
  BY RowsNext DEF Inserted, NothingInserted, ReferencesResolve
<1>2. \A s \in Request :
          requests'[s].pc = "reuse" => requests'[s].content \in physicalFiles'
  BY <1>1, ReuseNext
<1>. QED
  BY <1>1, <1>2 DEF ReferencesResolve

LEMMA OriginalNext ==
  ASSUME TypeOK, ArgumentsOK, ReferencesResolve, OneOriginalPerContent, Next
  PROVE  OneOriginalPerContent'
<1>1. CASE NothingInserted
  BY <1>1 DEF NothingInserted, OneOriginalPerContent
<1>2. ASSUME NEW row \in FileRow, Inserted(row)
      PROVE  OneOriginalPerContent'
  BY <1>2 DEF Inserted, OneOriginalPerContent, ReferencesResolve
<1>. QED
  BY <1>1, <1>2, RowsNext

-----------------------------------------------------------------------------
(* Counts, the bucket and the worker. *)

CountsFall ==
  /\ physicalFiles \subseteq physicalFiles'
  /\ \A h \in physicalFiles : referenceCount'[h] <= referenceCount[h]

\* No step raises the count of a physical file.
LEMMA CountNext ==
  ASSUME TypeOK, ArgumentsOK, ReferencesResolve, Next
  PROVE  CountsFall
<1>1. physicalFiles \subseteq physicalFiles'
  BY RowsNext DEF Inserted, NothingInserted
<1>2. CASE UNCHANGED referenceCount
  BY <1>1, <1>2 DEF CountsFall, TypeOK
<1>3. ASSUME NEW r \in Request, RecordUpload(r)
      PROVE  CountsFall
  <2>1. CASE UNCHANGED referenceCount
    BY <1>2, <2>1
  <2>2. CASE CreatePhysicalFile(requests[r].content)
    BY <1>1, <2>2 DEF CreatePhysicalFile, CountsFall, TypeOK
  <2>. QED
    BY <1>3, <2>1, <2>2 DEF RecordUpload
<1>4. ASSUME NEW r \in Request, DecrementCount(r)
      PROVE  CountsFall
  BY <1>1, <1>4 DEF DecrementCount, CountsFall, TypeOK
<1>5. ASSUME NEW r \in Request, CommitDeleteFolder(r)
      PROVE  CountsFall
  BY <1>1, <1>5 DEF CommitDeleteFolder, CountsFall, TypeOK
<1>6. ASSUME NEW r \in Request, Start(r)
      PROVE  UNCHANGED referenceCount
  BY <1>6 DEF Start, PreUploadCheck, VerifyUpload, FindFile, FindFolder, tables
<1>7. ASSUME NEW r \in Request, Continue(r), ~RecordUpload(r),
             ~DecrementCount(r), ~CommitDeleteFolder(r)
      PROVE  UNCHANGED referenceCount
  BY <1>7, ContinueKinds, DeletionKeepsTables
  DEF ReuseContent, DeleteFileRow, tables
<1>8. CASE Client \/ CleanupFiles \/ Failure
  BY <1>2, <1>8, FailureKinds
  DEF Client, PutObject, UrlExpires, CleanupFiles, ListForCleanup,
      DeleteObject, DeleteRecord, PreUploadCheckMisses, DeleteObjectFails,
      Abort, Crash, tables
<1>. QED
  BY <1>2, <1>3, <1>4, <1>5, <1>6, <1>7, <1>8 DEF Next, NextWithoutFailure

\* Condemned content stays condemned.
LEMMA CondemnedNext ==
  ASSUME TypeOK, TypeOK', CountsFall
  PROVE  Condemned \subseteq Condemned'
  BY DEF CountsFall, Condemned, TypeOK

LEMMA CleanupNext ==
  ASSUME TypeOK, TypeOK', CountsFall, CleanupOnlyCondemned, Next
  PROVE  CleanupOnlyCondemned'
<1>1. Condemned \subseteq Condemned'
  BY CondemnedNext
<1>2. CASE UNCHANGED worker
  BY <1>1, <1>2 DEF CleanupOnlyCondemned, worker
<1>3. CASE CleanupFiles \/ Failure
  <2>1. \A h \in cleanupList' \cup ({collected'} \ {None}) : h \in Condemned
    BY <1>3, FailureKinds
    DEF CleanupFiles, ListForCleanup, DeleteObject, DeleteRecord,
        PreUploadCheckMisses, DeleteObjectFails, Abort, Crash,
        CleanupOnlyCondemned, worker
  <2>. QED
    BY <1>1, <2>1 DEF CleanupOnlyCondemned
<1>4. ASSUME NEW r \in Request, Start(r) \/ Continue(r)
      PROVE  UNCHANGED worker
  BY <1>4, ContinueKinds, DeletionKeepsTables
  DEF Start, PreUploadCheck, VerifyUpload, FindFile, FindFolder, ReuseContent,
      RecordUpload, DeleteFileRow, DecrementCount, CommitDeleteFolder
<1>5. ASSUME Client
      PROVE  UNCHANGED worker
  BY <1>5 DEF Client, PutObject, UrlExpires
<1>. QED
  BY <1>2, <1>3, <1>4, <1>5 DEF Next, NextWithoutFailure

\* Only the worker takes objects out of the bucket, and only condemned ones.
LEMMA ObjectsNext ==
  ASSUME CleanupOnlyCondemned, Next
  PROVE  objects \ Condemned \subseteq objects'
<1>1. ASSUME NEW r \in Request, Start(r) \/ Continue(r)
      PROVE  UNCHANGED objects
  BY <1>1, ContinueKinds, DeletionKeepsTables
  DEF Start, PreUploadCheck, VerifyUpload, FindFile, FindFolder, ReuseContent,
      RecordUpload, DeleteFileRow, DecrementCount, CommitDeleteFolder, bucket
<1>2. CASE Client
  BY <1>2 DEF Client, PutObject, UrlExpires
<1>3. CASE CleanupFiles
  BY <1>3 DEF CleanupFiles, ListForCleanup, DeleteObject, DeleteRecord, bucket,
              CleanupOnlyCondemned
<1>4. CASE Failure
  BY <1>4, FailureKinds
  DEF PreUploadCheckMisses, DeleteObjectFails, Abort, Crash, bucket
<1>. QED
  BY <1>1, <1>2, <1>3, <1>4 DEF Next, NextWithoutFailure

\* Only VerifyUpload makes a request one that has verified an upload.
LEMMA VerifiedArguments ==
  ASSUME TypeOK, IsFiniteSet(files), Next, NEW s \in Request, requests'[s].pc = "verified"
  PROVE  \/ requests'[s] = requests[s]
         \/ requests'[s].content \in objects
<1>1. ASSUME NEW r \in Request, Start(r)
      PROVE  \/ requests'[s] = requests[s]
             \/ requests'[s].content \in objects
  <2>1. ASSUME NEW h \in Hash, NEW d \in Folder \cup {Root},
               PreUploadCheck(r, h, d)
        PROVE  requests'[s] = requests[s]
    BY <2>1, BecomeEffect DEF PreUploadCheck, Call
  <2>2. ASSUME NEW h \in Hash, NEW d \in Folder \cup {Root},
               VerifyUpload(r, h, d)
        PROVE  \/ requests'[s] = requests[s]
               \/ requests'[s].content \in objects
    BY <2>2, BecomeEffect DEF VerifyUpload, Call
  <2>3. ASSUME NEW f \in files, FindFile(r, f)
        PROVE  requests'[s] = requests[s]
    BY <2>3, BecomeEffect DEF FindFile, Call
  <2>4. ASSUME NEW d \in Folder, FindFolder(r, d)
        PROVE  requests'[s] = requests[s]
    BY <2>4, BecomeEffect DEF FindFolder, Call
  <2>. QED
    BY <1>1, <2>1, <2>2, <2>3, <2>4 DEF Start
<1>2. ASSUME NEW r \in Request, Continue(r)
      PROVE  requests'[s] = requests[s]
  BY <1>2, ContinueBecomes, BecomeEffect DEF InTransaction
<1>3. CASE Client \/ CleanupFiles
  BY <1>3 DEF Client, PutObject, UrlExpires, CleanupFiles, ListForCleanup,
              DeleteObject, DeleteRecord
<1>4. CASE Failure
  <2>1. ASSUME NEW r \in Request, Abort(r)
        PROVE  requests'[s] = requests[s]
    BY <2>1, BecomeEffect DEF Abort, Idle, Call
  <2>. QED
    BY <1>4, <2>1, FailureKinds
    DEF PreUploadCheckMisses, DeleteObjectFails, Crash, Idle, Call
<1>. QED
  BY <1>1, <1>2, <1>3, <1>4 DEF Next, NextWithoutFailure

LEMMA VerifiedNext ==
  ASSUME TypeOK, IsFiniteSet(files), ArgumentsOK, ReferencesResolve, CleanupOnlyCondemned,
         VerifiedIsStored, Next
  PROVE  VerifiedIsStored'
<1>1. physicalFiles \subseteq physicalFiles'
  BY CountNext DEF CountsFall
<1>2. objects \subseteq physicalFiles \cup objects'
  BY ObjectsNext DEF Condemned
<1>3. ASSUME NEW s \in Request, requests'[s].pc = "verified"
      PROVE  requests'[s].content \in physicalFiles \cup objects
  BY <1>3, VerifiedArguments DEF VerifiedIsStored
<1>. QED
  BY <1>1, <1>2, <1>3 DEF VerifiedIsStored

\* New rows of physical_files come from RecordUpload, which verified them.
LEMMA NewRowsAreStored ==
  ASSUME TypeOK, ArgumentsOK, ReferencesResolve, VerifiedIsStored, Next
  PROVE  physicalFiles' \ physicalFiles \subseteq objects
<1>1. ASSUME NEW r \in Request, RecordUpload(r)
      PROVE  physicalFiles' \ physicalFiles \subseteq objects
  BY <1>1 DEF RecordUpload, CreatePhysicalFile, VerifiedIsStored
<1>2. ASSUME NEW r \in Request, Start(r) \/ Continue(r), ~RecordUpload(r)
      PROVE  physicalFiles' = physicalFiles
  BY <1>2, ContinueKinds, DeletionKeepsTables
  DEF Start, PreUploadCheck, VerifyUpload, FindFile, FindFolder, ReuseContent,
      DeleteFileRow, DecrementCount, CommitDeleteFolder, tables
<1>3. CASE Client \/ CleanupFiles \/ Failure
  BY <1>3, FailureKinds
  DEF Client, PutObject, UrlExpires, CleanupFiles, ListForCleanup,
      DeleteObject, DeleteRecord, PreUploadCheckMisses, DeleteObjectFails,
      Abort, Crash, tables
<1>. QED
  BY <1>1, <1>2, <1>3 DEF Next, NextWithoutFailure

LEMMA AvailableNext ==
  ASSUME TypeOK, TypeOK', ArgumentsOK, ReferencesResolve,
         CleanupOnlyCondemned, VerifiedIsStored, KeptContentAvailable, Next
  PROVE  KeptContentAvailable'
<1>1. Condemned \subseteq Condemned'
  BY CountNext, CondemnedNext
<1>2. ASSUME NEW h \in Kept'
      PROVE  h \in objects'
  <2>1. h \notin Condemned
    BY <1>1, <1>2 DEF Kept, Condemned, TypeOK
  <2>2. CASE h \in physicalFiles
    <3>1. h \in Kept
      BY <2>1, <2>2 DEF Kept, Condemned, TypeOK
    <3>. QED
      BY <2>1, <3>1, ObjectsNext DEF KeptContentAvailable
  <2>3. CASE h \notin physicalFiles
    BY <1>2, <2>1, <2>3, NewRowsAreStored, ObjectsNext DEF Kept
  <2>. QED
    BY <2>2, <2>3
<1>. QED
  BY <1>2 DEF KeptContentAvailable

-----------------------------------------------------------------------------
(* Folders and the locks of DeleteFolder. *)

\* What a step may do to the state of one request.
LEMMA RequestNext ==
  ASSUME TypeOK, IsFiniteSet(files), Next, NEW s \in Request
  PROVE  \/ requests'[s] = requests[s]
         \/ requests'[s] = Idle
         \/ Start(s) \/ DeleteFileRow(s) \/ DeletionStep(s)
<1>1. ASSUME NEW r \in Request, Start(r), r # s
      PROVE  requests'[s] = requests[s]
  <2>1. UNCHANGED requests \/ \E state : Become(r, state)
    BY <1>1 DEF Start, PreUploadCheck, VerifyUpload, FindFile, FindFolder
  <2>. QED
    BY <1>1, <2>1, BecomeEffect
<1>2. ASSUME NEW r \in Request, Continue(r), r # s
      PROVE  requests'[s] = requests[s]
  BY <1>2, ContinueBecomes, BecomeEffect
<1>3. CASE Continue(s)
  BY <1>3, BecomeEffect, ContinueKinds
  DEF ReuseContent, RecordUpload, DecrementCount, CommitDeleteFolder
<1>4. CASE Client \/ CleanupFiles
  BY <1>4 DEF Client, PutObject, UrlExpires, CleanupFiles, ListForCleanup,
              DeleteObject, DeleteRecord
<1>5. CASE Failure
  BY <1>5, BecomeEffect, FailureKinds
  DEF PreUploadCheckMisses, DeleteObjectFails, Abort, Crash
<1>. QED
  BY <1>1, <1>2, <1>3, <1>4, <1>5 DEF Next, NextWithoutFailure

HoldsNothing(q) ==
  /\ q.todo = <<>>
  /\ q.counted = {} /\ q.doomed = {} /\ q.gone = {} /\ q.triggers = {}

\* A request that starts has written nothing yet.
LEMMA StartState ==
  ASSUME TypeOK, NEW r \in Request, Start(r), requests'[r] # requests[r]
  PROVE  /\ requests'[r].pc \in {"reuse", "verified", "deleteRow", "begun"}
         /\ HoldsNothing(requests'[r])
         /\ requests'[r].pc = "deleteRow" =>
                \E f \in files : /\ f.id = requests'[r].file
                                 /\ f.content = requests'[r].content
         /\ UNCHANGED tables
<1>1. ASSUME NEW h \in Hash, NEW d \in Folder \cup {Root},
             PreUploadCheck(r, h, d) \/ VerifyUpload(r, h, d)
      PROVE  /\ requests'[r].pc \in {"reuse", "verified"}
             /\ HoldsNothing(requests'[r])
             /\ UNCHANGED tables
  BY <1>1, BecomeEffect DEF PreUploadCheck, VerifyUpload, Call, HoldsNothing
<1>2. ASSUME NEW f \in files, FindFile(r, f)
      PROVE  /\ requests'[r].pc = "deleteRow"
             /\ HoldsNothing(requests'[r])
             /\ f.id = requests'[r].file /\ f.content = requests'[r].content
             /\ UNCHANGED tables
  BY <1>2, BecomeEffect DEF FindFile, Call, HoldsNothing
<1>3. ASSUME NEW d \in Folder, FindFolder(r, d)
      PROVE  /\ requests'[r].pc = "begun"
             /\ HoldsNothing(requests'[r])
             /\ UNCHANGED tables
  BY <1>3, BecomeEffect DEF FindFolder, Call, HoldsNothing
<1>. QED
  BY <1>1, <1>2, <1>3 DEF Start

LEMMA IdleHoldsNothing == HoldsNothing(Idle) /\ Idle.pc = "idle"
  BY DEF HoldsNothing, Idle, Call

\* DeleteFile locks nothing that it keeps.
LEMMA DeleteFileRowState ==
  ASSUME TypeOK, StatementsInOrder, NEW r \in Request, DeleteFileRow(r)
  PROVE  /\ HoldsNothing(requests'[r]) /\ requests'[r].pc = "decrement"
         /\ requests'[r].content = requests[r].content
<1>. DEFINE q == requests[r]
            new == [q EXCEPT !.pc = "decrement"]
<1>1. q \in RequestState /\ q.pc = "deleteRow" /\ Become(r, new)
  BY DEF TypeOK, DeleteFileRow
<1>2. HoldsNothing(q)
  BY <1>1 DEF StatementsInOrder, HoldsNothing, InTransaction
<1>3. requests'[r] = new
  BY <1>1, BecomeEffect
<1>. QED
  BY <1>1, <1>2, <1>3 DEF RequestState, HoldsNothing

\* The four ways in which the state of a request may change.
LEMMA RequestMoves ==
  ASSUME TypeOK, IsFiniteSet(files), StatementsInOrder, Next, NEW s \in Request
  PROVE  \/ requests'[s] = requests[s]
         \/ /\ HoldsNothing(requests'[s])
            /\ requests'[s].pc \notin InTransaction \ {"begun"}
         \/ DeletionStep(s)
  BY RequestNext, IdleHoldsNothing, StartState, DeleteFileRowState
  DEF InTransaction

InOrder(q) ==
  /\ q.pc \notin InTransaction \ {"begun"} => q.todo = <<>> /\ q.counted = {}
  /\ q.pc \notin {"deletingFiles", "deletingFolders", "cascading"} => q.doomed = {}
  /\ q.pc \notin {"deletingFolders", "cascading"} => q.gone = {}
  /\ q.pc = "deletingFolders" => q.gone \subseteq q.triggers
  /\ q.triggers \subseteq q.gone

LEMMA OrderNext ==
  ASSUME TypeOK, IsFiniteSet(files), StatementsInOrder, Next
  PROVE  StatementsInOrder'
<1>. SUFFICES ASSUME NEW s \in Request
              PROVE  InOrder(requests'[s])
  BY DEF StatementsInOrder, InOrder
<1>1. InOrder(requests[s])
  BY DEF StatementsInOrder, InOrder
<1>2. CASE HoldsNothing(requests'[s])
  BY <1>2 DEF HoldsNothing, InOrder
<1>3. CASE DeletionStep(s)
  BY <1>1, <1>3, DeletionMoves DEF InOrder, SameLocks, InTransaction
<1>. QED
  BY <1>1, <1>2, <1>3, RequestMoves

\* Folders go only when the transaction that has deleted them commits.
LEMMA FoldersNext ==
  ASSUME TypeOK, Next
  PROVE  \/ folders' = folders
         \/ \E r \in Request : /\ CommitDeleteFolder(r)
                               /\ folders' = folders \ requests[r].gone
                               /\ files' = files \ requests[r].doomed
<1>1. ASSUME NEW r \in Request, CommitDeleteFolder(r)
      PROVE  /\ folders' = folders \ requests[r].gone
             /\ files' = files \ requests[r].doomed
  BY <1>1 DEF CommitDeleteFolder
<1>2. ASSUME NEW r \in Request, Start(r) \/ Continue(r), ~CommitDeleteFolder(r)
      PROVE  folders' = folders
  BY <1>2, ContinueKinds, DeletionKeepsTables
  DEF Start, PreUploadCheck, VerifyUpload, FindFile, FindFolder, ReuseContent,
      RecordUpload, DeleteFileRow, DecrementCount, tables
<1>3. CASE Client \/ CleanupFiles \/ Failure
  BY <1>3, FailureKinds
  DEF Client, PutObject, UrlExpires, CleanupFiles, ListForCleanup,
      DeleteObject, DeleteRecord, PreUploadCheckMisses, DeleteObjectFails,
      Abort, Crash, tables
<1>. QED
  BY <1>1, <1>2, <1>3 DEF Next, NextWithoutFailure

\* A transaction that commits has deleted all that is left of the subtree.
LEMMA CommitTakesSubtree ==
  ASSUME ArgumentsOK, FoldersAreClosed, SubtreeIsFound,
         NEW r \in Request, CommitDeleteFolder(r)
  PROVE  /\ requests[r].folder \in Folder
         /\ \A d \in Within[requests[r].folder] :
                d \in folders => d \in requests[r].gone
<1>. DEFINE q == requests[r]
<1>1. q.pc \in {"deletingFolders", "cascading"} /\ q.todo = <<>>
  BY DEF CommitDeleteFolder
<1>2. q.folder \in Folder
  BY <1>1 DEF ArgumentsOK, InTransaction
<1>3. Subtree(q.folder) \subseteq q.gone
  BY <1>1, NoRows DEF SubtreeIsFound
<1>. QED
  BY <1>2, <1>3 DEF FoldersAreClosed, Subtree

LEMMA ClosedNext ==
  ASSUME TypeOK, ArgumentsOK, FoldersAreClosed, SubtreeIsFound, Next
  PROVE  FoldersAreClosed'
<1>1. CASE folders' = folders
  BY <1>1 DEF FoldersAreClosed
<1>2. ASSUME NEW r \in Request, CommitDeleteFolder(r),
             folders' = folders \ requests[r].gone
      PROVE  FoldersAreClosed'
  <2>. DEFINE top == requests[r].folder
  <2>. SUFFICES ASSUME NEW d \in Folder, NEW e \in Within[d], e \in folders',
                       d \in requests[r].gone
                PROVE  FALSE
    BY <1>2 DEF FoldersAreClosed
  <2>1. top \in Folder /\ \A x \in Within[top] : x \in folders => x \in requests[r].gone
    BY <1>2, CommitTakesSubtree
  <2>2. d \in Within[top]
    BY DEF SubtreeIsFound
  <2>3. e \in Within[top]
    BY <2>1, <2>2, WithinIsAnOrder
  <2>. QED
    BY <1>2, <2>1, <2>3
<1>. QED
  BY <1>1, <1>2, FoldersNext

Found(q) ==
  /\ q.gone # {} => q.gone \subseteq Within[q.folder]
  /\ q.pc = "deletingFolders" =>
         /\ ToSet(q.todo) \subseteq Within[q.folder]
         /\ Subtree(q.folder) \subseteq q.gone \cup ToSet(q.todo)
  /\ q.pc = "cascading" => Subtree(q.folder) \subseteq q.gone

LEMMA FoundNext ==
  ASSUME TypeOK, IsFiniteSet(files), StatementsInOrder, SubtreeIsFound, Next
  PROVE  SubtreeIsFound'
<1>1. \A d : Subtree(d)' \subseteq Subtree(d)
  BY FoldersNext DEF Subtree
<1>. SUFFICES ASSUME NEW s \in Request
              PROVE  Found(requests'[s])
  BY <1>1 DEF SubtreeIsFound, Found
<1>. DEFINE q == requests[s]
            new == requests'[s]
<1>2. Found(q) /\ InOrder(q)
  BY DEF SubtreeIsFound, Found, StatementsInOrder, InOrder
<1>3. CASE HoldsNothing(new) /\ new.pc \notin InTransaction \ {"begun"}
  BY <1>3 DEF HoldsNothing, Found, InTransaction
<1>4. CASE DeletionStep(s)
  <2>1. CASE new.pc \notin {"deletingFolders", "cascading"}
    <3>1. new.gone = q.gone /\ new.folder = q.folder
      BY <1>4, <2>1, DeletionMoves DEF SameCall, SameLocks
    <3>. QED
      BY <1>2, <2>1, <3>1 DEF Found
  <2>2. CASE new.pc = "deletingFolders" /\ q.pc # "deletingFolders"
    <3>1. /\ new.gone = q.gone /\ new.folder = q.folder
          /\ q.pc = "deletingFiles" /\ ToSet(new.todo) = Subtree(q.folder)
      BY <1>4, <2>2, DeletionMoves DEF SameCall, SameLocks
    <3>. QED
      BY <1>2, <2>2, <3>1 DEF Found, InOrder, Subtree
  <2>3. CASE new.pc = "deletingFolders" /\ q.pc = "deletingFolders"
    <3>. DEFINE next == Head(q.todo)
    <3>1. /\ new.folder = q.folder
          /\ new.gone = q.gone \cup ({next} \cap folders)
          /\ ToSet(q.todo) = {next} \cup ToSet(new.todo)
      BY <1>4, <2>3, DeletionMoves DEF SameCall, SameLocks
    <3>. HIDE DEF next
    <3>2. Subtree(q.folder) \subseteq folders
      BY DEF Subtree
    <3>. QED
      BY <1>2, <2>3, <3>1, <3>2 DEF Found
  <2>4. CASE new.pc = "cascading"
    <3>1. /\ new.folder = q.folder /\ new.gone = q.gone
          /\ \/ q.pc = "cascading"
             \/ q.pc = "deletingFolders" /\ ToSet(q.todo) = {}
      BY <1>4, <2>4, DeletionMoves DEF SameCall, SameLocks
    <3>. QED
      BY <1>2, <2>4, <3>1 DEF Found
  <2>. QED
    BY <2>1, <2>2, <2>3, <2>4
<1>. QED
  BY <1>2, <1>3, <1>4, RequestMoves

Covered(q, fs) ==
  \A f \in fs : f.folder \in q.gone \ q.triggers =>
                    f \in q.doomed \cup ToSet(q.todo)

\* The next row is locked for whoever comes to it first.
LEMMA GoneNext ==
  ASSUME TypeOK, IsFiniteSet(files), StatementsInOrder, LocksCover, Next,
         NEW r \in Request, NEW s \in Request, r # s
  PROVE  requests'[r].gone \cap requests'[s].gone = {}
<1>1. ASSUME NEW t \in Request
      PROVE  \/ requests'[t].gone \subseteq requests[t].gone
             \/ /\ DeletionStep(t)
                /\ \A u \in Request \ {t} : /\ requests'[u] = requests[u]
                                            /\ requests'[t].gone \cap requests[u].gone = {}
  <2>1. CASE requests'[t] = requests[t] \/ HoldsNothing(requests'[t])
    BY <2>1 DEF HoldsNothing
  <2>2. CASE DeletionStep(t)
    <3>. DEFINE q == requests[t]
                next == Head(q.todo)
    <3>1. \A u \in Request \ {t} : requests'[u] = requests[u]
      BY <2>2, DeletionMoves
    <3>2. \/ requests'[t].gone = q.gone
          \/ /\ ~Waits(t) /\ q.pc = "deletingFolders" /\ q.todo # <<>>
             /\ requests'[t].gone = q.gone \cup ({next} \cap folders)
      BY <2>2, DeletionMoves DEF SameLocks
    <3>3. ASSUME ~Waits(t), q.pc = "deletingFolders", q.todo # <<>>,
                 NEW u \in Request \ {t}
          PROVE  next \notin requests[u].gone
      BY <3>3 DEF Waits, WaitsFor, Locked
    <3>4. \A u \in Request \ {t} : q.gone \cap requests[u].gone = {}
      BY DEF LocksCover
    <3>. QED
      BY <2>2, <3>1, <3>2, <3>3, <3>4
  <2>. QED
    BY <2>1, <2>2, RequestMoves
<1>2. requests[r].gone \cap requests[s].gone = {}
  BY DEF LocksCover
<1>. QED
  BY <1>1, <1>2

LEMMA CoverNext ==
  ASSUME TypeOK, IsFiniteSet(files), ArgumentsOK, StatementsInOrder,
         ReferencesResolve, LocksCover, Next
  PROVE  LocksCover'
<1>1. ASSUME NEW s \in Request
      PROVE  Covered(requests'[s], files')
  <2>. DEFINE q == requests[s]
              new == requests'[s]
  <2>1. Covered(q, files) /\ InOrder(q)
    BY DEF LocksCover, Covered, StatementsInOrder, InOrder
  <2>2. CASE new = q
    <3>1. \A f \in files' : f \in files \/ f.folder \notin q.gone
      BY RowsNext DEF Inserted, NothingInserted, FolderIsFree
    <3>. QED
      BY <2>1, <2>2, <3>1 DEF Covered
  <2>3. CASE HoldsNothing(new)
    BY <2>3 DEF HoldsNothing, Covered
  <2>4. CASE DeletionStep(s)
    <3>1. files' = files
      BY <2>4, DeletionKeepsTables DEF tables
    <3>2. CASE new.pc # "cascading"
      <4>1. /\ new.gone \ new.triggers \subseteq q.gone \ q.triggers
            /\ q.pc # "cascading"
        BY <2>4, <3>2, DeletionMoves DEF SameLocks
      <4>2. q.gone \ q.triggers = {}
        BY <2>1, <4>1 DEF InOrder
      <4>. QED
        BY <4>1, <4>2 DEF Covered
    <3>3. CASE new.pc = "cascading" /\ DeleteNextFile(s) /\ q.pc = "cascading"
                 /\ new.triggers = q.triggers
      <4>. DEFINE next == Head(q.todo)
      <4>1. /\ new.gone = q.gone /\ new.triggers = q.triggers
            /\ new.doomed = q.doomed \cup ({next} \cap files)
            /\ ToSet(q.todo) = {next} \cup ToSet(new.todo)
        BY <2>4, <3>3, DeletionMoves
      <4>. HIDE DEF next
      <4>. QED
        BY <2>1, <3>1, <4>1 DEF Covered
    <3>4. CASE \E d \in q.triggers :
                 /\ SameLocks(q, new) /\ ToSet(q.todo) = {}
                 /\ new.triggers = q.triggers \ {d}
                 /\ ToSet(new.todo) = {f \in files : f.folder = d} \ q.doomed
      BY <2>1, <3>1, <3>4 DEF Covered, SameLocks
    <3>. QED
      BY <2>4, <3>2, <3>3, <3>4, DeletionMoves
  <2>. QED
    BY <2>2, <2>3, <2>4, RequestMoves
<1>. QED
  BY <1>1, GoneNext DEF LocksCover, Covered

LEMMA IntegrityNext ==
  ASSUME TypeOK, ArgumentsOK, ReferencesResolve, LocksCover, FolderIntegrity,
         Next
  PROVE  FolderIntegrity'
<1>1. CASE folders' = folders
  BY <1>1, RowsNext DEF Inserted, NothingInserted, FolderIntegrity
<1>2. ASSUME NEW r \in Request, CommitDeleteFolder(r),
             folders' = folders \ requests[r].gone,
             files' = files \ requests[r].doomed
      PROVE  FolderIntegrity'
  <2>1. requests[r].triggers = {} /\ ToSet(requests[r].todo) = {}
    BY <1>2, NoRows DEF CommitDeleteFolder
  <2>. QED
    BY <1>2, <2>1 DEF LocksCover, FolderIntegrity
<1>. QED
  BY <1>1, <1>2, FoldersNext

-----------------------------------------------------------------------------
(* Decrements, and content that is given up. *)

\* A row that was deleted is never back in the table.
LEMMA DeletedStays ==
  ASSUME TypeOK, ArgumentsOK, ReferencesResolve, Next
  PROVE  history \subseteq history' /\ history \ files \subseteq history' \ files'
  BY RowsNext DEF Inserted, NothingInserted, ReferencesResolve

OwedBy(q, fs, hs) ==
  /\ q.pc = "deleteRow" => \E f \in hs : f.id = q.file /\ f.content = q.content
  /\ q.pc = "decrement" => \E f \in hs \ fs : f.content = q.content
  /\ q.pc \in InTransaction =>
         \A h \in Decrements(q) : \E f \in hs :
             f.content = h /\ f.folder \in Within[q.folder]

\* No statement after the first adds to what the transaction decrements.
LEMMA DecrementsNext ==
  ASSUME TypeOK, IsFiniteSet(files), StatementsInOrder,
         NEW r \in Request, DeletionStep(r)
  PROVE  \/ Decrements(requests'[r]) \subseteq Decrements(requests[r])
         \/ /\ ListContents(r)
            /\ Decrements(requests'[r])
                   = {f.content : f \in FilesIn(requests[r].folder)}
<1>. DEFINE q == requests[r]
            new == requests'[r]
            next == Head(q.todo)
            found == {f.content : f \in FilesIn(q.folder)}
<1>1. InOrder(q)
  BY DEF StatementsInOrder, InOrder
<1>2. CASE /\ ListContents(r) /\ q.pc = "begun" /\ new.counted = q.counted
           /\ new.pc = "decrementing" /\ ToSet(new.todo) = found
  <2>1. q.counted = {}
    BY <1>1, <1>2 DEF InOrder
  <2>. QED
    BY <1>2, <2>1 DEF Decrements
<1>3. CASE /\ q.pc = "decrementing" /\ new.pc = "decrementing"
           /\ new.counted = q.counted \cup ({next} \cap physicalFiles)
           /\ ToSet(q.todo) = {next} \cup ToSet(new.todo)
  BY <1>3 DEF Decrements
<1>4. CASE new.counted = q.counted /\ new.pc # "decrementing"
  BY <1>4 DEF Decrements
<1>. HIDE DEF new, next, found
<1>5. DeletionStep(r)
  OBVIOUS
<1>. QED
  BY <1>2, <1>3, <1>4, <1>5, DeletionMoves DEF SameLocks, new, next, found

LEMMA OwedNext ==
  ASSUME TypeOK, IsFiniteSet(files), ArgumentsOK, StatementsInOrder,
         ReferencesResolve, DecrementsAreOwed, Next
  PROVE  DecrementsAreOwed'
<1>. SUFFICES ASSUME NEW s \in Request
              PROVE  OwedBy(requests'[s], files', history')
  BY DEF DecrementsAreOwed, OwedBy, Decrements
<1>. DEFINE q == requests[s]
<1>1. OwedBy(q, files, history)
  BY DEF DecrementsAreOwed, OwedBy
<1>2. OwedBy(q, files', history')
  BY <1>1, DeletedStays DEF OwedBy
<1>3. CASE requests'[s] = q
  BY <1>2, <1>3
<1>4. CASE requests'[s] = Idle
  BY <1>4 DEF OwedBy, Idle, Call, InTransaction
<1>5. CASE Start(s) /\ requests'[s] # q
  <2>1. requests'[s].pc \in InTransaction => Decrements(requests'[s]) = {}
    BY <1>5, StartState, NoRows DEF Decrements, HoldsNothing
  <2>. QED
    BY <1>5, <2>1, StartState, DeletedStays
    DEF OwedBy, InTransaction, ReferencesResolve
<1>6. CASE DeleteFileRow(s)
  <2>1. requests'[s].pc = "decrement" /\ requests'[s].content = q.content
    BY <1>6, DeleteFileRowState
  <2>2. PICK f \in history : f.id = q.file /\ f.content = q.content
    BY <1>1, <1>6 DEF DeleteFileRow, OwedBy
  <2>3. f \in history' \ files'
    BY <1>6, <2>2 DEF DeleteFileRow, DeleteFileReference
  <2>. QED
    BY <2>1, <2>2, <2>3 DEF OwedBy, InTransaction
<1>7. CASE DeletionStep(s)
  <2>1. /\ q.pc \in InTransaction /\ requests'[s].pc \in InTransaction
        /\ requests'[s].folder = q.folder
    BY <1>7, DeletionMoves DEF SameCall
  <2>2. \A f \in FilesIn(q.folder) :
            f \in history' /\ f.folder \in Within[q.folder]
    BY DeletedStays DEF FilesIn, Subtree, ReferencesResolve
  <2>3. ASSUME NEW h \in Decrements(requests'[s])
        PROVE  \E f \in history' : f.content = h /\ f.folder \in Within[q.folder]
    <3>1. CASE h \in Decrements(q)
      BY <1>2, <2>1, <3>1 DEF OwedBy
    <3>2. CASE h \in {f.content : f \in FilesIn(q.folder)}
      BY <2>2, <3>2
    <3>. QED
      BY <1>7, <2>3, <3>1, <3>2, DecrementsNext
  <2>. QED
    BY <2>1, <2>3 DEF OwedBy, InTransaction
<1>. QED
  BY <1>3, <1>4, <1>5, <1>6, <1>7, RequestNext

\* A step that condemns content is a decrement that was owed, and leaves a
\* deleted reference behind.
LEMMA LostNext ==
  ASSUME IndInv, TypeOK', Next
  PROVE  LostOnlyAfterDeletion'
<1>0. /\ TypeOK /\ ArgumentsOK /\ ReferencesResolve /\ DecrementsAreOwed
      /\ FolderIntegrity /\ FoldersAreClosed /\ SubtreeIsFound /\ LocksCover
      /\ LostOnlyAfterDeletion
  BY DEF IndInv
<1>1. history \ files \subseteq history' \ files'
  BY <1>0, DeletedStays
<1>. SUFFICES ASSUME NEW h \in Condemned'
              PROVE  \E f \in history' \ files' : f.content = h
  BY DEF LostOnlyAfterDeletion
<1>2. CASE h \in Condemned
  BY <1>0, <1>1, <1>2 DEF LostOnlyAfterDeletion
<1>3. ASSUME UNCHANGED <<referenceCount, physicalFiles>>
      PROVE  h \in Condemned
  BY <1>3 DEF Condemned
<1>4. ASSUME NEW r \in Request, RecordUpload(r)
      PROVE  h \in Condemned
  <2>1. CASE CreatePhysicalFile(requests[r].content)
    BY <1>0, <2>1 DEF CreatePhysicalFile, Condemned, TypeOK
  <2>2. CASE UNCHANGED <<physicalFiles, referenceCount>>
    BY <1>3, <2>2
  <2>. QED
    BY <1>4, <2>1, <2>2 DEF RecordUpload
<1>5. ASSUME NEW r \in Request, DecrementCount(r), h \notin Condemned
      PROVE  \E f \in history' \ files' : f.content = h
  <2>1. h = requests[r].content
    BY <1>0, <1>5 DEF DecrementCount, Condemned, TypeOK
  <2>. QED
    BY <1>0, <1>1, <1>5, <2>1 DEF DecrementCount, DecrementsAreOwed
<1>6. ASSUME NEW r \in Request, CommitDeleteFolder(r), h \notin Condemned
      PROVE  \E f \in history' \ files' : f.content = h
  <2>. DEFINE q == requests[r]
              top == q.folder
  <2>1. h \in q.counted
    BY <1>0, <1>6 DEF CommitDeleteFolder, Condemned, TypeOK
  <2>2. /\ q.pc \in {"deletingFolders", "cascading"}
        /\ q.triggers = {} /\ ToSet(q.todo) = {}
    BY <1>6, NoRows DEF CommitDeleteFolder
  <2>3. PICK f \in history : f.content = h /\ f.folder \in Within[top]
    BY <1>0, <2>1, <2>2 DEF DecrementsAreOwed, Decrements, InTransaction
  <2>4. CASE f \in files
    <3>1. top \in Folder /\ \A d \in Within[top] : d \in folders => d \in q.gone
      BY <1>0, <1>6, CommitTakesSubtree
    <3>2. f.folder \in folders
      BY <1>0, <2>3, <2>4, <3>1, WithinIsAnOrder, ConstantsAreDistinct
      DEF FolderIntegrity
    <3>3. f \in q.doomed
      BY <1>0, <2>2, <2>3, <2>4, <3>1, <3>2 DEF LocksCover
    <3>. QED
      BY <1>6, <2>3, <3>3 DEF CommitDeleteFolder
  <2>5. CASE f \notin files
    BY <1>1, <2>3, <2>5
  <2>. QED
    BY <2>4, <2>5
<1>7. ASSUME NEW r \in Request, Start(r) \/ Continue(r), ~RecordUpload(r),
             ~DecrementCount(r), ~CommitDeleteFolder(r)
      PROVE  UNCHANGED <<referenceCount, physicalFiles>>
  BY <1>7, ContinueKinds, DeletionKeepsTables
  DEF Start, PreUploadCheck, VerifyUpload, FindFile, FindFolder, ReuseContent,
      DeleteFileRow, tables
<1>8. ASSUME Client \/ CleanupFiles \/ Failure
      PROVE  UNCHANGED <<referenceCount, physicalFiles>>
  BY <1>8, FailureKinds
  DEF Client, PutObject, UrlExpires, CleanupFiles, ListForCleanup,
      DeleteObject, DeleteRecord, PreUploadCheckMisses, DeleteObjectFails,
      Abort, Crash, tables
<1>. QED
  BY <1>2, <1>3, <1>4, <1>5, <1>6, <1>7, <1>8 DEF Next, NextWithoutFailure

-----------------------------------------------------------------------------
(* The invariant, and the theorems. *)

LEMMA IndInit == Init => IndInv
<1>. SUFFICES ASSUME Init PROVE IndInv
  OBVIOUS
<1>1. TypeOK /\ IsFiniteSet(files) /\ ArgumentsOK
  BY TypeInit, ArgumentsInit, FS_EmptySet DEF Init
<1>2. /\ ReferencesResolve /\ OneOriginalPerContent /\ CleanupOnlyCondemned
      /\ VerifiedIsStored /\ KeptContentAvailable /\ DecrementsAreOwed
      /\ LostOnlyAfterDeletion /\ FolderIntegrity
  BY DEF Init, ReferencesResolve, OneOriginalPerContent, CleanupOnlyCondemned,
         VerifiedIsStored, KeptContentAvailable, Kept, DecrementsAreOwed,
         LostOnlyAfterDeletion, Condemned, FolderIntegrity, Idle, Call,
         InTransaction
<1>3. FoldersAreClosed
  BY DEF Init, FoldersAreClosed
<1>4. StatementsInOrder /\ LocksCover /\ SubtreeIsFound
  BY IdleHoldsNothing
  DEF Init, StatementsInOrder, LocksCover, SubtreeIsFound, HoldsNothing
<1>. QED
  BY <1>1, <1>2, <1>3, <1>4 DEF IndInv

LEMMA IndNext == IndInv /\ [Next]_vars => IndInv'
<1>1. ASSUME IndInv, Next
      PROVE  IndInv'
  <2>1. TypeOK' /\ IsFiniteSet(files)' /\ ArgumentsOK'
    BY <1>1, TypeNext, FiniteNext, ArgumentsNext DEF IndInv
  <2>2. ReferencesResolve' /\ OneOriginalPerContent'
    BY <1>1, ReferencesNext, OriginalNext DEF IndInv
  <2>3. CleanupOnlyCondemned'
    BY <1>1, <2>1, CountNext, CleanupNext DEF IndInv
  <2>4. VerifiedIsStored' /\ KeptContentAvailable'
    BY <1>1, <2>1, VerifiedNext, AvailableNext DEF IndInv
  <2>5. StatementsInOrder' /\ FoldersAreClosed' /\ SubtreeIsFound'
    BY <1>1, OrderNext, ClosedNext, FoundNext DEF IndInv
  <2>6. LocksCover' /\ FolderIntegrity'
    BY <1>1, CoverNext, IntegrityNext DEF IndInv
  <2>7. DecrementsAreOwed' /\ LostOnlyAfterDeletion'
    BY <1>1, <2>1, OwedNext, LostNext DEF IndInv
  <2>. QED
    BY <2>1, <2>2, <2>3, <2>4, <2>5, <2>6, <2>7 DEF IndInv
<1>2. ASSUME IndInv, UNCHANGED vars
      PROVE  IndInv'
  BY <1>2
  DEF IndInv, vars, tables, bucket, worker, TypeOK, ArgumentsOK,
      StatementsInOrder, ReferencesResolve, OneOriginalPerContent,
      CleanupOnlyCondemned, VerifiedIsStored, KeptContentAvailable, Kept,
      Condemned, FoldersAreClosed, LocksCover, SubtreeIsFound, Subtree,
      FolderIntegrity, DecrementsAreOwed, Decrements, LostOnlyAfterDeletion
<1>. QED
  BY <1>1, <1>2

\* The inductive invariant holds in every reachable state.
THEOREM Invariance == Spec => []IndInv
  BY IndInit, IndNext, PTL DEF Spec

\* Content that is counted is in the bucket: uploads that were verified long
\* ago, stale cleanup lists, failures and crashes included.
THEOREM KeptContentIsAvailable == Spec => []KeptContentAvailable
<1>1. IndInv => KeptContentAvailable
  BY DEF IndInv
<1>. QED
  BY <1>1, Invariance, PTL

\* What the worker still has on its list may still be deleted.
THEOREM CleanupIsSafe == Spec => []CleanupOnlyCondemned
<1>1. IndInv => CleanupOnlyCondemned
  BY DEF IndInv
<1>. QED
  BY <1>1, Invariance, PTL

\* Concurrent or repeated confirmations record one original at most.
THEOREM OriginalsAreUnique == Spec => []OneOriginalPerContent
<1>1. IndInv => OneOriginalPerContent
  BY DEF IndInv
<1>. QED
  BY <1>1, Invariance, PTL

\* No file outlives its folder, whatever is inserted during a DeleteFolder.
THEOREM FoldersKeepIntegrity == Spec => []FolderIntegrity
<1>1. IndInv => FolderIntegrity
  BY DEF IndInv
<1>. QED
  BY <1>1, Invariance, PTL

\* Content is given up only after a reference to it was deleted.
THEOREM NothingIsLostUnasked == Spec => []LostOnlyAfterDeletion
<1>1. IndInv => LostOnlyAfterDeletion
  BY DEF IndInv
<1>. QED
  BY <1>1, Invariance, PTL

-----------------------------------------------------------------------------
(* Locks: who waits for whom. *)

\* Everyone in the group waits for someone in it.
Knotted(group) ==
  group # {} /\ \A r \in group : \E q \in group : WaitsFor(r, q)

\* Only a transaction that has deleted or decremented something is waited for.
LEMMA WaitersWaitForTransactions ==
  ASSUME StatementsInOrder, NEW r \in Request, NEW q \in Request, WaitsFor(r, q)
  PROVE  requests[q].pc \in InTransaction
<1>1. ASSUME requests[r].todo # <<>>
      PROVE  requests[r].pc \in InTransaction \ {"begun"}
  BY <1>1 DEF StatementsInOrder
<1>2. \/ requests[q].counted # {} \/ requests[q].doomed # {}
      \/ requests[q].gone # {}
  BY <1>1 DEF WaitsFor, Locked, InTransaction
<1>. QED
  BY <1>2 DEF StatementsInOrder, InTransaction

\* Those nobody waits for can leave a knot: the least one is a circle.
LEMMA KnotHasCircle ==
  ASSUME NEW group \in SUBSET Request, Knotted(group)
  PROVE  Circles # {}
<1>. DEFINE F == {g \in SUBSET Request : Knotted(g)}
<1>1. PICK circle \in F : \A g \in F : g \subseteq circle => g = circle
  <2>1. F # {} /\ F \subseteq SUBSET Request
    OBVIOUS
  <2>. HIDE DEF F
  <2>. QED
    BY <2>1, FinitelyMany, LeastSet
<1>2. ASSUME NEW q \in circle, \A r \in circle : ~WaitsFor(r, q)
      PROVE  FALSE
  <2>1. \A r \in circle \ {q} : \E p \in circle \ {q} : WaitsFor(r, p)
    BY <1>1, <1>2 DEF Knotted
  <2>2. circle \ {q} # {}
    BY <1>1, <1>2 DEF Knotted
  <2>3. circle \ {q} \in F
    BY <1>1, <2>1, <2>2 DEF Knotted
  <2>. QED
    BY <1>1, <1>2, <2>3
<1>3. /\ circle \in (SUBSET Request) \ {{}}
      /\ \A r \in circle : \E q \in circle : WaitsFor(r, q)
      /\ \A q \in circle : \E r \in circle : WaitsFor(r, q)
  BY <1>1, <1>2 DEF Knotted
<1>. QED
  BY <1>3 DEF Circles

\* However mutations overlap, fail and restart, those that have begun wait for
\* each other only in circles of row locks, which PostgreSQL breaks; and only
\* deletions of folders are ever in a circle, since only they keep the rows
\* that they have locked while they wait for others (DeleteFolder).
THEOREM MutationsNeverStuck == Spec => []NobodyIsStuck
<1>1. ASSUME StatementsInOrder, NEW r \in Request, requests[r].pc # "idle",
             \A q \in Request : ~CanContinue(q)
      PROVE  Circles # {}
  <2>. DEFINE group == {q \in Request : requests[q].pc # "idle"}
  <2>1. ASSUME NEW p \in group
        PROVE  \E q \in group : WaitsFor(p, q)
    <3>1. PICK q \in Request : WaitsFor(p, q)
      BY <1>1 DEF CanContinue, Waits
    <3>2. requests[q].pc # "idle"
      BY <1>1, <3>1, WaitersWaitForTransactions DEF InTransaction
    <3>. QED
      BY <3>1, <3>2
  <2>2. Knotted(group)
    BY <1>1, <2>1 DEF Knotted
  <2>. QED
    BY <2>2, KnotHasCircle
<1>2. ASSUME StatementsInOrder, NEW circle \in Circles, NEW q \in circle
      PROVE  requests[q].pc \in InTransaction
  <2>1. circle \subseteq Request /\ \E r \in circle : WaitsFor(r, q)
    BY DEF Circles
  <2>. QED
    BY <1>2, <2>1, WaitersWaitForTransactions
<1>3. IndInv => NobodyIsStuck
  BY <1>1, <1>2 DEF IndInv, NobodyIsStuck
<1>. QED
  BY <1>3, Invariance, PTL

-----------------------------------------------------------------------------
(* One request at a time, without failures: no count is left behind. *)

Alone == \A r, s \in Request : r = s

\* What CountsAreOwed says of every request, said of one.
Covers(q, found, fs) ==
  /\ q.pc \in InTransaction \ {"begun"} =>
         \A f \in found : f.content \in Decrements(q)
  /\ q.pc \in {"deletingFiles", "cascading"} =>
         \A f \in ToSet(q.todo) \cap fs : f.content \in q.counted
  /\ \A f \in q.doomed : f.content \in q.counted

Referenced(fs, h) == \E f \in fs : f.content = h

\* CountsAreOwed, when r is the only request.
OwedWith(r) ==
  /\ \A h \in Hash : referenceCount[h] <= 1
  /\ \A f, g \in history : f.id = g.id => f = g
  /\ \A h \in Kept : \/ Referenced(files, h)
                     \/ requests[r].pc = "decrement" /\ requests[r].content = h
  /\ Covers(requests[r], FilesIn(requests[r].folder), files)

LEMMA OwedAlone ==
  ASSUME Alone, NEW r \in Request
  PROVE  /\ CountsAreOwed <=> OwedWith(r)
         /\ CountsAreOwed' <=> OwedWith(r)'
<1>1. \A s \in Request : s = r
  BY DEF Alone
<1>. QED
  BY <1>1 DEF CountsAreOwed, OwedWith, Covers, Referenced, Decrements

LEMMA IdleCovers == \A found, fs : Covers(Idle, found, fs) /\ Idle.pc # "decrement"
  BY DEF Covers, Idle, Call, InTransaction

\* A step that leaves the tables alone and ends no decrement.
LEMMA OwedUnlessTables ==
  ASSUME NEW r \in Request, OwedWith(r), UNCHANGED tables,
         requests[r].pc # "decrement" \/ requests'[r] = requests[r],
         Covers(requests'[r], FilesIn(requests'[r].folder), files)
  PROVE  OwedWith(r)'
<1>1. FilesIn(requests'[r].folder) = FilesIn(requests[r].folder)'
  BY DEF FilesIn, Subtree, tables
<1>. QED
  BY <1>1 DEF OwedWith, Covers, Decrements, Referenced, Kept, tables

LEMMA OwedStart ==
  ASSUME TypeOK, NEW r \in Request, OwedWith(r), Start(r)
  PROVE  OwedWith(r)'
<1>1. UNCHANGED tables /\ (requests'[r] # requests[r] => requests[r] = Idle)
  BY DEF Start, PreUploadCheck, VerifyUpload, FindFile, FindFolder
<1>2. CASE requests'[r] = requests[r]
  <2>1. Covers(requests'[r], FilesIn(requests'[r].folder), files)
    BY <1>2 DEF OwedWith
  <2>. QED
    BY <1>1, <1>2, <2>1, OwedUnlessTables
<1>3. CASE requests'[r] # requests[r]
  <2>1. Covers(requests'[r], FilesIn(requests'[r].folder), files)
    BY <1>3, StartState DEF Covers, HoldsNothing, InTransaction
  <2>. QED
    BY <1>1, <1>3, <2>1, IdleCovers, OwedUnlessTables
<1>. QED
  BY <1>2, <1>3

\* An INSERT adds a row, and a count only together with the row.
LEMMA OwedInsert ==
  ASSUME TypeOK, ArgumentsOK, ReferencesResolve, NEW r \in Request, OwedWith(r),
         ReuseContent(r) \/ RecordUpload(r)
  PROVE  OwedWith(r)'
<1>1. requests'[r] = Idle /\ requests[r].pc # "decrement"
  BY BecomeEffect DEF ReuseContent, RecordUpload
<1>2. CASE UNCHANGED <<physicalFiles, referenceCount, files, history>>
  BY <1>1, <1>2, IdleCovers DEF OwedWith, Referenced, Kept
<1>3. ASSUME NEW row \in FileRow, Inserted(row),
             \/ UNCHANGED <<physicalFiles, referenceCount>>
             \/ CreatePhysicalFile(row.content)
      PROVE  OwedWith(r)'
  <2>1. \A h \in Hash : referenceCount'[h] <= 1
    BY <1>3 DEF CreatePhysicalFile, TypeOK, OwedWith
  <2>2. \A f, g \in history' : f.id = g.id => f = g
    BY <1>3 DEF Inserted, OwedWith
  <2>3. \A h \in Kept' : Referenced(files', h)
    BY <1>1, <1>3 DEF Kept, CreatePhysicalFile, Inserted, TypeOK, OwedWith, Referenced
  <2>. QED
    BY <1>1, <2>1, <2>2, <2>3, IdleCovers DEF OwedWith
<1>4. CASE ReuseContent(r)
  <2>1. UNCHANGED <<physicalFiles, referenceCount>>
    BY <1>4 DEF ReuseContent
  <2>2. \/ NothingInserted /\ UNCHANGED <<files, history>>
        \/ \E row \in FileRow : Inserted(row)
    <3>1. /\ requests[r].content \in Hash /\ requests[r].folder \in Folder \cup {Root}
          /\ requests[r].content \in physicalFiles /\ folders' = folders
      BY <1>4 DEF ReuseContent, ArgumentsOK, ReferencesResolve
    <3>2. physicalFiles' = physicalFiles \cup {requests[r].content}
      BY <2>1, <3>1
    <3>3. CASE CreateFileReference(requests[r].content, requests[r].folder, FALSE)
      BY <3>1, <3>2, <3>3, CreateReferenceInserts
    <3>. QED
      BY <1>4, <2>1, <3>3 DEF ReuseContent, NothingInserted
  <2>. QED
    BY <1>2, <1>3, <2>1, <2>2
<1>5. CASE RecordUpload(r)
  <2>1. \/ UNCHANGED <<physicalFiles, referenceCount, files, history>>
        \/ \E row \in FileRow : Inserted(row) /\ CreatePhysicalFile(row.content)
    <3>1. CASE CreatePhysicalFile(requests[r].content)
      <4>1. ~NothingInserted
        BY <3>1 DEF CreatePhysicalFile, NothingInserted
      <4>. QED
        BY <1>5, <3>1, <4>1, RecordInserts
    <3>. QED
      BY <1>5, <3>1 DEF RecordUpload
  <2>. QED
    BY <1>2, <1>3, <2>1
<1>. QED
  BY <1>4, <1>5

\* DeleteFile: the row goes, and then its count.
LEMMA OwedDeleteFile ==
  ASSUME TypeOK, ArgumentsOK, StatementsInOrder, ReferencesResolve,
         DecrementsAreOwed, NEW r \in Request, OwedWith(r),
         DeleteFileRow(r) \/ DecrementCount(r)
  PROVE  OwedWith(r)'
<1>. DEFINE q == requests[r]
<1>0. q \in RequestState
  BY DEF TypeOK
<1>1. CASE DeleteFileRow(r)
  <2>. DEFINE new == requests'[r]
  <2>1. new.pc = "decrement" /\ new.content = q.content /\ HoldsNothing(new)
    BY <1>1, DeleteFileRowState
  <2>. HIDE DEF new
  <2>3. /\ q.pc = "deleteRow" /\ files' = {f \in files : f.id # q.file}
        /\ UNCHANGED <<physicalFiles, referenceCount, history>>
    BY <1>1 DEF DeleteFileRow, DeleteFileReference
  <2>4. \A f \in files \ files' : f.content = q.content
    BY <2>3 DEF DecrementsAreOwed, ReferencesResolve, OwedWith
  <2>5. \A h \in Kept' : Referenced(files', h) \/ h = q.content
    BY <2>3, <2>4 DEF OwedWith, Kept, Referenced
  <2>6. \A found, fs : Covers(new, found, fs)
    BY <2>1 DEF HoldsNothing, Covers, InTransaction
  <2>. QED
    BY <2>1, <2>3, <2>5, <2>6 DEF OwedWith, new
<1>2. CASE DecrementCount(r)
  <2>1. requests'[r] = Idle
    BY <1>2, BecomeEffect DEF DecrementCount
  <2>2. q.content \in Hash
    BY <1>2 DEF DecrementCount, ArgumentsOK
  <2>3. \A h \in Hash : referenceCount'[h] =
            IF h = q.content THEN referenceCount[h] - 1 ELSE referenceCount[h]
    BY <1>2, <2>2 DEF DecrementCount, TypeOK
  <2>4. UNCHANGED <<physicalFiles, files, history>>
    BY <1>2 DEF DecrementCount
  <2>5. \A h \in Kept' : h \in Kept /\ h # q.content
    BY <2>3, <2>4 DEF Kept, OwedWith, TypeOK
  <2>6. \A h \in Hash : referenceCount'[h] <= 1
    BY <2>3 DEF OwedWith, TypeOK
  <2>. QED
    BY <2>1, <2>4, <2>5, <2>6, IdleCovers DEF OwedWith, Referenced
<1>. QED
  BY <1>1, <1>2

\* A cascade finds the files of a folder in the subtree.
LEMMA CascadeInSubtree ==
  ASSUME TypeOK, ArgumentsOK, StatementsInOrder, FoldersAreClosed,
         SubtreeIsFound, FolderIntegrity, NEW r \in Request,
         requests[r].pc \in InTransaction,
         NEW d \in requests[r].triggers, NEW f \in files, f.folder = d
  PROVE  f \in FilesIn(requests[r].folder)
<1>. DEFINE q == requests[r]
<1>1. d \in q.gone /\ q.folder \in Folder /\ d \in Folder
  BY DEF StatementsInOrder, ArgumentsOK, TypeOK, RequestState
<1>2. d \in Within[q.folder]
  BY <1>1 DEF SubtreeIsFound
<1>3. d \in folders
  BY <1>1, ConstantsAreDistinct DEF FolderIntegrity
<1>. QED
  BY <1>1, <1>2, <1>3 DEF FoldersAreClosed, FilesIn, Subtree

\* DeleteFolder: what its statements find is what the first of them counted.
LEMMA OwedDeleteFolder ==
  ASSUME IndInv, NEW r \in Request, OwedWith(r), DeletionStep(r)
  PROVE  OwedWith(r)'
<1>. DEFINE q == requests[r]
            new == requests'[r]
            next == Head(q.todo)
            found == FilesIn(q.folder)
<1>0. /\ TypeOK /\ IsFiniteSet(files) /\ ArgumentsOK /\ StatementsInOrder
      /\ ReferencesResolve /\ FoldersAreClosed /\ SubtreeIsFound
      /\ FolderIntegrity
  BY DEF IndInv
<1>1. UNCHANGED tables /\ q.pc # "decrement" /\ new.folder = q.folder
      /\ q.pc \in InTransaction
  BY <1>0, DeletionKeepsTables, DeletionMoves DEF InTransaction, SameCall
<1>2. Covers(q, found, files) /\ InOrder(q) /\ found \subseteq files
  BY <1>0 DEF OwedWith, StatementsInOrder, InOrder, FilesIn
<1>3. \A f \in files : f.content \in physicalFiles
  BY <1>0 DEF ReferencesResolve
<1>4. Covers(new, found, files)
  <2>4. CASE /\ q.pc = "begun" /\ new.pc = "decrementing" /\ SameLocks(q, new)
             /\ ToSet(new.todo) = {f.content : f \in found}
    BY <1>2, <2>4 DEF Covers, InOrder, SameLocks, Decrements
  <2>5. CASE /\ q.pc = "decrementing" /\ new.pc = "decrementing"
             /\ new.counted = q.counted \cup ({next} \cap physicalFiles)
             /\ new.doomed = q.doomed
             /\ ToSet(q.todo) = {next} \cup ToSet(new.todo)
    BY <1>2, <1>3, <2>5 DEF Covers, Decrements, InTransaction
  <2>6. CASE /\ q.pc = "decrementing" /\ new.pc = "deletingFiles"
             /\ SameLocks(q, new) /\ ToSet(q.todo) = {}
             /\ ToSet(new.todo) = found
    BY <1>2, <2>6 DEF Covers, SameLocks, Decrements, InTransaction
  <2>7. CASE /\ q.pc \in {"deletingFiles", "cascading"} /\ new.pc = q.pc
             /\ new.counted = q.counted
             /\ new.doomed = q.doomed \cup ({next} \cap files)
             /\ ToSet(q.todo) = {next} \cup ToSet(new.todo)
    BY <1>2, <2>7 DEF Covers, Decrements, InTransaction
  <2>8. CASE /\ q.pc \in {"deletingFiles", "deletingFolders"}
             /\ new.pc = "deletingFolders"
             /\ new.counted = q.counted /\ new.doomed = q.doomed
    BY <1>2, <2>8 DEF Covers, Decrements, InTransaction
  <2>9. ASSUME NEW d \in q.triggers,
               q.pc \in {"deletingFolders", "cascading"}, new.pc = "cascading",
               SameLocks(q, new),
               ToSet(new.todo) = {f \in files : f.folder = d} \ q.doomed
        PROVE  Covers(new, found, files)
    <3>1. \A f \in ToSet(new.todo) : f \in found
      BY <1>0, <1>1, <2>9, CascadeInSubtree
    <3>2. \A f \in found : f.content \in q.counted
      BY <1>2, <2>9 DEF Covers, Decrements, InTransaction
    <3>. QED
      BY <1>2, <2>9, <3>1, <3>2 DEF Covers, SameLocks, Decrements
  <2>. HIDE DEF new, next, found
  <2>. QED
    BY <1>0, <2>4, <2>5, <2>6, <2>7, <2>8, <2>9, DeletionMoves
    DEF SameLocks, new, next, found
<1>. QED
  BY <1>1, <1>4, OwedUnlessTables

LEMMA OwedCommit ==
  ASSUME TypeOK, NEW r \in Request, OwedWith(r), CommitDeleteFolder(r)
  PROVE  OwedWith(r)'
<1>. DEFINE q == requests[r]
<1>1. requests'[r] = Idle
  BY BecomeEffect DEF CommitDeleteFolder
<1>2. /\ \A h \in Hash : referenceCount'[h] =
             IF h \in q.counted THEN referenceCount[h] - 1 ELSE referenceCount[h]
      /\ files' = files \ q.doomed
      /\ UNCHANGED <<physicalFiles, history>>
  BY DEF CommitDeleteFolder
<1>3. \A h \in Hash : referenceCount'[h] <= 1
  BY <1>2 DEF OwedWith, TypeOK
<1>4. \A h \in Kept' : h \in Kept /\ h \notin q.counted
  BY <1>2 DEF Kept, OwedWith, TypeOK
<1>5. \A f \in q.doomed : f.content \in q.counted
  BY DEF OwedWith, Covers
<1>6. q.pc # "decrement"
  BY DEF CommitDeleteFolder
<1>7. \A h \in Kept' : Referenced(files', h)
  BY <1>2, <1>4, <1>5, <1>6 DEF OwedWith, Referenced
<1>. QED
  BY <1>1, <1>2, <1>3, <1>7, IdleCovers DEF OwedWith

\* Clients and the worker change neither rows nor counts: the id that the
\* worker deletes by is never one of a row of files.
LEMMA OwedOthers ==
  ASSUME TypeOK, NEW r \in Request, OwedWith(r), Client \/ CleanupFiles
  PROVE  OwedWith(r)'
<1>1. UNCHANGED <<tables, requests>>
  <2>1. CASE DeleteRecord
    <3>1. \A f \in files : f.id # collected
      BY <2>1, IdsAreDistinct, ConstantsAreDistinct DEF DeleteRecord, TypeOK, FileRow
    <3>. QED
      BY <2>1, <3>1 DEF DeleteRecord, DeleteFileReference, tables
  <2>. QED
    BY <2>1 DEF Client, PutObject, UrlExpires, CleanupFiles, ListForCleanup,
                DeleteObject, tables
<1>. QED
  BY <1>1, OwedUnlessTables DEF OwedWith

LEMMA OwedInit == Alone /\ Init => CountsAreOwed
<1>. SUFFICES ASSUME Alone, Init
              PROVE  CountsAreOwed
  OBVIOUS
<1>. QED
  BY IdleHoldsNothing
  DEF Init, CountsAreOwed, Kept, HoldsNothing, InTransaction

LEMMA OwedNextAlone ==
  ASSUME Alone, IndInv, CountsAreOwed, [NextWithoutFailure]_vars
  PROVE  CountsAreOwed'
<1>0. /\ TypeOK /\ ArgumentsOK /\ StatementsInOrder /\ ReferencesResolve
      /\ DecrementsAreOwed
  BY DEF IndInv
<1>1. ASSUME NEW r \in Request
      PROVE  CountsAreOwed'
  <2>1. OwedWith(r)
    BY <1>1, OwedAlone
  <2>2. CASE Start(r) \/ Continue(r)
    BY <1>0, <2>1, <2>2, ContinueKinds, OwedStart, OwedInsert, OwedDeleteFile,
       OwedDeleteFolder, OwedCommit, OwedAlone
  <2>3. CASE Client \/ CleanupFiles
    BY <1>0, <2>1, <2>3, OwedOthers, OwedAlone
  <2>4. CASE UNCHANGED vars
    <3>1. UNCHANGED tables /\ UNCHANGED requests
      BY <2>4 DEF vars
    <3>. QED
      BY <2>1, <3>1, OwedUnlessTables, OwedAlone DEF OwedWith
  <2>5. \A s \in Request : s = r
    BY DEF Alone
  <2>. QED
    BY <2>2, <2>3, <2>4, <2>5 DEF NextWithoutFailure
<1>2. CASE Request = {}
  <2>1. UNCHANGED tables
    <3>1. CASE DeleteRecord
      <4>1. \A f \in files : f.id # collected
        BY <1>0, <3>1, IdsAreDistinct, ConstantsAreDistinct
        DEF DeleteRecord, TypeOK, FileRow
      <4>. QED
        BY <3>1, <4>1 DEF DeleteRecord, DeleteFileReference, tables
    <3>. QED
      BY <1>2, <3>1 DEF NextWithoutFailure, Client, PutObject, UrlExpires,
         CleanupFiles, ListForCleanup, DeleteObject, tables, vars
  <2>. QED
    BY <1>2, <2>1 DEF CountsAreOwed, Kept, tables
<1>. QED
  BY <1>1, <1>2

\* With one request at a time, and none that fails half-way, every count is
\* owed to a row: it takes a second request or a failure to leave content in
\* the bucket that no deletion will ever condemn.
THEOREM KeptIsReferencedAlone ==
  (\A r, s \in Request : r = s) => (SpecWithoutFailure => []KeptIsReferenced)
<1>. SUFFICES ASSUME Alone
              PROVE  SpecWithoutFailure => []KeptIsReferenced
  BY DEF Alone
<1>1. Init => IndInv /\ CountsAreOwed
  BY IndInit, OwedInit
<1>2. IndInv /\ CountsAreOwed /\ [NextWithoutFailure]_vars => (IndInv /\ CountsAreOwed)'
  BY IndNext, OwedNextAlone DEF Next
<1>3. IndInv /\ CountsAreOwed => KeptIsReferenced
  BY DEF CountsAreOwed, KeptIsReferenced, Idle, Call
<1>. QED
  BY <1>1, <1>2, <1>3, PTL DEF SpecWithoutFailure

-----------------------------------------------------------------------------
(* The store implements the content lifecycle. *)

LEMMA PhaseOf ==
  ASSUME TypeOK, NEW h \in Hash
  PROVE  /\ h \notin physicalFiles <=> ContentPhase[h] = "unknown"
         /\ h \in Kept <=> ContentPhase[h] = "kept"
         /\ h \in Condemned <=> ContentPhase[h] = "condemned"
  BY DEF ContentPhase, Kept, Condemned, TypeOK

LEMMA LifecycleInit == Init => Lifecycle!Init
  BY DEF Init, Lifecycle!Init, ContentPhase

\* A step that records no content and leaves the bucket alone condemns the
\* content whose count falls to zero, if any.
LEMMA CondemnStep ==
  ASSUME TypeOK, TypeOK', CountsFall, physicalFiles' = physicalFiles,
         objects' = objects
  PROVE  Lifecycle!Next
<1>. DEFINE S == Kept \ Kept'
<1>1. S \in SUBSET Hash /\ \A h \in S : ContentPhase[h] = "kept"
  BY PhaseOf DEF Kept, TypeOK
<1>2. ContentPhase' =
          [h \in Hash |-> IF h \in S THEN "condemned" ELSE ContentPhase[h]]
  BY DEF ContentPhase, CountsFall, Kept, TypeOK
<1>3. Lifecycle!Condemn(S)
  BY <1>1, <1>2 DEF Lifecycle!Condemn
<1>. QED
  BY <1>1, <1>3 DEF Lifecycle!Next

\* A new row of physical_files is counted once, and is kept content.
LEMMA RegisterPhase ==
  ASSUME TypeOK, NEW h \in Hash, CreatePhysicalFile(h)
  PROVE  ContentPhase' = [ContentPhase EXCEPT ![h] = "kept"]
<1>1. ASSUME NEW g \in Hash
      PROVE  ContentPhase'[g] = [ContentPhase EXCEPT ![h] = "kept"][g]
  BY <1>1 DEF CreatePhysicalFile, ContentPhase, TypeOK
<1>. QED
  BY <1>1 DEF ContentPhase

LEMMA LifecycleStep ==
  ASSUME IndInv, IndInv', Next
  PROVE  Lifecycle!Next \/ UNCHANGED Lifecycle!vars
<1>0. /\ TypeOK /\ TypeOK' /\ CountsFall
      /\ ArgumentsOK /\ VerifiedIsStored /\ CleanupOnlyCondemned
  BY CountNext DEF IndInv
<1>1. CASE physicalFiles' = physicalFiles /\ objects' = objects
  BY <1>0, <1>1, CondemnStep
<1>2. ASSUME NEW h \in Hash, PutObject(h)
      PROVE  Lifecycle!Next
  <2>1. Lifecycle!Put(h)
    BY <1>2 DEF PutObject, Lifecycle!Put, ContentPhase, tables
  <2>. QED
    BY <2>1 DEF Lifecycle!Next
<1>3. ASSUME NEW h \in Hash, DeleteObject(h)
      PROVE  Lifecycle!Next
  <2>1. h \in Condemned
    BY <1>0, <1>3 DEF DeleteObject, CleanupOnlyCondemned
  <2>2. Lifecycle!Collect(h)
    BY <1>0, <1>3, <2>1, PhaseOf
    DEF DeleteObject, Lifecycle!Collect, ContentPhase, tables
  <2>. QED
    BY <2>2 DEF Lifecycle!Next
<1>4. ASSUME NEW r \in Request, RecordUpload(r),
             CreatePhysicalFile(requests[r].content)
      PROVE  Lifecycle!Next
  <2>. DEFINE h == requests[r].content
  <2>1. h \in Hash /\ h \notin physicalFiles /\ h \in objects
    BY <1>0, <1>4
    DEF RecordUpload, CreatePhysicalFile, ArgumentsOK, VerifiedIsStored
  <2>2. ContentPhase[h] = "unknown"
    BY <1>0, <2>1, PhaseOf
  <2>3. ContentPhase' = [ContentPhase EXCEPT ![h] = "kept"]
    BY <1>0, <1>4, <2>1, RegisterPhase
  <2>4. Lifecycle!Register(h)
    BY <1>4, <2>1, <2>2, <2>3 DEF RecordUpload, Lifecycle!Register, bucket
  <2>. QED
    BY <2>1, <2>4 DEF Lifecycle!Next
<1>5. ASSUME NEW r \in Request, Start(r) \/ Continue(r)
      PROVE  \/ physicalFiles' = physicalFiles /\ objects' = objects
             \/ RecordUpload(r) /\ CreatePhysicalFile(requests[r].content)
  BY <1>5, ContinueKinds, DeletionKeepsTables
  DEF Start, PreUploadCheck, VerifyUpload, FindFile, FindFolder, ReuseContent,
      RecordUpload, DeleteFileRow, DecrementCount, CommitDeleteFolder,
      tables, bucket
<1>6. CASE Client \/ CleanupFiles \/ Failure
  <2>1. \/ physicalFiles' = physicalFiles /\ objects' = objects
        \/ \E h \in Hash : PutObject(h) \/ DeleteObject(h)
    BY <1>6, FailureKinds
    DEF Client, UrlExpires, CleanupFiles, ListForCleanup, DeleteRecord,
        PreUploadCheckMisses, DeleteObjectFails, Abort, Crash, tables, bucket
  <2>. QED
    BY <1>1, <1>2, <1>3, <2>1
<1>. QED
  BY <1>1, <1>4, <1>5, <1>6 DEF Next, NextWithoutFailure

\* Contents go from unknown to kept to condemned and never back, and only what
\* is condemned leaves the bucket.
THEOREM Implementation == Spec => ImplementsLifecycle
<1>1. IndInv /\ IndInv' /\ [Next]_vars => [Lifecycle!Next]_(Lifecycle!vars)
  <2>1. ASSUME IndInv, IndInv', Next
        PROVE  [Lifecycle!Next]_(Lifecycle!vars)
    BY <2>1, LifecycleStep
  <2>2. ASSUME UNCHANGED vars
        PROVE  UNCHANGED Lifecycle!vars
    BY <2>2 DEF vars, tables, bucket, Lifecycle!vars, ContentPhase
  <2>. QED
    BY <2>1, <2>2
<1>. QED
  BY <1>1, LifecycleInit, Invariance, PTL
  DEF Spec, ImplementsLifecycle, Lifecycle!Spec
=============================================================================
