--------------------------- MODULE UploadsProofs ---------------------------
(***************************************************************************)
(* Theorems about Uploads, for every set of lists, places and requests:    *)
(* its steps are steps of ConnectionPool, answers are true, and lists that *)
(* are sent again add no file to a folder.                                 *)
(***************************************************************************)
EXTENDS Uploads, ConnectionPoolProofs, SequenceTheorems

-----------------------------------------------------------------------------
(* Every step of Uploads is one of ConnectionPool.                         *)

LEMMA StepIsPoolStep ==
    ASSUME [UploadsNext]_<<vars, uploads>>
    PROVE  [Next]_vars
<1>1. ASSUME NEW r \in Request,
             \/ PreUploadCheck(r) \/ FindContent(r) \/ HandOutUrl(r)
             \/ CheckFails(r) \/ InsertReference(r)
      PROVE  Next
  BY <1>1 DEF PreUploadCheck, FindContent, HandOutUrl, CheckFails, EndLookup,
              InsertReference, Next, Start, Continue
<1>2. ASSUME NEW r \in Request,
             \/ ConfirmList(r) \/ RefuseUpload(r) \/ RecordUpload(r)
             \/ FailUpload(r) \/ LoseCommit(r)
      PROVE  Next
  BY <1>2 DEF ConfirmList, RefuseUpload, RecordUpload, FailUpload, LoseCommit,
              Next, Start, Continue
<1>3. ASSUME NEW r \in Request,
             OtherRequest(r) \/ OtherSteps(r) \/ LeaveQueue(r)
      PROVE  Next
  BY <1>3 DEF OtherRequest, OtherSteps, LeaveQueue, Next, Start, Continue
<1>4. CASE RestartAll
  BY <1>4 DEF RestartAll, Next
<1>5. CASE UNCHANGED <<vars, uploads>>
  BY <1>5
<1> QED
  BY <1>1, <1>2, <1>3, <1>4, <1>5 DEF UploadsNext

\* Lists, answers and rows add nothing to what the pool does: whoever works
\* through one takes and returns connections as in ConnectionPool.
THEOREM UploadsImplementPool == UploadsSpec => Spec
<1>1. UploadsInit => Init
  BY DEF UploadsInit
<1> QED
  BY <1>1, StepIsPoolStep, PTL DEF UploadsSpec, Spec

-----------------------------------------------------------------------------
Uploading == {"upload", "verifying", "recording"}

LEMMA BatchAfterBecome ==
    ASSUME batches \in [Request -> Batch],
           NEW r \in Request, NEW batch \in Batch, Become(r, batch)
    PROVE  /\ batches' \in [Request -> Batch]
           /\ \A q \in Request :
                batches'[q] = IF q = r THEN batch ELSE batches[q]
BY DEF Become

LEMMA NoBatchIsBatch == NoBatch \in Batch
BY DEF NoBatch, Batch

LEMMA TailOfList ==
    ASSUME NEW list \in Seq(Entry), list # <<>>
    PROVE  /\ Head(list) \in Entry /\ Tail(list) \in Seq(Entry)
           /\ Len(list) \in Nat /\ Len(list) > 0 /\ Len(Tail(list)) = Len(list) - 1
BY HeadTailProperties, EmptySeq, LenProperties

-----------------------------------------------------------------------------
(* What a step does to the rows.                                           *)

\* Rows are added, never changed, and fit those that were there.
RowsGrow ==
    /\ known \subseteq known' /\ files \subseteq files'
    /\ known' \subseteq Hash /\ files' \subseteq File
    /\ RowsAreConsistent'

LEMMA SameRows ==
    ASSUME UploadsInv, UNCHANGED <<known, files>>
    PROVE  RowsGrow
BY DEF UploadsInv, UploadsTypeOK, RowsGrow, RowsAreConsistent

LEMMA RowsAfterInsert ==
    ASSUME UploadsInv, NEW entry \in Entry, NEW original \in BOOLEAN,
           NEW i \in 1 .. MaxFiles, CreateFileReference(entry, original, i),
           known' = known \cup {entry.hash},
           original => entry.hash \notin known
    PROVE  /\ RowsGrow
           /\ \E f \in files' : f.id = i /\ f.entry = entry
<1> DEFINE row == [id |-> i, entry |-> entry, original |-> original]
<1>1. files' = files \cup {row} /\ row \in File
  BY DEF CreateFileReference, File
<1>2. known' \subseteq Hash /\ files' \subseteq File
  BY <1>1 DEF UploadsInv, UploadsTypeOK, Entry
<1>3. \A f \in files : f.id # row.id
  <2>1. \A f \in files : f.id \in 1 .. i - 1
    BY DEF CreateFileReference
  <2> QED
    BY <2>1, FilesAssumption
<1>4. \A f \in files :
        f.entry.place = entry.place /\ f.entry.name = entry.name
          => entry.place \in Roots
  BY DEF CreateFileReference, NameIsFree
<1>5. \A f \in files : f.entry.hash \in known
  BY DEF UploadsInv, RowsAreConsistent
<1>6. /\ row.id = i /\ row.entry = entry /\ row.original = original
  OBVIOUS
<1> HIDE DEF row
<1>7. RowsAreConsistent'
  <2>1. \A f, g \in files' : f.id = g.id => f = g
    BY <1>1, <1>3 DEF UploadsInv, RowsAreConsistent
  <2>2. \A f, g \in files' :
          f.entry.place = g.entry.place /\ f.entry.name = g.entry.name =>
             f = g \/ f.entry.place \in Roots
    BY <1>1, <1>4, <1>6 DEF UploadsInv, RowsAreConsistent
  <2>3. \A f \in files' : f.entry.hash \in known'
    BY <1>1, <1>5, <1>6
  <2>4. \A f, g \in files' :
          f.original /\ g.original /\ f.entry.hash = g.entry.hash => f = g
    BY <1>1, <1>5, <1>6 DEF UploadsInv, RowsAreConsistent
  <2> QED
    BY <2>1, <2>2, <2>3, <2>4 DEF RowsAreConsistent
<1> QED
  BY <1>1, <1>2, <1>6, <1>7 DEF RowsGrow

-----------------------------------------------------------------------------
(* What a step does to one list.                                           *)

LEMMA ListStep ==
    ASSUME requests \in [Request -> RequestState], UploadsInv, RowsGrow,
           NEW r \in Request, NEW state \in RequestState, NEW batch \in Batch,
           requests' = [requests EXCEPT ![r] = state], Become(r, batch),
           state.pc \in Uploading =>
             Len(batch.left) = state.left /\ state.left > 0,
           batch.found => batch.left # <<>> /\ Head(batch.left).hash \in known,
           \A item \in batch.told : item.id # None =>
             \E f \in files' : f.id = item.id /\ f.entry = item.entry
    PROVE  UploadsInv'
<1>1. \A q \in Request :
        /\ requests'[q] = IF q = r THEN state ELSE requests[q]
        /\ batches'[q] = IF q = r THEN batch ELSE batches[q]
  BY BatchAfterBecome DEF UploadsInv, UploadsTypeOK
<1>2. UploadsTypeOK'
  BY BatchAfterBecome DEF UploadsInv, UploadsTypeOK, RowsGrow
<1>3. ListsAreInStep'
  <2> SUFFICES ASSUME NEW q \in Request
               PROVE  /\ requests'[q].pc \in Uploading =>
                           /\ Len(batches'[q].left) = requests'[q].left
                           /\ requests'[q].left > 0
                      /\ batches'[q].found =>
                           /\ batches'[q].left # <<>>
                           /\ Head(batches'[q].left).hash \in known'
    BY DEF ListsAreInStep, AtHand, Uploading
  <2>1. CASE q = r
    BY <1>1, <2>1 DEF RowsGrow
  <2>2. CASE q # r
    BY <1>1, <2>2 DEF RowsGrow, UploadsInv, ListsAreInStep, AtHand, Uploading
  <2> QED
    BY <2>1, <2>2
<1>4. AnswersAreTrue'
  BY <1>1 DEF RowsGrow, UploadsInv, AnswersAreTrue
<1> QED
  BY <1>2, <1>3, <1>4 DEF UploadsInv, RowsGrow

\* The request ends without an answer, or is one without a list.
LEMMA DropStep ==
    ASSUME requests \in [Request -> RequestState], UploadsInv,
           UNCHANGED <<known, files>>,
           NEW r \in Request, NEW state \in RequestState,
           requests' = [requests EXCEPT ![r] = state], Drop(r),
           state.pc \notin Uploading
    PROVE  UploadsInv'
<1>1. Become(r, NoBatch)
  BY DEF Drop
<1>2. /\ NoBatch.found => NoBatch.left # <<>> /\ Head(NoBatch.left).hash \in known
      /\ \A item \in NoBatch.told : item.id # None =>
           \E f \in files' : f.id = item.id /\ f.entry = item.entry
  BY DEF NoBatch
<1> QED
  BY <1>1, <1>2, SameRows, NoBatchIsBatch, ListStep

\* A list begins; in ConfirmUploads the pool counts its entries.
LEMMA StartStep ==
    ASSUME requests \in [Request -> RequestState], UploadsInv,
           UNCHANGED <<known, files>>,
           NEW r \in Request, NEW state \in RequestState,
           requests' = [requests EXCEPT ![r] = state],
           NEW list \in Lists, StartBatch(r, list),
           state.pc \in Uploading => Len(list) = state.left
    PROVE  UploadsInv'
<1> DEFINE batch == [NoBatch EXCEPT !.left = list]
<1>1. list \in Seq(Entry) /\ Len(list) > 0
  BY ListsAssumption, MaxUploadsAssumption
<1>2. batch \in Batch /\ batch.left = list /\ ~batch.found /\ batch.told = {}
  BY <1>1 DEF NoBatch, Batch
<1>3. Become(r, batch)
  BY DEF StartBatch
<1> HIDE DEF batch
<1> QED
  BY <1>1, <1>2, <1>3, SameRows, ListStep

\* The entry at hand is done with, whatever is told about it.
LEMMA HandledStep ==
    ASSUME requests \in [Request -> RequestState], UploadsInv, RowsGrow,
           NEW r \in Request, NEW state \in RequestState,
           requests' = [requests EXCEPT ![r] = state],
           batches[r].left # <<>>,
           NEW items \in SUBSET Item, Handled(r, items),
           state.pc \in Uploading =>
             Len(batches[r].left) - 1 = state.left /\ state.left > 0,
           \A item \in items : item.id # None =>
             \E f \in files' : f.id = item.id /\ f.entry = item.entry
    PROVE  UploadsInv'
<1> DEFINE batch == [left |-> Tail(batches[r].left), found |-> FALSE,
                     told |-> batches[r].told \cup items]
<1>1. batches[r] \in Batch
  BY DEF UploadsInv, UploadsTypeOK
<1>2. /\ Tail(batches[r].left) \in Seq(Entry)
      /\ Len(Tail(batches[r].left)) = Len(batches[r].left) - 1
  BY <1>1, TailOfList DEF Batch
<1>3. /\ batch \in Batch /\ ~batch.found
      /\ batch.left = Tail(batches[r].left)
      /\ batch.told = batches[r].told \cup items
  BY <1>1, <1>2 DEF Batch
<1>4. \A item \in batches[r].told : item.id # None =>
        \E f \in files' : f.id = item.id /\ f.entry = item.entry
  BY DEF UploadsInv, AnswersAreTrue, RowsGrow
<1>5. Become(r, batch)
  BY DEF Handled
<1> HIDE DEF batch
<1> QED
  BY <1>2, <1>3, <1>4, <1>5, ListStep

-----------------------------------------------------------------------------
(* Each action keeps the invariant.                                        *)

\* After a statement comes another one, or the answer.
LEMMA StateAfterStatement ==
    ASSUME requests \in [Request -> RequestState],
           NEW r \in Request, EndStatement(r)
    PROVE  \E state \in RequestState :
             /\ requests' = [requests EXCEPT ![r] = state]
             /\ state.pc \notin Uploading
BY StateAfterGo DEF EndStatement, Waiting, Holding, Uploading

LEMMA CheckStep ==
    ASSUME requests \in [Request -> RequestState], UploadsInv,
           NEW r \in Request,
           \/ PreUploadCheck(r) \/ FindContent(r) \/ HandOutUrl(r)
           \/ CheckFails(r)
    PROVE  UploadsInv'
<1>1. CASE PreUploadCheck(r)
  <2>1. PICK state \in RequestState :
          requests' = [requests EXCEPT ![r] = state] /\ state.pc = "query"
    BY <1>1, StateAfterGo DEF PreUploadCheck, Query, Waiting
  <2> QED
    BY <1>1, <2>1, StartStep DEF PreUploadCheck, Uploading
<1>2. CASE FindContent(r)
  <2> DEFINE batch == [batches[r] EXCEPT !.found = TRUE]
  <2>1. PICK state \in RequestState :
          /\ requests' = [requests EXCEPT ![r] = state]
          /\ state.pc \notin Uploading
    BY <1>2, StateAfterStatement DEF FindContent, EndLookup
  <2>2. batches[r] \in Batch
    BY DEF UploadsInv, UploadsTypeOK
  <2>3. batch \in Batch /\ batch.left = batches[r].left /\ batch.told = batches[r].told
    BY <2>2 DEF Batch
  <2>4. Become(r, batch) /\ UNCHANGED <<known, files>>
    BY <1>2 DEF FindContent
  <2>5. batch.left # <<>> /\ Head(batch.left).hash \in known
    BY <1>2, <2>3 DEF FindContent, EndLookup, AtHand
  <2>6. \A item \in batch.told : item.id # None =>
          \E f \in files' : f.id = item.id /\ f.entry = item.entry
    BY <2>3, <2>4 DEF UploadsInv, AnswersAreTrue
  <2> HIDE DEF batch
  <2> QED
    BY <2>1, <2>3, <2>4, <2>5, <2>6, SameRows, ListStep
<1>3. CASE HandOutUrl(r)
  BY <1>3, StateAfterStatement, SameRows, HandledStep DEF HandOutUrl, EndLookup
<1>4. CASE CheckFails(r)
  BY <1>4, StateAfterStatement, DropStep DEF CheckFails, EndLookup
<1> QED
  BY <1>1, <1>2, <1>3, <1>4

LEMMA InsertStep ==
    ASSUME requests \in [Request -> RequestState], UploadsInv,
           NEW r \in Request, InsertReference(r)
    PROVE  UploadsInv'
<1>1. PICK state \in RequestState :
        /\ requests' = [requests EXCEPT ![r] = state]
        /\ state.pc \notin Uploading
  BY StateAfterStatement DEF InsertReference
<1>2. batches[r] \in Batch /\ batches[r].left # <<>> /\ AtHand(r).hash \in known
  BY DEF InsertReference, UploadsInv, UploadsTypeOK, ListsAreInStep
<1>3. AtHand(r) \in Entry
  BY <1>2, TailOfList DEF Batch, AtHand
<1>4. ASSUME NEW i \in 1 .. MaxFiles, CreateFileReference(AtHand(r), FALSE, i),
             Handled(r, {[entry |-> AtHand(r), id |-> i]})
      PROVE  UploadsInv'
  <2> DEFINE items == {[entry |-> AtHand(r), id |-> i]}
  <2>1. known' = known \cup {AtHand(r).hash}
    BY <1>2 DEF InsertReference
  <2>2. RowsGrow /\ \E f \in files' : f.id = i /\ f.entry = AtHand(r)
    BY <1>3, <1>4, <2>1, RowsAfterInsert
  <2>3. items \in SUBSET Item
    BY <1>3 DEF Item
  <2>4. \A item \in items : item.id # None =>
          \E f \in files' : f.id = item.id /\ f.entry = item.entry
    BY <2>2
  <2> QED
    BY <1>1, <1>2, <1>4, <2>2, <2>3, <2>4, HandledStep
<1>5. ASSUME Handled(r, {[entry |-> AtHand(r), id |-> None]}), UNCHANGED files
      PROVE  UploadsInv'
  <2> DEFINE items == {[entry |-> AtHand(r), id |-> None]}
  <2>1. RowsGrow
    BY <1>5, SameRows DEF InsertReference
  <2>2. items \in SUBSET Item /\ \A item \in items : item.id = None
    BY <1>3 DEF Item
  <2> QED
    BY <1>1, <1>2, <1>5, <2>1, <2>2, HandledStep
<1> QED
  BY <1>4, <1>5 DEF InsertReference

\* An upload that was begun is the first entry of its list.
LEMMA UploadAtHand ==
    ASSUME requests \in [Request -> RequestState], UploadsInv,
           NEW r \in Request, requests[r].pc \in {"verifying", "recording"}
    PROVE  /\ batches[r] \in Batch /\ batches[r].left # <<>>
           /\ Len(batches[r].left) = requests[r].left
           /\ AtHand(r) \in Entry
<1>1. /\ batches[r] \in Batch
      /\ Len(batches[r].left) = requests[r].left /\ requests[r].left > 0
  BY DEF UploadsInv, UploadsTypeOK, ListsAreInStep
<1>2. batches[r].left # <<>>
  BY <1>1, EmptySeq DEF Batch
<1> QED
  BY <1>1, <1>2, TailOfList DEF Batch, AtHand

\* It is followed by the next, and the list stays in step.
LEMMA StateAfterUpload ==
    ASSUME requests \in [Request -> RequestState], UploadsInv,
           NEW r \in Request, requests[r].pc \in {"verifying", "recording"},
           NextUpload(r)
    PROVE  \E state \in RequestState :
             /\ requests' = [requests EXCEPT ![r] = state]
             /\ state.pc \in Uploading =>
                  Len(batches[r].left) - 1 = state.left /\ state.left > 0
<1>1. PICK state \in RequestState :
        /\ requests' = [requests EXCEPT ![r] = state]
        /\ state.pc \in {"upload", "done"}
        /\ state.pc = "upload" =>
             requests[r].left > 1 /\ state.left = requests[r].left - 1
  BY NextUploadState
<1>2. Len(batches[r].left) = requests[r].left /\ requests[r].left \in Nat
  BY UploadAtHand, MaxUploadsAssumption DEF RequestState
<1>3. state.pc \in Uploading =>
        Len(batches[r].left) - 1 = state.left /\ state.left > 0
  BY <1>1, <1>2 DEF Uploading
<1> QED
  BY <1>1, <1>3

LEMMA RecordStep ==
    ASSUME UploadsInv, NEW r \in Request, AtHand(r) \in Entry,
           NEW i \in 1 .. MaxFiles, Record(r, i)
    PROVE  RowsGrow /\ \E f \in files' : f.id = i /\ f.entry = AtHand(r)
BY RowsAfterInsert DEF Record

LEMMA ConfirmStep ==
    ASSUME requests \in [Request -> RequestState], UploadsInv,
           NEW r \in Request,
           \/ ConfirmList(r) \/ RefuseUpload(r) \/ RecordUpload(r)
           \/ FailUpload(r) \/ LoseCommit(r)
    PROVE  UploadsInv'
<1>1. CASE ConfirmList(r)
  <2>1. PICK n \in 1 .. MaxUploads :
          requests' = [requests EXCEPT ![r] = [pc |-> "upload", left |-> n]]
    BY <1>1 DEF ConfirmList, ConfirmUploads
  <2>2. /\ [pc |-> "upload", left |-> n] \in RequestState
        /\ requests'[r].left = n
    BY <2>1, MaxUploadsAssumption DEF RequestState, Waiting
  <2>3. PICK list \in Lists : Len(list) = n /\ StartBatch(r, list)
    BY <1>1, <2>2 DEF ConfirmList
  <2> QED
    BY <1>1, <2>1, <2>2, <2>3, StartStep DEF ConfirmList
<1>2. CASE RefuseUpload(r)
  BY <1>2, UploadAtHand, StateAfterUpload, SameRows, HandledStep
  DEF RefuseUpload, UploadRefused
<1>3. CASE RecordUpload(r)
  <2>1. PICK i \in 1 .. MaxFiles :
          Record(r, i) /\ Handled(r, {[entry |-> AtHand(r), id |-> i]})
    BY <1>3 DEF RecordUpload
  <2> DEFINE items == {[entry |-> AtHand(r), id |-> i]}
  <2>2. requests[r].pc = "recording" /\ NextUpload(r)
    BY <1>3 DEF RecordUpload, EndUpload
  <2>3. AtHand(r) \in Entry /\ batches[r].left # <<>>
    BY <2>2, UploadAtHand
  <2>4. RowsGrow /\ \E f \in files' : f.id = i /\ f.entry = AtHand(r)
    BY <2>1, <2>3, RecordStep
  <2>5. items \in SUBSET Item
    BY <2>3 DEF Item
  <2>6. \A item \in items : item.id # None =>
          \E f \in files' : f.id = item.id /\ f.entry = item.entry
    BY <2>4
  <2> QED
    BY <2>1, <2>2, <2>3, <2>4, <2>5, <2>6, StateAfterUpload, HandledStep
<1>4. CASE FailUpload(r)
  BY <1>4, UploadAtHand, StateAfterUpload, SameRows, HandledStep
  DEF FailUpload, EndUpload
<1>5. CASE LoseCommit(r)
  <2>1. /\ requests[r].pc = "recording"
        /\ requests' = [requests EXCEPT ![r] = Done] /\ Done \in RequestState
        /\ Become(r, NoBatch)
    BY <1>5, DoneIsIdle DEF LoseCommit, CommitFails, Drop
  <2>2. RowsGrow
    BY <1>5, <2>1, UploadAtHand, RecordStep, SameRows DEF LoseCommit
  <2>3. Done.pc \notin Uploading /\ ~NoBatch.found /\ NoBatch.told = {}
    BY DEF Done, Uploading, NoBatch
  <2> QED
    BY <2>1, <2>2, <2>3, NoBatchIsBatch, ListStep
<1> QED
  BY <1>1, <1>2, <1>3, <1>4, <1>5

\* A step of the pool during an entry: its list stays as it is.
LEMMA SameListStep ==
    ASSUME requests \in [Request -> RequestState], UploadsInv,
           UNCHANGED uploads, NEW r \in Request, NEW state \in RequestState,
           requests' = [requests EXCEPT ![r] = state],
           state.pc \in Uploading =>
             requests[r].pc \in Uploading /\ state.left = requests[r].left
    PROVE  UploadsInv'
<1>1. \A q \in Request : requests'[q] = IF q = r THEN state ELSE requests[q]
  OBVIOUS
<1>2. UploadsTypeOK' /\ RowsAreConsistent' /\ AnswersAreTrue'
  BY DEF uploads, UploadsInv, UploadsTypeOK, RowsAreConsistent, AnswersAreTrue
<1>3. ListsAreInStep'
  BY <1>1 DEF uploads, UploadsInv, ListsAreInStep, AtHand, Uploading
<1> QED
  BY <1>2, <1>3 DEF UploadsInv

LEMMA OtherStep ==
    ASSUME requests \in [Request -> RequestState], UploadsInv,
           NEW r \in Request,
           OtherRequest(r) \/ OtherSteps(r) \/ LeaveQueue(r)
    PROVE  UploadsInv'
<1>1. CASE OtherRequest(r)
  BY <1>1, StateAfterGo, DropStep
  DEF OtherRequest, Query, DeleteFolder, Waiting, Uploading
<1>2. CASE OtherSteps(r)
  <2>1. CASE RunStatement(r)
    BY <1>2, <2>1, StateAfterGo, SameListStep
    DEF OtherSteps, RunStatement, Holding, Uploading
  <2>2. CASE BeginUpload(r)
    BY <1>2, <2>2, StateAfterGo, SameListStep
    DEF OtherSteps, BeginUpload, Holding, Uploading
  <2>3. CASE UploadVerified(r)
    BY <1>2, <2>3, StateAfterGo, SameListStep
    DEF OtherSteps, UploadVerified, Holding, Uploading
  <2>4. CASE EndStatement(r)
    BY <1>2, <2>4, StateAfterStatement, SameListStep DEF OtherSteps
  <2>5. CASE BeginDelete(r)
    BY <1>2, <2>5, StateAfterGo, SameListStep
    DEF OtherSteps, BeginDelete, Holding, Uploading
  <2>6. CASE EndDelete(r)
    BY <1>2, <2>6, StateAfterGo, SameListStep
    DEF OtherSteps, EndDelete, Holding, Uploading
  <2> QED
    BY <1>2, <2>1, <2>2, <2>3, <2>4, <2>5, <2>6 DEF OtherSteps
<1>3. CASE LeaveQueue(r)
  BY <1>3, DoneIsIdle, DropStep DEF LeaveQueue, GiveUp, Done, Uploading
<1> QED
  BY <1>1, <1>2, <1>3

LEMMA RestartStep ==
    ASSUME UploadsInv, RestartAll
    PROVE  UploadsInv'
<1>1. \A r \in Request : requests'[r] = Done /\ batches'[r] = NoBatch
  BY DEF RestartAll, Restart
<1>2. UploadsTypeOK' /\ RowsAreConsistent'
  BY NoBatchIsBatch
  DEF RestartAll, UploadsInv, UploadsTypeOK, RowsAreConsistent
<1>3. ListsAreInStep' /\ AnswersAreTrue'
  BY <1>1 DEF ListsAreInStep, AnswersAreTrue, Done, NoBatch
<1> QED
  BY <1>2, <1>3 DEF UploadsInv

-----------------------------------------------------------------------------
LEMMA UploadsInitially == UploadsInit => UploadsInv
BY NoBatchIsBatch
DEF UploadsInit, Init, UploadsInv, UploadsTypeOK, ListsAreInStep,
    RowsAreConsistent, AnswersAreTrue, Done, NoBatch

LEMMA UploadsStep ==
    ASSUME requests \in [Request -> RequestState], UploadsInv,
           [UploadsNext]_<<vars, uploads>>
    PROVE  UploadsInv'
<1>1. CASE \E r \in Request :
             \/ PreUploadCheck(r) \/ FindContent(r) \/ HandOutUrl(r)
             \/ CheckFails(r) \/ InsertReference(r)
  BY <1>1, CheckStep, InsertStep
<1>2. CASE \E r \in Request :
             \/ ConfirmList(r) \/ RefuseUpload(r) \/ RecordUpload(r)
             \/ FailUpload(r) \/ LoseCommit(r)
  BY <1>2, ConfirmStep
<1>3. CASE \E r \in Request :
             OtherRequest(r) \/ OtherSteps(r) \/ LeaveQueue(r)
  BY <1>3, OtherStep
<1>4. CASE RestartAll
  BY <1>4, RestartStep
<1>5. CASE UNCHANGED <<vars, uploads>>
  BY <1>5 DEF vars, uploads, UploadsInv, UploadsTypeOK, ListsAreInStep,
              AtHand, RowsAreConsistent, AnswersAreTrue
<1> QED
  BY <1>1, <1>2, <1>3, <1>4, <1>5 DEF UploadsNext

\* Lists and connections stay in step, rows keep the keys of their tables, and
\* what was answered stays true (PreUploadCheck, ConfirmUploads).
THEOREM UploadsInvariance == UploadsSpec => [](IndInv /\ UploadsInv)
<1>1. UploadsInit => IndInv /\ UploadsInv
  BY InitEstablishesInvariant, UploadsInitially DEF UploadsInit
<1>2. ASSUME IndInv, UploadsInv, [UploadsNext]_<<vars, uploads>>
      PROVE  IndInv' /\ UploadsInv'
  BY <1>2, StepIsPoolStep, StepKeepsInvariant, UploadsStep DEF IndInv, Counts
<1> QED
  BY <1>1, <1>2, PTL DEF UploadsSpec

\* No item with a valid id comes from an INSERT or a Commit that failed, for
\* every number of clients and lists (PreUploadCheck, ConfirmUploads).
THEOREM AnswersAlwaysTrue == UploadsSpec => []AnswersAreTrue
<1>1. UploadsInv => AnswersAreTrue
  BY DEF UploadsInv
<1> QED
  BY <1>1, UploadsInvariance, PTL

\* However often clients send their lists again, a folder gets no second file
\* of an entry, and ConfirmUploads adds none anywhere.
THEOREM RetriesNeverAddFiles == UploadsSpec => []RetriesAddNoFile
<1>1. UploadsInv => RetriesAddNoFile
  BY DEF UploadsInv, RowsAreConsistent, RetriesAddNoFile
<1> QED
  BY <1>1, UploadsInvariance, PTL

\* No list costs the pool a connection that its accounts do not show, however
\* PreUploadCheck and ConfirmUploads end.
THEOREM UploadsAccounting == UploadsSpec => []ConnectionsAccountedFor
BY UploadsImplementPool, Accounting, PTL
=============================================================================
