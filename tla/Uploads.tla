------------------------------ MODULE Uploads ------------------------------
(***************************************************************************)
(* The lists of PreUploadCheck and ConfirmUploads, entry by entry: what    *)
(* they write, what they answer, and the connections they take meanwhile   *)
(* (files.resolvers.go:311-477).  Each step here is also a step of         *)
(* ConnectionPool: a statement or a transaction that begins or ends.       *)
(*                                                                         *)
(* No file is deleted here, which is ContentStore's subject, so that an    *)
(* answer which was true stays true; DeleteFolder is one of another folder *)
(* and takes connections only.  What ContentStore says of objects in the   *)
(* bucket is left out: an upload is verified or refused.                   *)
(***************************************************************************)
EXTENDS ConnectionPool, Sequences

CONSTANTS
    Hash, Name,
    Place,     \* where files are put: each owner's folders and root
    Roots,     \* those that are not folders (folder_id is NULL)
    Lists,     \* the lists that clients send
    MaxFiles,  \* bounds the rows of files
    None       \* an id that is not Valid

Entry == [hash : Hash, place : Place, name : Name]

ASSUME ListsAssumption ==
    \A list \in Lists : list \in Seq(Entry) /\ Len(list) \in 1 .. MaxUploads
ASSUME FilesAssumption == MaxFiles \in Nat /\ None \notin Nat /\ Roots \subseteq Place

VARIABLES
    known,    \* the contents that have a row of physical_files
    files,    \* the table files; ids are numbered as the rows are made
    batches   \* the list that each request works through, and its answer

uploads == <<known, files, batches>>

File == [id : 1 .. MaxFiles, entry : Entry, original : BOOLEAN]
Item == [entry : Entry, id : 1 .. MaxFiles \cup {None}]

\* left: the entries from the one at hand on; found: its content is known;
\* told: what the answer says so far, or said, until the request is another.
Batch == [left : Seq(Entry), found : BOOLEAN, told : SUBSET Item]
NoBatch == [left |-> <<>>, found |-> FALSE, told |-> {}]

UploadsInit ==
    /\ Init
    /\ known = {} /\ files = {}
    /\ batches = [r \in Request |-> NoBatch]

-----------------------------------------------------------------------------
AtHand(r) == Head(batches[r].left)
IsLast(r) == Len(batches[r].left) = 1

Become(r, batch) == batches' = [batches EXCEPT ![r] = batch]

StartBatch(r, list) == Become(r, [NoBatch EXCEPT !.left = list])

\* An error instead of an answer, or a request without a list.
Drop(r) == Become(r, NoBatch)

\* On to the next entry, or to the answer.
Handled(r, items) ==
    Become(r, [left |-> Tail(batches[r].left), found |-> FALSE,
               told |-> batches[r].told \cup items])

\* UNIQUE (owner_id, folder_id, filename), where NULL differs from NULL.
NameIsFree(entry) ==
    entry.place \in Roots
      \/ \A f \in files : f.entry.place = entry.place => f.entry.name # entry.name

\* The INSERT, when it succeeds.
CreateFileReference(entry, original, i) ==
    /\ {f.id : f \in files} = 1 .. i - 1
    /\ NameIsFree(entry)
    /\ files' = files \cup {[id |-> i, entry |-> entry, original |-> original]}

-----------------------------------------------------------------------------
(* PreUploadCheck: one statement or two for each entry.                    *)

PreUploadCheck(r) ==
    /\ Query(r)
    /\ \E list \in Lists : StartBatch(r, list)
    /\ UNCHANGED <<known, files>>

EndLookup(r) == EndStatement(r) /\ batches[r].left # <<>> /\ ~batches[r].found

FindContent(r) ==
    /\ EndLookup(r) /\ requests'[r].pc = "query"
    /\ AtHand(r).hash \in known
    /\ Become(r, [batches[r] EXCEPT !.found = TRUE])
    /\ UNCHANGED <<known, files>>

GoOn(r) == requests'[r].pc = IF IsLast(r) THEN "done" ELSE "query"

\* There is no such content, or the lookup fails: the client gets a URL.
HandOutUrl(r) ==
    /\ EndLookup(r) /\ GoOn(r)
    /\ Handled(r, {})
    /\ UNCHANGED <<known, files>>

\* The id of a folder cannot be parsed, or a URL cannot be signed.
CheckFails(r) ==
    /\ EndLookup(r) /\ requests'[r].pc = "done"
    /\ Drop(r)
    /\ UNCHANGED <<known, files>>

\* The error of the INSERT is ignored: the answer has an item without an id.
InsertReference(r) ==
    /\ EndStatement(r) /\ batches[r].found /\ GoOn(r)
    /\ \/ \E i \in 1 .. MaxFiles :
            /\ CreateFileReference(AtHand(r), FALSE, i)
            /\ Handled(r, {[entry |-> AtHand(r), id |-> i]})
       \/ Handled(r, {[entry |-> AtHand(r), id |-> None]}) /\ UNCHANGED files
    /\ UNCHANGED known

-----------------------------------------------------------------------------
(* ConfirmUploads: a transaction for each entry.                           *)

ConfirmList(r) ==
    /\ ConfirmUploads(r)
    /\ \E list \in Lists :
        Len(list) = requests'[r].left /\ StartBatch(r, list)
    /\ UNCHANGED <<known, files>>

\* Mutant: begins anew until the object is there.
RetryUpload(r) ==
    /\ requests[r].pc = "verifying"
    /\ Go(r, "upload")
    /\ Release
    /\ UNCHANGED <<lost, uploads>>

RefuseUpload(r) ==
    /\ UploadRefused(r)
    /\ Handled(r, {})
    /\ UNCHANGED <<known, files>>

\* Mutant: INSERT INTO physical_files ... ON CONFLICT DO UPDATE.
RecordAgain(r, i) ==
    /\ known' = known \cup {AtHand(r).hash}
    /\ CreateFileReference(AtHand(r), TRUE, i)

\* Both INSERTs go through; the content must be new.
Record(r, i) ==
    /\ AtHand(r).hash \notin known
    /\ known' = known \cup {AtHand(r).hash}
    /\ CreateFileReference(AtHand(r), TRUE, i)

RecordUpload(r) ==
    /\ EndUpload(r)
    /\ \E i \in 1 .. MaxFiles :
        Record(r, i) /\ Handled(r, {[entry |-> AtHand(r), id |-> i]})

\* One of them fails, and the transaction is rolled back.
FailUpload(r) ==
    /\ EndUpload(r)
    /\ Handled(r, {})
    /\ UNCHANGED <<known, files>>

\* Mutant: the error of Commit is ignored.
IgnoreCommit(r) ==
    /\ EndUpload(r)
    /\ \E i \in 1 .. MaxFiles : Handled(r, {[entry |-> AtHand(r), id |-> i]})
    /\ UNCHANGED <<known, files>>

\* Commit returns an error; it may have taken effect.
LoseCommit(r) ==
    /\ CommitFails(r)
    /\ Drop(r)
    /\ \/ \E i \in 1 .. MaxFiles : Record(r, i)
       \/ UNCHANGED <<known, files>>

-----------------------------------------------------------------------------
\* A request without a list: another resolver.
OtherRequest(r) ==
    /\ Query(r) \/ DeleteFolder(r)
    /\ Drop(r)
    /\ UNCHANGED <<known, files>>

\* Steps of the pool that neither write nor answer.
OtherSteps(r) ==
    /\ \/ RunStatement(r) \/ BeginUpload(r) \/ UploadVerified(r)
       \/ EndStatement(r) /\ batches[r].left = <<>>
       \/ BeginDelete(r) \/ EndDelete(r)
    /\ UNCHANGED uploads

LeaveQueue(r) == GiveUp(r) /\ Drop(r) /\ UNCHANGED <<known, files>>

RestartAll ==
    /\ Restart
    /\ batches' = [r \in Request |-> NoBatch]
    /\ UNCHANGED <<known, files>>

UploadsNext ==
    \/ \E r \in Request :
        \/ PreUploadCheck(r) \/ FindContent(r) \/ HandOutUrl(r)
        \/ CheckFails(r) \/ InsertReference(r)
        \/ ConfirmList(r) \/ RefuseUpload(r) \/ RecordUpload(r)
        \/ FailUpload(r) \/ LoseCommit(r)
        \/ OtherRequest(r) \/ OtherSteps(r) \/ LeaveQueue(r)
    \/ RestartAll

UploadsSpec == UploadsInit /\ [][UploadsNext]_<<vars, uploads>>

FairUploadsSpec == UploadsSpec /\ Fairness

-----------------------------------------------------------------------------
(* Properties *)

\* Who was told of a file, with an id that is valid, has it: no error of an
\* INSERT or of Commit, and no crash, stands behind such an item
\* (PreUploadCheck, ConfirmUploads).
AnswersAreTrue ==
    \A r \in Request : \A item \in batches[r].told : item.id # None =>
        \E f \in files : f.id = item.id /\ f.entry = item.entry

\* Clients may send a list again, at once or after a lost answer.  In a folder
\* that adds no second file; at the root only PreUploadCheck adds one, since
\* UNIQUE does not see it, and ConfirmUploads never does.
RetriesAddNoFile ==
    \A f, g \in files : f.entry = g.entry /\ f # g =>
        f.entry.place \in Roots /\ ~(f.original /\ g.original)

\* Every list comes to its end, refusals and failures included, unless its
\* own refused uploads or those of others have taken all connections.
ListsAreFinished ==
    \A r \in Request :
        batches[r].left # <<>>
            ~> batches[r].left = <<>> \/ lost = Connections

-----------------------------------------------------------------------------
UploadsTypeOK ==
    /\ known \subseteq Hash
    /\ files \subseteq File
    /\ batches \in [Request -> Batch]

\* The two loops keep step with what is left of their lists, and a content that
\* was found stays known.
ListsAreInStep ==
    \A r \in Request :
        /\ requests[r].pc \in {"upload", "verifying", "recording"} =>
             Len(batches[r].left) = requests[r].left /\ requests[r].left > 0
        /\ batches[r].found => batches[r].left # <<>> /\ AtHand(r).hash \in known

\* Keys of the table files, and its reference to physical_files.
RowsAreConsistent ==
    /\ \A f, g \in files : f.id = g.id => f = g
    /\ \A f, g \in files :
         f.entry.place = g.entry.place /\ f.entry.name = g.entry.name =>
            f = g \/ f.entry.place \in Roots
    /\ \A f \in files : f.entry.hash \in known
    /\ \A f, g \in files :
         f.original /\ g.original /\ f.entry.hash = g.entry.hash => f = g

\* The inductive invariant of lists, files and answers.
UploadsInv ==
    UploadsTypeOK /\ ListsAreInStep /\ RowsAreConsistent /\ AnswersAreTrue
=============================================================================
