----------------------------- MODULE FolderTree -----------------------------
(***************************************************************************)
(* The folder hierarchy of files-backend, which the table folders stores   *)
(* twice: as parent_id, with ON DELETE CASCADE, and as path, the ltree of  *)
(* the ids from the root down.  CreateFolder reads the path of the parent  *)
(* in one statement and inserts in the next; DeleteFolder, and every query *)
(* on a subtree, selects by path and relies on the cascade for the rest.   *)
(*                                                                         *)
(* Left out: owners and names (a refused request changes nothing, and any  *)
(* INSERT may violate UNIQUE), real_path (built beside path in the same    *)
(* statements), and the files (see ContentStore).                          *)
(***************************************************************************)
EXTENDS Integers, Sequences, FiniteSets, SequencesExt

CONSTANTS
    FolderId,  \* ids that rows of folders may receive
    Request,   \* the mutations that run at the same time
    Root,      \* a NULL parent_id
    None       \* an argument that a request does not have

ASSUME ConstantsAreDistinct ==
    Root \notin FolderId /\ None \notin FolderId \cup {Root}

ASSUME FinitelyManyRequests == IsFiniteSet(Request)

VARIABLES
    folders,   \* the committed rows of folders
    made,      \* history variable: every id that a row has ever had
    requests   \* the running mutation of each member of Request

vars == <<folders, made, requests>>

Path == Seq(FolderId)
FolderRow == [id : FolderId, parent : FolderId \cup {Root}, path : Path]

Pc == {"idle", "insert", "begun", "deleting"}

\* The open transaction has locked and deleted the rows doomed; it goes on
\* with the rows todo, in this order.
RequestState ==
    [pc : Pc, folder : FolderId \cup {None}, path : Path,
     todo : Seq(FolderRow), doomed : SUBSET FolderRow]

Call(pc, folder, path) ==
    [pc |-> pc, folder |-> folder, path |-> path, todo |-> <<>>, doomed |-> {}]
Idle == Call("idle", None, <<>>)

Become(r, state) == requests' = [requests EXCEPT ![r] = state]

\* p <@ q: the path p is q or goes on from q.
Below(p, q) == Len(q) <= Len(p) /\ \A i \in 1..Len(q) : p[i] = q[i]

Ids(rows) == {f.id : f \in rows}

\* An open transaction has deleted the row i; it is gone if that commits.
Holds(r, i) == i \in Ids(requests[r].doomed)

IsFree(i) == \A r \in Request : ~Holds(r, i)

\* What DeleteFoldersRecursively selects: nothing if the folder is gone.
SubtreeOf(d) ==
    {f \in folders : \E top \in folders :
                         top.id = d /\ Below(f.path, top.path)}

\* The rows that ON DELETE CASCADE deletes with f.
Children(f) == {g \in folders : g.parent = f.id}

Init ==
    /\ folders = {}
    /\ made = {}
    /\ requests = [r \in Request |-> Idle]

-----------------------------------------------------------------------------
(* CreateFolder *)

\* Mutant: the id of a deleted row is given to a new one.
InsertReusingId(parent, path) ==
    \E i \in FolderId \ Ids(folders) :
        /\ parent \in Ids(folders) \cup {Root}
        /\ IsFree(parent)
        /\ folders' = folders \cup
               {[id |-> i, parent |-> parent, path |-> Append(path, i)]}
        /\ made' = made \cup {i}

\* The foreign key: the parent must be there, and stays until the INSERT
\* commits; the INSERT waits for a transaction that has deleted the parent.
Insert(parent, path) ==
    \E i \in FolderId \ made :
        /\ parent \in Ids(folders) \cup {Root}
        /\ IsFree(parent)
        /\ folders' = folders \cup
               {[id |-> i, parent |-> parent, path |-> Append(path, i)]}
        /\ made' = made \cup {i}

\* Mutant: the parent is not a foreign key.
InsertWithoutForeignKey(r) ==
    /\ requests[r].pc = "insert"
    /\ \E i \in FolderId \ made :
           /\ folders' = folders \cup
                  {[id |-> i, parent |-> requests[r].folder,
                    path |-> Append(requests[r].path, i)]}
           /\ made' = made \cup {i}
    /\ Become(r, Idle)

CreateRootFolder(r) ==
    /\ requests[r] = Idle
    /\ Insert(Root, <<>>)
    /\ UNCHANGED requests

\* Mutant: the arguments change places.
ReadParentPathSwapped(r, parent) ==
    /\ requests[r] = Idle
    /\ \E f \in folders :
           f.id = parent /\ Become(r, Call("insert", f.path, parent))
    /\ UNCHANGED <<folders, made>>

ReadParentPath(r, parent) ==
    /\ requests[r] = Idle
    /\ \E f \in folders :
           f.id = parent /\ Become(r, Call("insert", parent, f.path))
    /\ UNCHANGED <<folders, made>>

\* It fails if the parent has gone since its path was read, or if the name
\* is taken.
InsertBelowParent(r) ==
    /\ requests[r].pc = "insert"
    /\ \/ Insert(requests[r].folder, requests[r].path)
       \/ UNCHANGED <<folders, made>>
    /\ Become(r, Idle)

-----------------------------------------------------------------------------
(* DeleteFolder, as far as it concerns folders: DELETE ... WHERE path <@ ... *)

FindFolder(r, d) ==
    /\ requests[r] = Idle
    /\ \E f \in folders : f.id = d /\ Become(r, Call("begun", d, f.path))
    /\ UNCHANGED <<folders, made>>

\* The DELETE selects its rows in one snapshot, in the order of some scan.
SelectSubtree(r) ==
    /\ requests[r].pc = "begun"
    /\ \E scan \in SetToSeqs(SubtreeOf(requests[r].folder)) :
           Become(r, [requests[r] EXCEPT !.pc = "deleting", !.todo = scan])
    /\ UNCHANGED <<folders, made>>

\* It waits for a transaction that has deleted the row, and skips the row if
\* that commits.
DeleteRow(r) ==
    /\ requests[r].todo # <<>>
    /\ LET f == Head(requests[r].todo)
       IN  /\ IsFree(f.id) \/ Holds(r, f.id)
           /\ Become(r, [requests[r] EXCEPT !.todo = Tail(@),
                                            !.doomed = @ \cup ({f} \cap folders)])
    /\ UNCHANGED <<folders, made>>

\* What remains of the cascade once the rows doomed are deleted.
Unfinished(r) ==
    {f \in requests[r].doomed : Children(f) \ requests[r].doomed # {}}

\* ON DELETE CASCADE for one deleted row: a statement with a snapshot of its
\* own, which finds the folders that were inserted after the first.
Cascade(r) ==
    /\ requests[r].pc = "deleting" /\ requests[r].todo = <<>>
    /\ \E f \in Unfinished(r) :
           \E scan \in SetToSeqs(Children(f) \ requests[r].doomed) :
               Become(r, [requests[r] EXCEPT !.todo = scan])
    /\ UNCHANGED <<folders, made>>

\* Mutant: parent_id has no ON DELETE CASCADE (nor is it a foreign key).
CommitWithoutCascade(r) ==
    /\ requests[r].pc = "deleting" /\ requests[r].todo = <<>>
    /\ folders' = folders \ requests[r].doomed
    /\ Become(r, Idle)
    /\ UNCHANGED made

\* Mutant: a deletion that finds nothing returns without ending its
\* transaction.
CommitIfFound(r) ==
    /\ requests[r].pc = "deleting" /\ requests[r].todo = <<>>
    /\ requests[r].doomed # {} /\ Unfinished(r) = {}
    /\ folders' = folders \ requests[r].doomed
    /\ Become(r, Idle)
    /\ UNCHANGED made

Commit(r) ==
    /\ requests[r].pc = "deleting" /\ requests[r].todo = <<>>
    /\ Unfinished(r) = {}
    /\ folders' = folders \ requests[r].doomed
    /\ Become(r, Idle)
    /\ UNCHANGED made

-----------------------------------------------------------------------------
\* An error, or a crash of the server: an open transaction is rolled back.
Abort(r) ==
    /\ requests[r] # Idle
    /\ Become(r, Idle)
    /\ UNCHANGED <<folders, made>>

WaitsFor(r, q) ==
    /\ r # q /\ requests[r].todo # <<>>
    /\ Holds(q, Head(requests[r].todo).id)

\* Transactions that wait for one another.  (Each waits for one other at most.)
Circles ==
    {circle \in (SUBSET Request) \ {{}} :
        /\ \A r \in circle : \E q \in circle : WaitsFor(r, q)
        /\ \A q \in circle : \E r \in circle : WaitsFor(r, q)}

\* PostgreSQL detects such a circle and fails one of them.
BreakDeadlock == \E circle \in Circles : \E r \in circle : Abort(r)

Start(r) ==
    \/ CreateRootFolder(r)
    \/ \E d \in FolderId : ReadParentPath(r, d) \/ FindFolder(r, d)

Continue(r) ==
    \/ InsertBelowParent(r)
    \/ SelectSubtree(r)
    \/ DeleteRow(r)
    \/ Cascade(r)
    \/ Commit(r)

Next ==
    \/ \E r \in Request : Start(r) \/ Continue(r) \/ Abort(r)
    \/ BreakDeadlock

Spec == Init /\ [][Next]_vars

\* PostgreSQL queues the waiters of a row and watches for deadlocks.
FairSpec ==
    /\ Spec
    /\ \A r \in Request : SF_vars(Continue(r))
    /\ WF_vars(BreakDeadlock)

-----------------------------------------------------------------------------
(* Properties *)

\* Rows, and the rows and paths that requests remember, have their types.
TypeOK ==
    /\ folders \subseteq FolderRow
    /\ made \subseteq FolderId
    /\ requests \in [Request -> RequestState]

\* The two forms of the hierarchy agree: the path of a folder is that of its
\* parent, which exists, and its own id, although CreateFolder computes it
\* from a path it read before others deleted and created folders.
PathsFollowParents ==
    \A f \in folders :
        \/ f.parent = Root /\ f.path = <<f.id>>
        \/ \E g \in folders : g.id = f.parent /\ f.path = Append(g.path, f.id)

\* A DeleteFolder that commits removes the subtree it was asked for, all of it
\* and nothing else, although folders are created below it meanwhile.
DeletesExactlyTheSubtree ==
    [][\A r \in Request :
           Commit(r) =>
               folders' = {f \in folders : ~Below(f.path, requests[r].path)}]_vars

\* An id names one row, now and for ever.
IdsAreUnique ==
    /\ Ids(folders) \subseteq made
    /\ \A f, g \in folders : f.id = g.id => f = g

\* The path that CreateFolder remembers is that of the parent, if the parent
\* is still there; the id of a parent that has gone is never used again.
RememberedPathIsCurrent ==
    \A r \in Request :
        requests[r].pc = "insert" =>
            /\ requests[r].folder \in made
            /\ \A f \in folders :
                   f.id = requests[r].folder => f.path = requests[r].path

\* The inductive invariant: what makes it safe to insert a folder under a path
\* that was read by an earlier statement.
IndInv ==
    /\ TypeOK
    /\ IsFiniteSet(folders)
    /\ IdsAreUnique
    /\ RememberedPathIsCurrent
    /\ PathsFollowParents

\* CreateFolder and DeleteFolder look as if they took place at once, though they
\* are several statements, wait for one another and go by path: folders are only
\* created in folders that are there, and what is deleted is what is inside,
\* folders created meanwhile included (Hierarchy).
Tree == {[id |-> f.id, parent |-> f.parent] : f \in folders}
H == INSTANCE Hierarchy WITH tree <- Tree, used <- made
ImplementsHierarchy == H!Spec

\* What a deletion knows of its folder stays right while others create and
\* delete: it has the row of the folder, if there is one, and rows below it.
DeletionsKeepToPath ==
    \A r \in Request :
        LET q == requests[r]
            rows == q.doomed \cup ToSet(q.todo)
        IN  /\ q.pc # "deleting" => q.todo = <<>> /\ q.doomed = {}
            /\ q.pc \in {"begun", "deleting"} =>
                /\ q.folder \in made
                /\ q.path # <<>> /\ q.path[Len(q.path)] = q.folder
                /\ \A f \in folders : f.id = q.folder =>
                    f.path = q.path /\ (q.pc = "deleting" => f \in rows)
            /\ \A f \in rows : Below(f.path, q.path)
            /\ \A f \in q.doomed :
                f.id \in made /\ \A g \in folders : g.id = f.id => g = f

\* No row is deleted by two open transactions.
LocksExclude ==
    \A r, q \in Request :
        r # q => Ids(requests[r].doomed) \cap Ids(requests[q].doomed) = {}

\* The statement that comes next need not wait.
CanContinue(r) ==
    LET q == requests[r]
    IN  \/ q.pc = "insert" /\ IsFree(q.folder)
        \/ q.pc = "begun"
        \/ q.pc = "deleting" /\ q.todo = <<>>
        \/ q.todo # <<>> /\ (IsFree(Head(q.todo).id) \/ Holds(r, Head(q.todo).id))

\* The waiting that PostgreSQL has to break is all there is: as long as there
\* is no circle of deletions, one of the requests that run can go on.
NobodyIsStuck ==
    (\E r \in Request : requests[r].pc # "idle") =>
        (\E r \in Request : CanContinue(r)) \/ Circles # {}

\* Deletions of nested folders, and creations in them, never wait for one
\* another forever, in whatever order they come to lock their rows: there is
\* no deadlock other than those that PostgreSQL breaks, and a cascade ends.
RequestsFinish ==
    \A r \in Request : requests[r] # Idle ~> requests[r] = Idle
=============================================================================
