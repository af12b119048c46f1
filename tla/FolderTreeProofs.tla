-------------------------- MODULE FolderTreeProofs --------------------------
(***************************************************************************)
(* Proofs about FolderTree, for any set of ids and finitely many requests: *)
(* the types, that the paths of the folders agree with their parents, that *)
(* a deletion takes the subtree and nothing else, that requests wait for   *)
(* one another only as PostgreSQL can break, and that they implement       *)
(* Hierarchy.                                                              *)
(***************************************************************************)
EXTENDS FolderTree, Scans, FiniteSetTheorems, TLAPS

-----------------------------------------------------------------------------
(* Lemmas *)

LEMMA IdleType ==
  /\ Idle \in RequestState /\ Idle.pc = "idle"
  BY DEF Idle, Call, RequestState, Pc, FolderRow, Path

LEMMA CallType ==
  ASSUME NEW pc \in Pc, NEW d \in FolderId, NEW p \in Path
  PROVE  /\ Call(pc, d, p) \in RequestState
         /\ Call(pc, d, p).pc = pc
         /\ Call(pc, d, p).folder = d
         /\ Call(pc, d, p).path = p
  BY DEF Call, RequestState

\* Giving a request a well-typed state changes that request only.
LEMMA BecomeEffect ==
  ASSUME TypeOK, NEW r \in Request, NEW state \in RequestState,
         Become(r, state)
  PROVE  /\ requests' \in [Request -> RequestState]
         /\ requests'[r] = state
         /\ \A q \in Request \ {r} : requests'[q] = requests[q]
  BY DEF Become, TypeOK

\* An INSERT adds one row with a new id below a row that is there.
LEMMA InsertEffect ==
  ASSUME IndInv, NEW parent, NEW path \in Path, Insert(parent, path),
         parent \in FolderId \cup {Root},
         parent = Root => path = <<>>,
         \A f \in folders : f.id = parent => f.path = path
  PROVE  /\ folders' \subseteq FolderRow
         /\ made' \subseteq FolderId
         /\ made \subseteq made'
         /\ IsFiniteSet(folders')
         /\ IdsAreUnique'
         /\ PathsFollowParents'
         /\ \A f \in folders' \ folders : f.id \notin made
  <1>1. PICK i \in FolderId \ made :
          /\ parent \in Ids(folders) \cup {Root}
          /\ folders' = folders \cup
                 {[id |-> i, parent |-> parent, path |-> Append(path, i)]}
          /\ made' = made \cup {i}
    BY DEF Insert
  <1> DEFINE new == [id |-> i, parent |-> parent, path |-> Append(path, i)]
  <1>2. new \in FolderRow /\ new.id = i /\ new.parent = parent
        /\ new.path = Append(path, i)
    BY DEF FolderRow, Path
  <1>3. folders' \subseteq FolderRow /\ made' \subseteq FolderId
        /\ made \subseteq made'
    BY <1>1, <1>2 DEF IndInv, TypeOK
  <1>4. IsFiniteSet(folders')
    BY <1>1, FS_AddElement DEF IndInv
  <1>5. \A f \in folders : f.id \in made /\ f.id # i
    BY <1>1 DEF IndInv, IdsAreUnique, Ids
  <1>6. IdsAreUnique'
    BY <1>1, <1>2, <1>5 DEF IndInv, IdsAreUnique, Ids
  <1>7. \/ new.parent = Root /\ new.path = <<new.id>>
        \/ \E g \in folders : g.id = new.parent /\ new.path = Append(g.path, new.id)
    <2>1. CASE parent = Root
      BY <2>1, <1>2 DEF Path
    <2>2. CASE parent # Root
      BY <2>2, <1>1, <1>2 DEF Ids
    <2> QED
      BY <2>1, <2>2
  <1>8. PathsFollowParents'
    <2> SUFFICES ASSUME NEW f \in folders'
                 PROVE  \/ f.parent = Root /\ f.path = <<f.id>>
                        \/ \E g \in folders' :
                               g.id = f.parent /\ f.path = Append(g.path, f.id)
      BY DEF PathsFollowParents
    <2>1. CASE f \in folders
      BY <2>1, <1>1 DEF IndInv, PathsFollowParents
    <2>2. CASE f = new
      BY <2>2, <1>1, <1>7
    <2> QED
      BY <2>1, <2>2, <1>1
  <1> QED
    BY <1>1, <1>2, <1>3, <1>4, <1>6, <1>8

\* Nothing of the tables changes when a request only moves on, and it keeps
\* the invariant unless it comes to remember a wrong path.
LEMMA MoveKeepsInv ==
  ASSUME IndInv, UNCHANGED <<folders, made>>,
         NEW r \in Request, NEW state \in RequestState, Become(r, state),
         state.pc = "insert" =>
             /\ state.folder \in made
             /\ \A f \in folders : f.id = state.folder => f.path = state.path
  PROVE  IndInv'
  <1>1. /\ requests' \in [Request -> RequestState]
        /\ requests'[r] = state
        /\ \A q \in Request \ {r} : requests'[q] = requests[q]
    BY BecomeEffect DEF IndInv
  <1>2. TypeOK'
    BY <1>1 DEF IndInv, TypeOK
  <1>3. RememberedPathIsCurrent'
    BY <1>1 DEF IndInv, RememberedPathIsCurrent
  <1>4. IsFiniteSet(folders)' /\ IdsAreUnique' /\ PathsFollowParents'
    BY DEF IndInv, IdsAreUnique, PathsFollowParents, Ids
  <1> QED
    BY <1>2, <1>3, <1>4 DEF IndInv

-----------------------------------------------------------------------------
(* The steps *)

LEMMA InitInv == Init => IndInv
  <1> SUFFICES ASSUME Init PROVE IndInv
    OBVIOUS
  <1>1. TypeOK
    BY IdleType DEF Init, TypeOK
  <1>2. IsFiniteSet(folders)
    BY FS_EmptySet DEF Init
  <1>3. RememberedPathIsCurrent
    BY IdleType DEF Init, RememberedPathIsCurrent
  <1> QED
    BY <1>1, <1>2, <1>3 DEF Init, IndInv, IdsAreUnique, PathsFollowParents, Ids

LEMMA CreateRootFolderKeepsInv ==
  ASSUME IndInv, NEW r \in Request, CreateRootFolder(r)
  PROVE  IndInv'
  <1>1. Insert(Root, <<>>) /\ UNCHANGED requests
    BY DEF CreateRootFolder
  <1>2. \A f \in folders : f.id # Root
    BY ConstantsAreDistinct DEF IndInv, TypeOK, FolderRow
  <1>3. <<>> \in Path
    BY DEF Path
  <1>4. /\ folders' \subseteq FolderRow /\ made' \subseteq FolderId
        /\ made \subseteq made' /\ IsFiniteSet(folders')
        /\ IdsAreUnique' /\ PathsFollowParents'
        /\ \A f \in folders' \ folders : f.id \notin made
    BY <1>1, <1>2, <1>3, InsertEffect
  <1>5. TypeOK'
    BY <1>1, <1>4 DEF IndInv, TypeOK
  <1>6. RememberedPathIsCurrent'
    BY <1>1, <1>4 DEF IndInv, RememberedPathIsCurrent
  <1> QED
    BY <1>4, <1>5, <1>6 DEF IndInv

LEMMA ReadParentPathKeepsInv ==
  ASSUME IndInv, NEW r \in Request, NEW d \in FolderId, ReadParentPath(r, d)
  PROVE  IndInv'
  <1>1. PICK f \in folders : f.id = d /\ Become(r, Call("insert", d, f.path))
    BY DEF ReadParentPath
  <1>2. f.path \in Path
    BY DEF IndInv, TypeOK, FolderRow
  <1>3. /\ Call("insert", d, f.path) \in RequestState
        /\ Call("insert", d, f.path).folder = d
        /\ Call("insert", d, f.path).path = f.path
    BY <1>2, CallType DEF Pc
  <1>4. d \in made /\ \A g \in folders : g.id = d => g.path = f.path
    BY <1>1 DEF IndInv, IdsAreUnique, Ids
  <1> QED
    BY <1>1, <1>3, <1>4, MoveKeepsInv DEF ReadParentPath

LEMMA InsertBelowParentKeepsInv ==
  ASSUME IndInv, NEW r \in Request, InsertBelowParent(r)
  PROVE  IndInv'
  <1>1. Become(r, Idle) /\ Idle \in RequestState /\ Idle.pc = "idle"
    BY IdleType DEF InsertBelowParent
  <1>2. CASE UNCHANGED <<folders, made>>
    BY <1>1, <1>2, MoveKeepsInv
  <1>3. CASE Insert(requests[r].folder, requests[r].path)
    <2>1. /\ requests[r].pc = "insert" /\ requests[r].path \in Path
          /\ requests[r].folder \in FolderId
          /\ \A f \in folders : f.id = requests[r].folder
                                    => f.path = requests[r].path
      BY DEF InsertBelowParent, IndInv, TypeOK, RequestState,
             RememberedPathIsCurrent
    <2>2. /\ folders' \subseteq FolderRow /\ made' \subseteq FolderId
          /\ made \subseteq made' /\ IsFiniteSet(folders')
          /\ IdsAreUnique' /\ PathsFollowParents'
          /\ \A f \in folders' \ folders : f.id \notin made
      BY <1>3, <2>1, InsertEffect, ConstantsAreDistinct
    <2>3. /\ requests' \in [Request -> RequestState]
          /\ requests'[r] = Idle
          /\ \A q \in Request \ {r} : requests'[q] = requests[q]
      BY <1>1, BecomeEffect DEF IndInv
    <2>4. TypeOK'
      BY <2>2, <2>3 DEF TypeOK
    <2>5. RememberedPathIsCurrent'
      BY <1>1, <2>2, <2>3 DEF IndInv, RememberedPathIsCurrent
    <2> QED
      BY <2>2, <2>4, <2>5 DEF IndInv
  <1> QED
    BY <1>2, <1>3 DEF InsertBelowParent

LEMMA FindFolderKeepsInv ==
  ASSUME IndInv, NEW r \in Request, NEW d \in FolderId, FindFolder(r, d)
  PROVE  IndInv'
  <1>1. PICK f \in folders : f.id = d /\ Become(r, Call("begun", d, f.path))
    BY DEF FindFolder
  <1>2. f.path \in Path
    BY DEF IndInv, TypeOK, FolderRow
  <1>3. /\ Call("begun", d, f.path) \in RequestState
        /\ Call("begun", d, f.path).pc = "begun"
    BY <1>2, CallType DEF Pc
  <1> QED
    BY <1>1, <1>3, MoveKeepsInv DEF FindFolder

\* A deletion that moves on keeps the invariant.
LEMMA DeletionMoves ==
  ASSUME IndInv, NEW r \in Request, UNCHANGED <<folders, made>>,
         NEW todo \in Seq(FolderRow), NEW doomed \in SUBSET FolderRow,
         NEW pc \in {requests[r].pc, "deleting"},
         Become(r, [requests[r] EXCEPT !.pc = pc, !.todo = todo,
                                       !.doomed = doomed])
  PROVE  IndInv'
  <1> DEFINE state == [requests[r] EXCEPT !.pc = pc, !.todo = todo,
                                          !.doomed = doomed]
  <1>1. /\ state \in RequestState
        /\ state.pc = pc
        /\ state.folder = requests[r].folder
        /\ state.path = requests[r].path
    BY DEF IndInv, TypeOK, RequestState, Pc
  <1>2. state.pc = "insert" =>
            /\ state.folder \in made
            /\ \A f \in folders : f.id = state.folder => f.path = state.path
    BY <1>1 DEF IndInv, RememberedPathIsCurrent
  <1>3. Become(r, state)
    OBVIOUS
  <1> HIDE DEF state
  <1> QED
    BY <1>1, <1>2, <1>3, MoveKeepsInv

LEMMA SelectSubtreeKeepsInv ==
  ASSUME IndInv, NEW r \in Request, SelectSubtree(r)
  PROVE  IndInv'
  <1> DEFINE S == SubtreeOf(requests[r].folder)
  <1>1. PICK scan \in SetToSeqs(S) :
          Become(r, [requests[r] EXCEPT !.pc = "deleting", !.todo = scan])
    BY DEF SelectSubtree
  <1>2. S \subseteq folders
    BY DEF SubtreeOf
  <1>3. IsFiniteSet(S) /\ S \subseteq FolderRow
    BY <1>2, FS_Subset DEF IndInv, TypeOK
  <1>4. scan \in Seq(FolderRow)
    BY <1>3, ScanType
  <1>5. requests[r].doomed \in SUBSET FolderRow
    BY DEF IndInv, TypeOK, RequestState
  <1>6. [requests[r] EXCEPT !.pc = "deleting", !.todo = scan] =
            [requests[r] EXCEPT !.pc = "deleting", !.todo = scan,
                                !.doomed = requests[r].doomed]
    BY DEF IndInv, TypeOK, RequestState
  <1>7. Become(r, [requests[r] EXCEPT !.pc = "deleting", !.todo = scan,
                                      !.doomed = requests[r].doomed])
    BY <1>1, <1>6
  <1> QED
    BY <1>4, <1>5, <1>7, DeletionMoves DEF SelectSubtree

LEMMA DeleteRowKeepsInv ==
  ASSUME IndInv, NEW r \in Request, DeleteRow(r)
  PROVE  IndInv'
  <1> DEFINE f == Head(requests[r].todo)
             doomed == requests[r].doomed \cup ({f} \cap folders)
  <1>1. /\ requests[r].todo \in Seq(FolderRow) /\ requests[r].todo # <<>>
        /\ requests[r].doomed \in SUBSET FolderRow
        /\ folders \subseteq FolderRow
    BY DEF DeleteRow, IndInv, TypeOK, RequestState
  <1>2. Tail(requests[r].todo) \in Seq(FolderRow) /\ doomed \in SUBSET FolderRow
    BY <1>1
  <1>3. [requests[r] EXCEPT !.todo = Tail(@), !.doomed = @ \cup ({f} \cap folders)] =
            [requests[r] EXCEPT !.pc = requests[r].pc,
                                !.todo = Tail(requests[r].todo), !.doomed = doomed]
    BY DEF IndInv, TypeOK, RequestState
  <1>4. Become(r, [requests[r] EXCEPT !.pc = requests[r].pc,
                                      !.todo = Tail(requests[r].todo),
                                      !.doomed = doomed])
    BY <1>3 DEF DeleteRow
  <1> HIDE DEF doomed
  <1> QED
    BY <1>2, <1>4, DeletionMoves DEF DeleteRow

LEMMA CascadeKeepsInv ==
  ASSUME IndInv, NEW r \in Request, Cascade(r)
  PROVE  IndInv'
  <1>1. PICK f \in Unfinished(r) :
          \E scan \in SetToSeqs(Children(f) \ requests[r].doomed) :
              Become(r, [requests[r] EXCEPT !.todo = scan])
    BY DEF Cascade
  <1> DEFINE S == Children(f) \ requests[r].doomed
  <1>2. PICK scan \in SetToSeqs(S) : Become(r, [requests[r] EXCEPT !.todo = scan])
    BY <1>1
  <1>3. S \subseteq folders
    BY DEF Children
  <1>4. IsFiniteSet(S) /\ S \subseteq FolderRow
    BY <1>3, FS_Subset DEF IndInv, TypeOK
  <1>5. scan \in Seq(FolderRow)
    BY <1>4, ScanType
  <1>6. requests[r].doomed \in SUBSET FolderRow
    BY DEF IndInv, TypeOK, RequestState
  <1>7. [requests[r] EXCEPT !.todo = scan] =
            [requests[r] EXCEPT !.pc = requests[r].pc, !.todo = scan,
                                !.doomed = requests[r].doomed]
    BY DEF IndInv, TypeOK, RequestState
  <1> QED
    BY <1>2, <1>5, <1>6, <1>7, DeletionMoves DEF Cascade

\* The cascade is finished when a deletion commits: no folder that stays has
\* lost its parent.
LEMMA CommitKeepsInv ==
  ASSUME IndInv, NEW r \in Request, Commit(r)
  PROVE  IndInv'
  <1>1. /\ folders' = folders \ requests[r].doomed /\ made' = made
        /\ \A f \in requests[r].doomed : Children(f) \subseteq requests[r].doomed
    BY DEF Commit, Unfinished
  <1>2. /\ requests' \in [Request -> RequestState]
        /\ requests'[r] = Idle /\ Idle.pc = "idle"
        /\ \A q \in Request \ {r} : requests'[q] = requests[q]
    BY IdleType, BecomeEffect DEF Commit, IndInv
  <1>3. TypeOK'
    BY <1>1, <1>2 DEF IndInv, TypeOK
  <1>4. IsFiniteSet(folders')
    BY <1>1, FS_Subset DEF IndInv
  <1>5. IdsAreUnique'
    BY <1>1 DEF IndInv, IdsAreUnique, Ids
  <1>6. RememberedPathIsCurrent'
    BY <1>1, <1>2 DEF IndInv, RememberedPathIsCurrent
  <1>7. PathsFollowParents'
    <2> SUFFICES ASSUME NEW f \in folders', f.parent # Root \/ f.path # <<f.id>>
                 PROVE  \E g \in folders' :
                            g.id = f.parent /\ f.path = Append(g.path, f.id)
      BY DEF PathsFollowParents
    <2>1. PICK g \in folders : g.id = f.parent /\ f.path = Append(g.path, f.id)
      BY <1>1 DEF IndInv, PathsFollowParents
    <2>2. g \notin requests[r].doomed
      BY <1>1, <2>1 DEF Children
    <2> QED
      BY <1>1, <2>1, <2>2
  <1> QED
    BY <1>3, <1>4, <1>5, <1>6, <1>7 DEF IndInv

LEMMA AbortKeepsInv ==
  ASSUME IndInv, NEW r \in Request, Abort(r)
  PROVE  IndInv'
  BY IdleType, MoveKeepsInv DEF Abort

-----------------------------------------------------------------------------
(* The invariant *)

LEMMA NextKeepsInv == IndInv /\ [Next]_vars => IndInv'
  <1> SUFFICES ASSUME IndInv, [Next]_vars PROVE IndInv'
    OBVIOUS
  <1>1. ASSUME NEW r \in Request, Start(r) PROVE IndInv'
    BY <1>1, CreateRootFolderKeepsInv, ReadParentPathKeepsInv,
       FindFolderKeepsInv DEF Start
  <1>2. ASSUME NEW r \in Request, Continue(r) PROVE IndInv'
    BY <1>2, InsertBelowParentKeepsInv, SelectSubtreeKeepsInv,
       DeleteRowKeepsInv, CascadeKeepsInv, CommitKeepsInv DEF Continue
  <1>3. ASSUME NEW r \in Request, Abort(r) PROVE IndInv'
    BY <1>3, AbortKeepsInv
  <1>4. CASE BreakDeadlock
    BY <1>4, <1>3 DEF BreakDeadlock, Circles
  <1>5. CASE UNCHANGED vars
    BY <1>5 DEF vars, IndInv, TypeOK, IdsAreUnique, RememberedPathIsCurrent,
                PathsFollowParents, Ids
  <1> QED
    BY <1>1, <1>2, <1>3, <1>4, <1>5 DEF Next

\* The invariant holds in every state: no statement of a mutation, and no
\* rollback, ever leaves it.
THEOREM Invariance == Spec => []IndInv
  BY InitInv, NextKeepsInv, PTL DEF Spec

\* Rows, and what requests remember of them, have their types, whatever the
\* number of folders and of requests that create and delete them.
THEOREM FolderTypesCorrect == Spec => []TypeOK
  <1>1. IndInv => TypeOK
    BY DEF IndInv
  <1> QED
    BY <1>1, Invariance, PTL

\* CreateFolder and DeleteFolder keep the two forms of the hierarchy, paths and
\* parents, in agreement in every interleaving of their statements.
THEOREM PathsAlwaysFollowParents == Spec => []PathsFollowParents
  <1>1. IndInv => PathsFollowParents
    BY DEF IndInv
  <1> QED
    BY <1>1, Invariance, PTL

-----------------------------------------------------------------------------
(* Deletions                                                               *)

LEMMA BelowSelf ==
  ASSUME NEW p \in Path
  PROVE  Below(p, p)
  BY DEF Below, Path

LEMMA BelowTransitive ==
  ASSUME NEW p \in Path, NEW q \in Path, NEW o \in Path, Below(p, q), Below(q, o)
  PROVE  Below(p, o)
  BY DEF Below, Path

LEMMA BelowAppend ==
  ASSUME NEW p \in Path, NEW q \in Path, NEW i \in FolderId
  PROVE  /\ Append(p, i) \in Path /\ Append(p, i)[Len(Append(p, i))] = i
         /\ Below(Append(p, i), p)
         /\ Below(Append(p, i), q) <=> Below(p, q) \/ q = Append(p, i)
  <1>1. /\ Append(p, i) \in Path /\ Len(p) \in Nat /\ Len(q) \in Nat
        /\ Len(Append(p, i)) = Len(p) + 1 /\ Append(p, i)[Len(p) + 1] = i
        /\ \A k \in 1..Len(p) : Append(p, i)[k] = p[k]
    BY DEF Path
  <1>2. CASE Len(q) <= Len(p)
    BY <1>1, <1>2 DEF Below
  <1>3. CASE Len(q) > Len(p) + 1
    BY <1>1, <1>3 DEF Below
  <1>4. CASE Len(q) = Len(p) + 1
    <2>1. Below(Append(p, i), q) <=> \A k \in 1..Len(q) : Append(p, i)[k] = q[k]
      BY <1>1, <1>4 DEF Below
    <2>2. Below(Append(p, i), q) => q = Append(p, i)
      BY <1>1, <1>4, <2>1 DEF Path
    <2> QED
      BY <1>1, <1>4, <2>1, <2>2 DEF Below
  <1> QED
    BY <1>1, <1>2, <1>3, <1>4 DEF Below

\* The path of a folder ends with its id.
LEMMA PathEnds ==
  ASSUME IndInv, NEW f \in folders
  PROVE  f.path \in Path /\ f.path # <<>> /\ f.path[Len(f.path)] = f.id
  <1>1. f.path \in Path /\ f.id \in FolderId
    BY DEF IndInv, TypeOK, FolderRow
  <1>2. CASE f.path = <<f.id>>
    BY <1>1, <1>2
  <1>3. ASSUME NEW g \in folders, f.path = Append(g.path, f.id)
        PROVE  f.path # <<>> /\ f.path[Len(f.path)] = f.id
    <2>1. g.path \in Path
      BY DEF IndInv, TypeOK, FolderRow
    <2> QED
      BY <1>1, <1>3, <2>1, BelowAppend DEF Path
  <1> QED
    BY <1>1, <1>2, <1>3 DEF IndInv, PathsFollowParents

\* DeletionsKeepToPath, of one request.
KeepsToPath(q, fs, ids) ==
  LET rows == q.doomed \cup ToSet(q.todo)
  IN  /\ q.pc # "deleting" => q.todo = <<>> /\ q.doomed = {}
      /\ q.pc \in {"begun", "deleting"} =>
          /\ q.folder \in ids
          /\ q.path # <<>> /\ q.path[Len(q.path)] = q.folder
          /\ \A f \in fs : f.id = q.folder =>
              f.path = q.path /\ (q.pc = "deleting" => f \in rows)
      /\ \A f \in rows : Below(f.path, q.path)
      /\ \A f \in q.doomed :
          f.id \in ids /\ \A g \in fs : g.id = f.id => g = f

LEMMA KeepToPath ==
  DeletionsKeepToPath <=> \A r \in Request : KeepsToPath(requests[r], folders, made)
  BY DEF DeletionsKeepToPath, KeepsToPath

\* A request that deletes nothing.
LEMMA NotDeleting ==
  ASSUME NEW q, q.pc \in {"idle", "insert"}, q.todo = <<>>, q.doomed = {},
         NEW fs, NEW ids
  PROVE  KeepsToPath(q, fs, ids)
  BY NoRows DEF KeepsToPath

\* Rows that come have new ids.
LEMMA RowsNext ==
  ASSUME IndInv, Next
  PROVE  made \subseteq made' /\ \A f \in folders' \ folders : f.id \notin made
  <1>1. ASSUME NEW parent, NEW path, Insert(parent, path)
        PROVE  made \subseteq made' /\ \A f \in folders' \ folders : f.id \notin made
    BY <1>1 DEF Insert
  <1>2. ASSUME NEW r \in Request, Start(r) \/ Continue(r) \/ Abort(r)
        PROVE  made \subseteq made' /\ \A f \in folders' \ folders : f.id \notin made
    BY <1>1, <1>2 DEF Start, CreateRootFolder, ReadParentPath, FindFolder, Continue,
       InsertBelowParent, SelectSubtree, DeleteRow, Cascade, Commit, Abort
  <1> QED
    BY <1>2 DEF Next, BreakDeadlock, Circles

\* Others change the table without disturbing what a deletion knows.
LEMMA TableChanges ==
  ASSUME NEW q, KeepsToPath(q, folders, made), made \subseteq made',
         \A f \in folders' \ folders : f.id \notin made
  PROVE  KeepsToPath(q, folders', made')
  BY DEF KeepsToPath

\* DeleteFolder finds its folder, and then the rows below it.
LEMMA FindFolderKeeps ==
  ASSUME IndInv, NEW r \in Request, NEW d \in FolderId, FindFolder(r, d)
  PROVE  KeepsToPath(requests'[r], folders, made)
  <1>1. PICK f \in folders : f.id = d /\ Become(r, Call("begun", d, f.path))
    BY DEF FindFolder
  <1>2. f.path \in Path /\ f.path # <<>> /\ f.path[Len(f.path)] = d
    BY <1>1, PathEnds
  <1>3. requests'[r] = Call("begun", d, f.path)
    BY <1>1, <1>2, CallType, BecomeEffect DEF IndInv, Pc
  <1>4. d \in made /\ \A g \in folders : g.id = d => g = f
    BY <1>1 DEF IndInv, IdsAreUnique, Ids
  <1> QED
    BY <1>2, <1>3, <1>4, NoRows DEF KeepsToPath, Call

LEMMA SelectSubtreeKeeps ==
  ASSUME IndInv, NEW r \in Request, KeepsToPath(requests[r], folders, made),
         SelectSubtree(r)
  PROVE  KeepsToPath(requests'[r], folders, made)
  <1> DEFINE q == requests[r]
             S == SubtreeOf(q.folder)
  <1>0. q \in RequestState /\ q.pc = "begun" /\ q.doomed = {}
    BY DEF IndInv, TypeOK, SelectSubtree, KeepsToPath
  <1>1. PICK scan \in SetToSeqs(S) :
          Become(r, [q EXCEPT !.pc = "deleting", !.todo = scan])
    BY DEF SelectSubtree
  <1>2. S \subseteq folders /\ S \subseteq FolderRow /\ IsFiniteSet(S)
    BY FS_Subset DEF SubtreeOf, IndInv, TypeOK
  <1>3. ToSet(scan) = S /\ scan \in Seq(FolderRow)
    BY <1>2, ScanRows, ScanType
  <1> DEFINE new == [q EXCEPT !.pc = "deleting", !.todo = scan]
  <1>4. /\ new.pc = "deleting" /\ new.todo = scan /\ new.doomed = {}
        /\ new.folder = q.folder /\ new.path = q.path /\ new \in RequestState
    BY <1>0, <1>3 DEF RequestState, Pc
  <1>5. requests'[r] = new
    BY <1>1, <1>4, BecomeEffect DEF IndInv
  <1> HIDE DEF new
  <1>6. \A f \in S : Below(f.path, q.path)
    BY <1>0 DEF SubtreeOf, KeepsToPath
  <1>7. \A f \in folders : f.id = q.folder => f.path = q.path /\ f \in S
    BY <1>0, BelowSelf, PathEnds DEF SubtreeOf, KeepsToPath
  <1> QED
    BY <1>0, <1>3, <1>4, <1>5, <1>6, <1>7 DEF KeepsToPath

LEMMA DeleteRowKeeps ==
  ASSUME IndInv, NEW r \in Request, KeepsToPath(requests[r], folders, made),
         DeleteRow(r)
  PROVE  KeepsToPath(requests'[r], folders, made)
  <1> DEFINE q == requests[r]
             h == Head(q.todo)
             new == [q EXCEPT !.todo = Tail(@), !.doomed = @ \cup ({h} \cap folders)]
  <1>0. q \in RequestState /\ q.todo # <<>> /\ q.todo \in Seq(FolderRow)
        /\ q.pc = "deleting" /\ folders \subseteq FolderRow
    BY DEF IndInv, TypeOK, DeleteRow, KeepsToPath, RequestState
  <1>1. ToSet(q.todo) = {h} \cup ToSet(Tail(q.todo))
    BY <1>0, HeadAndTail
  <1>2. /\ new.pc = "deleting" /\ new.todo = Tail(q.todo)
        /\ new.doomed = q.doomed \cup ({h} \cap folders)
        /\ new.folder = q.folder /\ new.path = q.path
    BY <1>0 DEF RequestState
  <1>3. requests'[r] = new
    BY DEF DeleteRow, Become, IndInv, TypeOK
  <1> HIDE DEF new, h
  <1>4. h \in folders => h.id \in made /\ \A g \in folders : g.id = h.id => g = h
    BY DEF IndInv, IdsAreUnique, Ids
  <1> QED
    BY <1>0, <1>1, <1>2, <1>3, <1>4 DEF KeepsToPath

\* A row that the cascade finds hangs below one that the deletion has deleted.
LEMMA CascadeKeeps ==
  ASSUME IndInv, NEW r \in Request, KeepsToPath(requests[r], folders, made),
         Cascade(r)
  PROVE  KeepsToPath(requests'[r], folders, made)
  <1> DEFINE q == requests[r]
  <1>0. q \in RequestState /\ q.pc = "deleting" /\ ToSet(q.todo) = {} /\ q.path \in Path
    BY NoRows DEF IndInv, TypeOK, Cascade, RequestState
  <1>1. PICK f \in q.doomed : \E scan \in SetToSeqs(Children(f) \ q.doomed) :
          Become(r, [q EXCEPT !.todo = scan])
    BY DEF Cascade, Unfinished
  <1> DEFINE S == Children(f) \ q.doomed
  <1>2. PICK scan \in SetToSeqs(S) : Become(r, [q EXCEPT !.todo = scan])
    BY <1>1
  <1>3. S \subseteq folders /\ S \subseteq FolderRow /\ IsFiniteSet(S)
    BY FS_Subset DEF Children, IndInv, TypeOK
  <1>4. ToSet(scan) = S
    BY <1>3, ScanRows
  <1> DEFINE new == [q EXCEPT !.todo = scan]
  <1>5. /\ new.pc = "deleting" /\ new.todo = scan /\ new.doomed = q.doomed
        /\ new.folder = q.folder /\ new.path = q.path
    BY <1>0 DEF RequestState
  <1>6. requests'[r] = new
    BY <1>2 DEF Become, IndInv, TypeOK
  <1> HIDE DEF new
  <1>7. ASSUME NEW g \in S
        PROVE  Below(g.path, q.path)
    <2>1. g \in folders /\ g.parent = f.id /\ g.id \in FolderId /\ f.id \in FolderId
          /\ g.path \in Path
      BY <1>0, <1>3, <1>7 DEF Children, FolderRow, RequestState
    <2>2. PICK p \in folders : p.id = f.id /\ g.path = Append(p.path, g.id)
      BY <2>1, ConstantsAreDistinct DEF IndInv, PathsFollowParents
    <2>3. p = f /\ Below(f.path, q.path)
      BY <2>2 DEF KeepsToPath
    <2> QED
      BY <1>0, <2>1, <2>2, <2>3, PathEnds, BelowAppend
  <1> QED
    BY <1>0, <1>4, <1>5, <1>6, <1>7 DEF KeepsToPath

\* No step of a request makes it forget what it deletes.
LEMMA RequestKeeps ==
  ASSUME IndInv, DeletionsKeepToPath, Next, NEW s \in Request
  PROVE  KeepsToPath(requests'[s], folders, made)
  <1>0. \A r \in Request : KeepsToPath(requests[r], folders, made)
    BY KeepToPath
  <1>1. ASSUME NEW r \in Request, NEW state, Become(r, state), r # s \/ state = Idle
        PROVE  KeepsToPath(requests'[s], folders, made)
    <2>1. requests'[s] = IF r = s THEN Idle ELSE requests[s]
      BY <1>1 DEF Become, IndInv, TypeOK
    <2> QED
      BY <1>0, <2>1, NotDeleting DEF Idle, Call
  <1>2. CASE UNCHANGED requests
    BY <1>0, <1>2
  <1>3. ASSUME NEW d \in FolderId, ReadParentPath(s, d)
        PROVE  KeepsToPath(requests'[s], folders, made)
    <2>1. PICK f \in folders : Become(s, Call("insert", d, f.path))
      BY <1>3 DEF ReadParentPath
    <2>2. requests'[s] = Call("insert", d, f.path)
      BY <2>1 DEF Become, IndInv, TypeOK
    <2> QED
      BY <2>2, NotDeleting DEF Call
  <1>4. ASSUME NEW r \in Request, Start(r)
        PROVE  KeepsToPath(requests'[s], folders, made)
    <2>1. CASE r = s
      BY <1>2, <1>3, <1>4, <2>1, FindFolderKeeps DEF Start, CreateRootFolder
    <2>2. CASE r # s
      BY <1>1, <1>2, <1>4, <2>2 DEF Start, CreateRootFolder, ReadParentPath, FindFolder
    <2> QED
      BY <2>1, <2>2
  <1>5. ASSUME NEW r \in Request, Continue(r)
        PROVE  KeepsToPath(requests'[s], folders, made)
    <2>1. CASE r = s
      BY <1>0, <1>1, <1>5, <2>1, SelectSubtreeKeeps, DeleteRowKeeps, CascadeKeeps
      DEF Continue, InsertBelowParent, Commit
    <2>2. CASE r # s
      BY <1>1, <1>5, <2>2
      DEF Continue, InsertBelowParent, SelectSubtree, DeleteRow, Cascade, Commit
    <2> QED
      BY <2>1, <2>2
  <1>6. ASSUME NEW r \in Request, Abort(r)
        PROVE  KeepsToPath(requests'[s], folders, made)
    BY <1>1, <1>6 DEF Abort
  <1> QED
    BY <1>4, <1>5, <1>6 DEF Next, BreakDeadlock, Circles

LEMMA InitKeeps == Init => DeletionsKeepToPath
  BY KeepToPath, NotDeleting DEF Init, Idle, Call

LEMMA NextKeeps == IndInv /\ DeletionsKeepToPath /\ [Next]_vars => DeletionsKeepToPath'
  <1>1. ASSUME IndInv, DeletionsKeepToPath, Next
        PROVE  DeletionsKeepToPath'
    <2> SUFFICES ASSUME NEW s \in Request
                 PROVE  KeepsToPath(requests'[s], folders', made')
      BY DEF DeletionsKeepToPath, KeepsToPath
    <2> QED
      BY <1>1, RequestKeeps, RowsNext, TableChanges
  <1>2. ASSUME DeletionsKeepToPath, UNCHANGED vars
        PROVE  DeletionsKeepToPath'
    BY <1>2 DEF DeletionsKeepToPath, vars
  <1> QED
    BY <1>1, <1>2

\* Whatever deletions and creations interleave with it, a deletion holds the
\* row of its folder and rows below it, and nothing else.
THEOREM DeletionsKeepTrack == Spec => []DeletionsKeepToPath
  BY InitKeeps, NextKeeps, Invariance, PTL DEF Spec

\* The folders on the path of f.
Above(f) == {g \in folders : Below(f.path, g.path)}

\* The parent of a folder is above it, with fewer folders above.
LEMMA ParentIsAbove ==
  ASSUME IndInv, NEW f \in folders, NEW g \in folders,
         f.path = Append(g.path, f.id)
  PROVE  Above(g) \subseteq Above(f) /\ Above(g) # Above(f)
  <1>1. \A h \in folders : h.path \in Path /\ h.id \in FolderId
    BY DEF IndInv, TypeOK, FolderRow
  <1>2. Below(f.path, g.path) /\ Below(f.path, f.path)
    BY <1>1, BelowAppend, BelowSelf
  <1>3. ~Below(g.path, f.path)
    <2>1. Len(f.path) = Len(g.path) + 1 /\ Len(g.path) \in Nat
      BY <1>1 DEF Path
    <2> QED
      BY <2>1 DEF Below
  <1>4. \A h \in folders : Below(g.path, h.path) => Below(f.path, h.path)
    BY <1>1, <1>2, BelowTransitive
  <1> QED
    BY <1>2, <1>3, <1>4 DEF Above

\* Whatever has the folder at the end of a path, and with a folder those that
\* are in it, has all folders below the path: of those it has not, the one with
\* fewest folders above it would be in a folder that it has.
LEMMA SubtreeIsWhole ==
  ASSUME IndInv, NEW path \in Path, path # <<>>, NEW S,
         \A g \in folders : g.id = path[Len(path)] => g \in S,
         \A g \in folders \cap S : Children(g) \subseteq S,
         NEW f \in folders, Below(f.path, path)
  PROVE  f \in S
  <1> DEFINE left == {g \in folders : Below(g.path, path) /\ g \notin S}
  <1> SUFFICES ASSUME left # {} PROVE FALSE
    OBVIOUS
  <1>1. PICK g \in left : \A h \in left : Above(h) \subseteq Above(g) => Above(h) = Above(g)
    <2> DEFINE F == {Above(h) : h \in left}
    <2>1. F # {} /\ F \subseteq SUBSET folders /\ IsFiniteSet(folders)
      BY DEF Above, IndInv
    <2> HIDE DEF F
    <2>2. PICK x \in F : \A y \in F : y \subseteq x => y = x
      BY <2>1, LeastSet
    <2>3. PICK g \in left : x = Above(g)
      BY DEF F
    <2>4. \A h \in left : Above(h) \in F
      BY DEF F
    <2> HIDE DEF left
    <2> QED
      BY <2>2, <2>3, <2>4
  <1>2. g \in folders /\ g.path \in Path /\ g.id \in FolderId
        /\ g.id # path[Len(path)]
    BY DEF IndInv, TypeOK, FolderRow
  <1>3. path # g.path
    BY <1>2, PathEnds
  <1>4. CASE g.parent = Root /\ g.path = <<g.id>>
    <2>1. Len(path) = 1 /\ path[1] = g.path[1]
      BY <1>4 DEF Below, Path
    <2> QED
      BY <1>2, <1>4, <2>1
  <1>5. ASSUME NEW p \in folders, p.id = g.parent, g.path = Append(p.path, g.id)
        PROVE  FALSE
    <2>1. p.path \in Path
      BY DEF IndInv, TypeOK, FolderRow
    <2>2. Below(p.path, path)
      <3>1. Below(g.path, path) /\ g.path # path
        BY <1>3
      <3>2. Below(Append(p.path, g.id), path) <=>
                Below(p.path, path) \/ path = Append(p.path, g.id)
        BY <1>2, <2>1, BelowAppend
      <3> QED
        BY <1>5, <3>1, <3>2
    <2>3. p \in S
      BY <1>1, <1>2, <1>5, <2>2, ParentIsAbove
    <2>4. g \in Children(p)
      BY <1>2, <1>5 DEF Children
    <2> QED
      BY <2>3, <2>4
  <1> QED
    BY <1>2, <1>4, <1>5 DEF IndInv, PathsFollowParents

\* Once the cascade is finished, nothing below the path is left.
LEMMA NothingIsLeft ==
  ASSUME IndInv, NEW r \in Request, KeepsToPath(requests[r], folders, made),
         Commit(r), NEW f \in folders, Below(f.path, requests[r].path)
  PROVE  f \in requests[r].doomed
  <1> DEFINE q == requests[r]
  <1>1. /\ q.pc = "deleting" /\ q.path \in Path /\ ToSet(q.todo) = {}
        /\ q.path # <<>> /\ q.path[Len(q.path)] = q.folder
        /\ \A g \in folders : g.id = q.folder => g \in q.doomed
        /\ \A g \in q.doomed : Children(g) \subseteq q.doomed
    BY NoRows DEF Commit, Unfinished, KeepsToPath, IndInv, TypeOK, RequestState
  <1> QED
    BY <1>1, SubtreeIsWhole

\* A deletion that commits has deleted the folders below its path, those that
\* were created meanwhile included, and no other.
THEOREM DeletionsAreExact == Spec => DeletesExactlyTheSubtree
  <1>1. ASSUME IndInv, DeletionsKeepToPath, NEW r \in Request, Commit(r)
        PROVE  folders' = {f \in folders : ~Below(f.path, requests[r].path)}
    <2>1. KeepsToPath(requests[r], folders, made)
      BY <1>1, KeepToPath
    <2>2. folders' = folders \ requests[r].doomed
      BY <1>1 DEF Commit
    <2>3. \A f \in requests[r].doomed : Below(f.path, requests[r].path)
      BY <2>1 DEF KeepsToPath
    <2> QED
      BY <1>1, <2>1, <2>2, <2>3, NothingIsLeft
  <1>2. IndInv /\ DeletionsKeepToPath /\ [Next]_vars =>
          [\A r \in Request :
             Commit(r) =>
               folders' = {f \in folders : ~Below(f.path, requests[r].path)}]_vars
    BY <1>1
  <1> QED
    BY <1>2, Invariance, DeletionsKeepTrack, PTL DEF Spec, DeletesExactlyTheSubtree

-----------------------------------------------------------------------------
(* Locks                                                                   *)

\* A transaction comes to hold a row only by deleting one that is free.
LEMMA HeldNext ==
  ASSUME IndInv, Next, NEW s \in Request
  PROVE  \A i \in Ids(requests'[s].doomed) :
             Holds(s, i) \/ (IsFree(i) /\ DeleteRow(s))
  <1>0. requests \in [Request -> RequestState]
    BY DEF IndInv, TypeOK
  <1>1. CASE requests'[s].doomed \subseteq requests[s].doomed
    BY <1>1 DEF Ids, Holds
  <1>2. CASE DeleteRow(s)
    <2> DEFINE h == Head(requests[s].todo)
    <2>1. requests'[s].doomed \subseteq requests[s].doomed \cup {h}
      BY <1>0, <1>2 DEF DeleteRow, Become, RequestState
    <2>2. IsFree(h.id) \/ Holds(s, h.id)
      BY <1>2 DEF DeleteRow
    <2> HIDE DEF h
    <2> QED
      BY <1>2, <2>1, <2>2 DEF Ids, Holds
  <1>3. ASSUME NEW r \in Request, Start(r) \/ Continue(r) \/ Abort(r)
        PROVE  requests'[s].doomed \subseteq requests[s].doomed \/ DeleteRow(s)
    <2>1. \/ UNCHANGED requests
          \/ \E state : Become(r, state) /\ (state.doomed = requests[r].doomed
                                               \/ state.doomed = {})
          \/ DeleteRow(r)
      <3>1. Idle.doomed = {} /\ \A pc, d, p : Call(pc, d, p).doomed = {}
        BY DEF Idle, Call
      <3>2. CASE SelectSubtree(r) \/ Cascade(r)
        <4>1. \A scan : /\ [requests[r] EXCEPT !.pc = "deleting", !.todo = scan].doomed
                               = requests[r].doomed
                        /\ [requests[r] EXCEPT !.todo = scan].doomed
                               = requests[r].doomed
          BY <1>0 DEF RequestState
        <4> QED
          BY <3>2, <4>1 DEF SelectSubtree, Cascade
      <3> QED
        BY <1>3, <3>1, <3>2 DEF Start, CreateRootFolder, ReadParentPath, FindFolder,
           Continue, InsertBelowParent, Commit, Abort
    <2>2. ASSUME r # s
          PROVE  requests'[s] = requests[s]
      BY <1>0, <1>3, <2>2 DEF Become, Start, CreateRootFolder, ReadParentPath,
         FindFolder, Continue, InsertBelowParent, SelectSubtree, DeleteRow, Cascade,
         Commit, Abort
    <2>3. CASE r = s
      BY <1>0, <2>1, <2>3 DEF Become
    <2> QED
      BY <2>2, <2>3
  <1> QED
    BY <1>1, <1>2, <1>3 DEF Next, BreakDeadlock, Circles

\* A row belongs to one open deletion at a time, so that whoever waits for it
\* waits for one other request.
THEOREM LocksAreExclusive == Spec => []LocksExclude
  <1>1. Init => LocksExclude
    BY DEF Init, LocksExclude, Idle, Call, Ids
  <1>2. ASSUME IndInv, LocksExclude, Next
        PROVE  LocksExclude'
    <2> SUFFICES ASSUME NEW r \in Request, NEW q \in Request, r # q,
                        NEW i \in Ids(requests'[r].doomed),
                        i \in Ids(requests'[q].doomed)
                 PROVE  FALSE
      BY DEF LocksExclude, Ids
    <2>1. /\ Holds(r, i) \/ (IsFree(i) /\ DeleteRow(r))
          /\ Holds(q, i) \/ (IsFree(i) /\ DeleteRow(q))
      BY <1>2, HeldNext
    <2>2. ~(Holds(r, i) /\ Holds(q, i))
      BY <1>2 DEF LocksExclude, Holds, Ids
    <2>3. ~(Holds(r, i) /\ IsFree(i)) /\ ~(Holds(q, i) /\ IsFree(i))
      BY DEF IsFree
    <2>4. DeleteRow(r) => requests'[q] = requests[q]
      BY <1>2 DEF DeleteRow, Become, IndInv, TypeOK
    <2> QED
      BY <2>1, <2>2, <2>3, <2>4 DEF Holds, IsFree
  <1>3. IndInv /\ LocksExclude /\ [Next]_vars => LocksExclude'
    BY <1>2 DEF vars, LocksExclude, Ids
  <1> QED
    BY <1>1, <1>3, Invariance, PTL DEF Spec

-----------------------------------------------------------------------------
(* Progress                                                                *)

\* r waits for q: to delete a row, or to insert one below it.
BlockedBy(r, q) ==
  \/ WaitsFor(r, q)
  \/ r # q /\ requests[r].pc = "insert" /\ Holds(q, requests[r].folder)

\* Everyone in the group waits for someone in it.
Knotted(group) ==
  group # {} /\ \A r \in group : \E q \in group : BlockedBy(r, q)

LEMMA WaitersAreBlocked ==
  ASSUME DeletionsKeepToPath, TypeOK, NEW r \in Request,
         requests[r].pc # "idle", ~CanContinue(r)
  PROVE  \E q \in Request : BlockedBy(r, q) /\ requests[q].pc # "idle"
  <1>1. \A q \in Request : requests[q].pc # "deleting" =>
            requests[q].todo = <<>> /\ requests[q].doomed = {}
    BY DEF DeletionsKeepToPath
  <1>2. requests[r].pc \in Pc
    BY DEF TypeOK, RequestState
  <1>3. \A q \in Request : \A i : Holds(q, i) => requests[q].pc = "deleting"
    BY <1>1 DEF Holds, Ids
  <1>4. CASE requests[r].pc = "insert"
    <2>1. PICK q \in Request : Holds(q, requests[r].folder)
      BY <1>4 DEF CanContinue, IsFree
    <2> QED
      BY <1>3, <1>4, <2>1 DEF BlockedBy
  <1>5. CASE requests[r].pc = "deleting"
    <2> DEFINE i == Head(requests[r].todo).id
    <2>1. requests[r].todo # <<>> /\ ~IsFree(i) /\ ~Holds(r, i)
      BY <1>5 DEF CanContinue
    <2>2. PICK q \in Request : Holds(q, i)
      BY <2>1 DEF IsFree
    <2> QED
      BY <1>3, <2>1, <2>2 DEF BlockedBy, WaitsFor
  <1> QED
    BY <1>2, <1>4, <1>5 DEF CanContinue, Pc

\* Those nobody waits for can leave a knot: the least one is a circle.
LEMMA KnotHasCircle ==
  ASSUME DeletionsKeepToPath, NEW group \in SUBSET Request, Knotted(group)
  PROVE  Circles # {}
  <1> DEFINE F == {g \in SUBSET Request : Knotted(g)}
  <1>1. PICK circle \in F : \A g \in F : g \subseteq circle => g = circle
    <2>1. F # {} /\ F \subseteq SUBSET Request
      OBVIOUS
    <2> HIDE DEF F
    <2> QED
      BY <2>1, FinitelyManyRequests, LeastSet
  <1>2. ASSUME NEW q \in circle, \A r \in circle : ~BlockedBy(r, q)
        PROVE  FALSE
    <2>1. \A r \in circle \ {q} : \E p \in circle \ {q} : BlockedBy(r, p)
      BY <1>1, <1>2 DEF Knotted
    <2>2. circle \ {q} # {}
      BY <1>1, <1>2 DEF Knotted
    <2>3. circle \ {q} \in F
      BY <1>1, <2>1, <2>2 DEF Knotted
    <2> QED
      BY <1>1, <1>2, <2>3
  <1>3. ASSUME NEW r \in circle, NEW q \in circle, BlockedBy(r, q)
        PROVE  WaitsFor(r, q)
    <2>1. PICK p \in circle : BlockedBy(p, r)
      BY <1>2
    <2>2. requests[r].doomed # {}
      BY <2>1 DEF BlockedBy, WaitsFor, Holds, Ids
    <2>3. requests[r].pc = "deleting"
      BY <1>1, <2>2 DEF DeletionsKeepToPath
    <2> QED
      BY <1>3, <2>3 DEF BlockedBy
  <1>4. /\ circle \in (SUBSET Request) \ {{}}
        /\ \A r \in circle : \E q \in circle : WaitsFor(r, q)
        /\ \A q \in circle : \E r \in circle : WaitsFor(r, q)
    BY <1>1, <1>2, <1>3 DEF Knotted
  <1> QED
    BY <1>4 DEF Circles

\* Requests wait only for one another, so that they go on unless PostgreSQL
\* has a circle of deletions to break; an INSERT is in no such circle.
THEOREM RequestsAreNeverStuck == Spec => []NobodyIsStuck
  <1>1. ASSUME IndInv, DeletionsKeepToPath, NEW r \in Request,
               requests[r].pc # "idle", \A q \in Request : ~CanContinue(q)
        PROVE  Circles # {}
    <2> DEFINE group == {q \in Request : requests[q].pc # "idle"}
    <2>1. Knotted(group)
      BY <1>1, WaitersAreBlocked DEF IndInv, Knotted
    <2> QED
      BY <1>1, <2>1, KnotHasCircle
  <1>2. IndInv /\ DeletionsKeepToPath => NobodyIsStuck
    BY <1>1 DEF NobodyIsStuck
  <1> QED
    BY <1>2, Invariance, DeletionsKeepTrack, PTL

-----------------------------------------------------------------------------
(* The implementation of the hierarchy                                     *)

LEMMA TreeFacts ==
  ASSUME IndInv
  PROVE  /\ \A f \in folders : [id |-> f.id, parent |-> f.parent] \in Tree
         /\ \A e \in Tree : \E f \in folders :
                e = [id |-> f.id, parent |-> f.parent]
         /\ \A f \in folders : f.id \in FolderId /\ f.path \in Path
  BY DEF Tree, IndInv, TypeOK, FolderRow

\* What lies below the path of a folder is what is inside of it by parents: the
\* two forms of the hierarchy have the same subtrees.
LEMMA BelowIsInside ==
  ASSUME IndInv, NEW d \in FolderId, NEW path \in Path,
         path # <<>>, path[Len(path)] = d,
         \A g \in folders : g.id = d => g.path = path,
         NEW f \in folders
  PROVE  Below(f.path, path) <=> H!Inside(f.id, d)
  <1>1. ASSUME Below(f.path, path), NEW S \in SUBSET FolderId,
               d \in S, H!Whole(S)
        PROVE  f.id \in S
    <2> DEFINE rows == {g \in folders : g.id \in S}
    <2>1. \A g \in folders : g.id = d => g \in rows
      BY <1>1
    <2>2. ASSUME NEW g \in folders \cap rows, NEW c \in Children(g)
          PROVE  c \in rows
      <3>1. c \in folders /\ c.parent \in S
        BY DEF Children
      <3>2. [id |-> c.id, parent |-> c.parent] \in Tree
        BY <3>1, TreeFacts
      <3> QED
        BY <1>1, <3>1, <3>2 DEF H!Whole
    <2> HIDE DEF rows
    <2>3. f \in rows
      BY <1>1, <2>1, <2>2, SubtreeIsWhole
    <2> QED
      BY <2>3 DEF rows
  <1>2. ASSUME H!Inside(f.id, d)
        PROVE  Below(f.path, path)
    <2> DEFINE S == {d} \cup {g.id : g \in {h \in folders : Below(h.path, path)}}
    <2>1. S \in SUBSET FolderId /\ d \in S
      BY TreeFacts
    <2>2. ASSUME NEW g \in folders, g.id \in S
          PROVE  Below(g.path, path)
      <3>1. CASE g.id = d
        BY <3>1, BelowSelf
      <3>2. ASSUME NEW h \in folders, Below(h.path, path), g.id = h.id
            PROVE  Below(g.path, path)
        BY <3>2 DEF IndInv, IdsAreUnique
      <3> QED
        BY <2>2, <3>1, <3>2
    <2>3. ASSUME NEW c \in folders, c.parent \in S
          PROVE  c.id \in S
      <3>1. c.parent # Root
        BY <2>1, <2>3, ConstantsAreDistinct
      <3>2. PICK g \in folders : g.id = c.parent /\ c.path = Append(g.path, c.id)
        BY <3>1 DEF IndInv, PathsFollowParents
      <3>3. Below(g.path, path)
        BY <2>2, <2>3, <3>2
      <3>4. Below(c.path, path)
        BY <3>2, <3>3, TreeFacts, BelowAppend
      <3> QED
        BY <3>4
    <2>4. H!Whole(S)
      BY <2>3, TreeFacts DEF H!Whole
    <2>5. f.id \in S
      BY <1>2, <2>1, <2>4 DEF H!Inside
    <2> QED
      BY <2>2, <2>5
  <1> QED
    BY <1>1, <1>2 DEF H!Inside

LEMMA InsertCreates ==
  ASSUME IndInv, NEW parent \in FolderId \cup {Root}, NEW path,
         Insert(parent, path)
  PROVE  H!Next
  <1>1. PICK i \in FolderId \ made :
          /\ parent \in Ids(folders) \cup {Root}
          /\ folders' = folders \cup
                 {[id |-> i, parent |-> parent, path |-> Append(path, i)]}
          /\ made' = made \cup {i}
    BY DEF Insert
  <1> DEFINE row == [id |-> i, parent |-> parent, path |-> Append(path, i)]
  <1>2. row.id = i /\ row.parent = parent
    OBVIOUS
  <1> HIDE DEF row
  <1>3. folders' = folders \cup {row}
    BY <1>1 DEF row
  <1>4. Tree' = Tree \cup {[id |-> i, parent |-> parent]}
    <2>1. Tree' = {[id |-> f.id, parent |-> f.parent] : f \in folders \cup {row}}
      BY <1>3 DEF Tree
    <2> QED
      BY <1>2, <2>1 DEF Tree
  <1>5. parent = Root \/ \E e \in Tree : e.id = parent
    <2>1. ASSUME NEW f \in folders, f.id = parent
          PROVE  \E e \in Tree : e.id = parent
      BY <2>1, TreeFacts
    <2> QED
      BY <1>1, <2>1 DEF Ids
  <1>6. H!Create(i, parent)
    BY <1>1, <1>4, <1>5 DEF H!Create
  <1> QED
    BY <1>6 DEF H!Next

LEMMA CommitDeletes ==
  ASSUME IndInv, NEW r \in Request, KeepsToPath(requests[r], folders, made),
         Commit(r)
  PROVE  H!Next
  <1> DEFINE q == requests[r]
  <1>1. /\ q.pc = "deleting" /\ q.path \in Path /\ q.path # <<>>
        /\ q.path[Len(q.path)] = q.folder
        /\ \A g \in folders : g.id = q.folder => g.path = q.path
        /\ q.folder \in made
    BY DEF Commit, KeepsToPath, IndInv, TypeOK, RequestState
  <1>2. q.folder \in FolderId
    BY <1>1 DEF IndInv, TypeOK
  <1>3. folders' = folders \ q.doomed /\ made' = made
    BY DEF Commit
  <1>4. \A f \in q.doomed : Below(f.path, q.path)
    BY DEF KeepsToPath
  <1>5. \A f \in folders : f \in folders' <=> ~Below(f.path, q.path)
    BY <1>3, <1>4, NothingIsLeft
  <1>6. \A f \in folders : f \in folders' <=> ~H!Inside(f.id, q.folder)
    BY <1>1, <1>2, <1>5, BelowIsInside
  <1> HIDE DEF q
  <1>7. Tree' = {e \in Tree : ~H!Inside(e.id, q.folder)}
    <2>1. \A e \in Tree' : e \in Tree /\ ~H!Inside(e.id, q.folder)
      BY <1>3, <1>6 DEF Tree
    <2>2. \A e \in Tree : ~H!Inside(e.id, q.folder) => e \in Tree'
      BY <1>6 DEF Tree
    <2> QED
      BY <2>1, <2>2
  <1>8. H!Delete(q.folder)
    BY <1>3, <1>7 DEF H!Delete
  <1> QED
    BY <1>2, <1>8 DEF H!Next

LEMMA StepIsHierarchyStep ==
  ASSUME IndInv, DeletionsKeepToPath, [Next]_vars
  PROVE  [H!Next]_(H!vars)
  <1>1. CASE UNCHANGED <<folders, made>>
    BY <1>1 DEF H!vars, Tree
  <1>2. ASSUME NEW r \in Request, CreateRootFolder(r)
        PROVE  H!Next
    BY <1>2, InsertCreates DEF CreateRootFolder
  <1>3. ASSUME NEW r \in Request, InsertBelowParent(r),
               ~UNCHANGED <<folders, made>>
        PROVE  H!Next
    <2>1. requests[r].folder \in FolderId
      BY <1>3, ConstantsAreDistinct
      DEF InsertBelowParent, IndInv, TypeOK, RememberedPathIsCurrent
    <2> QED
      BY <1>3, <2>1, InsertCreates DEF InsertBelowParent
  <1>4. ASSUME NEW r \in Request, Commit(r)
        PROVE  H!Next
    BY <1>4, KeepToPath, CommitDeletes
  <1>5. ASSUME NEW r \in Request, Start(r) \/ Continue(r) \/ Abort(r),
               ~CreateRootFolder(r), ~InsertBelowParent(r), ~Commit(r)
        PROVE  UNCHANGED <<folders, made>>
    BY <1>5 DEF Start, ReadParentPath, FindFolder, Continue, SelectSubtree,
                DeleteRow, Cascade, Abort
  <1>6. CASE BreakDeadlock
    BY <1>1, <1>6 DEF BreakDeadlock, Circles, Abort
  <1>7. CASE UNCHANGED vars
    BY <1>1, <1>7 DEF vars
  <1> QED
    BY <1>1, <1>2, <1>3, <1>4, <1>5, <1>6, <1>7 DEF Next

\* Creations and deletions of folders, however their statements interleave and
\* wait for one another, are seen as if each took place at once: CreateFolder
\* in a folder that is there, DeleteFolder with everything inside.
THEOREM Implementation == Spec => ImplementsHierarchy
  <1>1. Init => H!Init
    BY DEF Init, H!Init, Tree
  <1>2. IndInv /\ DeletionsKeepToPath /\ [Next]_vars => [H!Next]_(H!vars)
    BY StepIsHierarchyStep
  <1> QED
    BY <1>1, <1>2, Invariance, DeletionsKeepTrack, PTL
    DEF Spec, ImplementsHierarchy, H!Spec
=============================================================================
