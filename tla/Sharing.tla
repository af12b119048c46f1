------------------------------ MODULE Sharing ------------------------------
(***************************************************************************)
(* Shares of files and folders in files-backend (share.resolvers.go), and  *)
(* the queries that rely on them (GetFile, GetDownloadURL, GetFilesInFolder*)
(* GetFoldersInFolder, GetFolderDetails).  An owner shares an item with a  *)
(* user or publishes it under a token; a share of a folder covers all that *)
(* is below it; deleting an item deletes its shares (ON DELETE CASCADE).   *)
(*                                                                         *)
(* Every resolver is two or more statements, none in a transaction: a      *)
(* writer checks ownership and then writes, a reader finds a row, checks   *)
(* access, and then answers.  A step is one statement.                     *)
(*                                                                         *)
(* Left out: e-mail addresses (users are neither deleted nor renamed),     *)
(* download counts, and what an answer contains.  The items exist at the   *)
(* start (FolderTree and ContentStore model how they come to be).          *)
(***************************************************************************)
EXTENDS FiniteSets

CONSTANTS
    File, Folder,  \* the items
    Within,        \* Within[d]: the folders whose path is at or below that of d
    Home,          \* Home[f]: the folder of a file, or Root
    User,
    OwnerOf,       \* the owner of each item; it never changes
    Token,         \* public tokens
    ShareId,       \* ids of rows of shares; bounds how many exist at a time
    Request,       \* the requests that run at the same time
    Root,          \* a NULL folder_id
    Nobody,        \* the user of a request without a valid session
    None           \* an argument that a request does not have

Item == File \cup Folder

ASSUME ItemsAssumption ==
    /\ File \cap Folder = {}
    /\ Within \in [Folder -> SUBSET Folder]
    /\ \A d \in Folder : d \in Within[d]
    /\ \A d \in Folder : \A e \in Within[d] : Within[e] \subseteq Within[d]
    /\ Home \in [File -> Folder \cup {Root}] /\ Root \notin Folder
    /\ OwnerOf \in [Item -> User]

ASSUME GranteesAssumption ==
    /\ User \cap Token = {}
    /\ Nobody \notin User \cup Token /\ None \notin User \cup Token \cup Item

VARIABLES
    items,       \* the rows of files and folders
    shares,      \* the rows of shares
    issued,      \* history variable: the tokens that were ever generated
    requests,    \* what each running request has reached and remembers
    wasAllowed   \* history variable: whether the item of a reader was within
                 \* its reach at some moment since its request began

store == <<items, shares, issued>>
vars == <<store, requests, wasAllowed>>

-----------------------------------------------------------------------------
ShareRow == [id : ShareId, item : Item, owner : User, with : User \cup Token]

Writing == {"share", "unshare", "publish", "revoke"}
Reading == {"resolved", "found", "permitted"}

\* with: whom a writer shares with, or the token that a reader presents.
RequestState ==
    [pc : {"idle"} \cup Writing \cup Reading, user : User \cup {Nobody},
     item : Item \cup {None}, with : User \cup Token \cup {None}]

Call(pc, user, item, with) ==
    [pc |-> pc, user |-> user, item |-> item, with |-> with]
Idle == Call("idle", Nobody, None, None)

Become(r, state) == requests' = [requests EXCEPT ![r] = state]

\* What a share of the item i covers.
Covered(i) ==
    IF i \in Folder
    THEN Within[i] \cup {f \in File : Home[f] \in Within[i]}
    ELSE {i}

Init ==
    /\ items = Item
    /\ shares = {}
    /\ issued = {}
    /\ requests = [r \in Request |-> Idle]
    /\ wasAllowed = [r \in Request |-> FALSE]

-----------------------------------------------------------------------------
(* Writers: CheckFileOwnership or CheckFolderOwnership, then one statement. *)

\* Mutant: the item and the other user change places.
CheckOwnershipSwapped(r, u, i, pc, with) ==
    /\ requests[r] = Idle
    /\ i \in items /\ OwnerOf[i] = u
    /\ Become(r, Call(pc, u, with, i))
    /\ UNCHANGED store

CheckOwnership(r, u, i, pc, with) ==
    /\ requests[r] = Idle
    /\ i \in items /\ OwnerOf[i] = u
    /\ Become(r, Call(pc, u, i, with))
    /\ UNCHANGED store

ShareFileWithUser(r, u) ==
    \E f \in File, v \in User : CheckOwnership(r, u, f, "share", v)
UnshareFileWithUser(r, u) ==
    \E f \in File, v \in User : CheckOwnership(r, u, f, "unshare", v)
ShareFolderWithUser(r, u) ==
    \E d \in Folder, v \in User : CheckOwnership(r, u, d, "share", v)
UnshareFolderWithUser(r, u) ==
    \E d \in Folder, v \in User : CheckOwnership(r, u, d, "unshare", v)
ShareFilePublic(r, u) ==
    \E f \in File : CheckOwnership(r, u, f, "publish", None)
ShareFolderPublic(r, u) ==
    \E d \in Folder : CheckOwnership(r, u, d, "publish", None)

\* Mutant: file_id and folder_id are not foreign keys.
InsertDangling(i, u, with) ==
    \E k \in ShareId :
        /\ \A s \in shares : s.id # k
        /\ shares' = shares \cup
               {[id |-> k, item |-> i, owner |-> u, with |-> with]}

\* INSERT INTO shares: the item must still be there (a foreign key), and waits
\* for a deletion of it to end.  Nothing makes (item, with) unique.
InsertShare(i, u, with) ==
    \E k \in ShareId :
        /\ \A s \in shares : s.id # k
        /\ i \in items
        /\ shares' = shares \cup
               {[id |-> k, item |-> i, owner |-> u, with |-> with]}

InsertUserShare(r) ==
    LET q == requests[r]
    IN  /\ q.pc = "share"
        /\ InsertShare(q.item, q.user, q.with) \/ UNCHANGED shares
        /\ Become(r, Idle)
        /\ UNCHANGED <<items, issued>>

\* The token is random, hence new.
InsertPublicShare(r) ==
    LET q == requests[r]
    IN  /\ q.pc = "publish"
        /\ \/ \E t \in Token \ issued :
                  /\ InsertShare(q.item, q.user, t) \/ UNCHANGED shares
                  /\ issued' = issued \cup {t}
           \/ UNCHANGED <<shares, issued>>
        /\ Become(r, Idle)
        /\ UNCHANGED items

\* Mutant: only the row that a SELECT ... LIMIT 1 found is deleted.
RevokeOneUserShare(r) ==
    LET q == requests[r]
        matching == {s \in shares : s.owner = q.user /\ s.item = q.item
                                        /\ s.with = q.with}
    IN  /\ q.pc = "unshare"
        /\ \/ \E s \in matching : shares' = shares \ {s}
           \/ matching = {} /\ UNCHANGED shares
        /\ Become(r, Idle)
        /\ UNCHANGED <<items, issued>>

\* The one parameter $2 is compared with file_id and with folder_id.
RevokeUserShare(r) ==
    LET q == requests[r]
    IN  /\ q.pc = "unshare"
        /\ shares' = {s \in shares : ~(s.owner = q.user /\ s.item = q.item
                                           /\ s.with = q.with)}
        /\ Become(r, Idle)
        /\ UNCHANGED <<items, issued>>

CheckUserOwnsShare(r, u, t) ==
    /\ requests[r] = Idle
    /\ \E s \in shares : s.with = t /\ s.owner = u
    /\ Become(r, Call("revoke", u, None, t))
    /\ UNCHANGED store

RevokePublicShare(r) ==
    LET q == requests[r]
    IN  /\ q.pc = "revoke"
        /\ shares' = {s \in shares : ~(s.owner = q.user /\ s.with = q.with)}
        /\ Become(r, Idle)
        /\ UNCHANGED <<items, issued>>

-----------------------------------------------------------------------------
(* DeleteFile and DeleteFolder, at the moment their deletion commits.       *)

DeleteItem(i) ==
    /\ i \in items
    /\ items' = items \ Covered(i)
    /\ shares' = {s \in shares : s.item \notin Covered(i)}
    /\ UNCHANGED <<issued, requests>>

-----------------------------------------------------------------------------
(* Readers *)

\* Mutant: the row comes from a cache that deletions do not reach.
FindCachedItem(r, u, t, i) ==
    /\ requests[r] = Idle
    /\ Become(r, Call("found", u, i, t))
    /\ UNCHANGED store

\* GetFileById, GetFileForDownload, GetFolderByID
FindItem(r, u, t, i) ==
    /\ requests[r] = Idle
    /\ i \in items
    /\ Become(r, Call("found", u, i, t))
    /\ UNCHANGED store

\* The folder that a token was issued for.
GetFolderIdByPublicToken(r, u, t) ==
    /\ requests[r] = Idle
    /\ \E s \in shares : /\ s.with = t /\ s.item \in Folder
                         /\ Become(r, Call("resolved", u, s.item, t))
    /\ UNCHANGED store

FindResolvedFolder(r) ==
    LET q == requests[r]
    IN  /\ q.pc = "resolved"
        /\ IF q.item \in items
           THEN Become(r, [q EXCEPT !.pc = "found"])
           ELSE Become(r, Idle)
        /\ UNCHANGED store

GetFile(r, u, t) == \E f \in File : FindItem(r, u, t, f)

GetDownloadURL(r, u, t) ==
    /\ u # Nobody \/ t # None
    /\ \E f \in File : FindItem(r, u, t, f)

GetFolderDetails(r, u, t) ==
    /\ u # Nobody \/ t # None
    /\ \E d \in Folder : FindItem(r, u, t, d)

GetFilesInFolder(r, u, t) ==
    \/ /\ u # Nobody \/ t # None
       /\ \E d \in Folder : FindItem(r, u, t, d)
    \/ t # None /\ GetFolderIdByPublicToken(r, u, t)

GetFoldersInFolder(r, u, t) == GetFilesInFolder(r, u, t)

\* Mutant: the operands of <@ change places.
CanAccessAbove(i, u, t) ==
    \E s \in shares :
        /\ s.with \in {u, t}
        /\ \/ s.item = i
           \/ /\ s.item \in Folder /\ i \in items \cap Folder
              /\ s.item \in Within[i]

\* CanAccessFile, CanAccessFolder: a share with the user or under the token,
\* of the item itself or of a folder above it.
CanAccess(i, u, t) ==
    \E s \in shares :
        /\ s.with \in {u, t}
        /\ \/ s.item = i
           \/ /\ s.item \in Folder /\ i \in items
              /\ IF i \in File THEN Home[i] \in Within[s.item]
                               ELSE i \in Within[s.item]

CheckAccess(r) ==
    LET q == requests[r]
    IN  /\ q.pc = "found"
        /\ IF OwnerOf[q.item] = q.user \/ CanAccess(q.item, q.user, q.with)
           THEN Become(r, [q EXCEPT !.pc = "permitted"])
           ELSE Become(r, Idle)
        /\ UNCHANGED store

\* The row that was found, a URL signed for it, or the folder's contents.
Answer(r) ==
    /\ requests[r].pc = "permitted"
    /\ Become(r, Idle)
    /\ UNCHANGED store

-----------------------------------------------------------------------------
\* An error or a cancelled context: what was done stays done.
Abort(r) ==
    /\ requests[r] # Idle
    /\ Become(r, Idle)
    /\ UNCHANGED store

StartWriter(r, u) ==
    \/ ShareFileWithUser(r, u) \/ UnshareFileWithUser(r, u)
    \/ ShareFolderWithUser(r, u) \/ UnshareFolderWithUser(r, u)
    \/ ShareFilePublic(r, u) \/ ShareFolderPublic(r, u)
    \/ \E t \in Token : CheckUserOwnsShare(r, u, t)

Write(r) ==
    \/ \E u \in User : StartWriter(r, u)
    \/ InsertUserShare(r)
    \/ InsertPublicShare(r)
    \/ RevokeUserShare(r)
    \/ RevokePublicShare(r)

StartReader(r, u, t) ==
    \/ GetFile(r, u, t)
    \/ GetDownloadURL(r, u, t)
    \/ GetFolderDetails(r, u, t)
    \/ GetFilesInFolder(r, u, t)
    \/ GetFoldersInFolder(r, u, t)

Read(r) ==
    \/ \E u \in User \cup {Nobody}, t \in Token \cup {None} :
           StartReader(r, u, t)
    \/ FindResolvedFolder(r)
    \/ CheckAccess(r)
    \/ Answer(r)

\* Whether the item of a reader is within its reach now.
IsAllowed(r) ==
    LET q == requests[r]
    IN  /\ q.item \in items
        /\ \/ OwnerOf[q.item] = q.user
           \/ \E s \in shares : s.with \in {q.user, q.with}
                                    /\ q.item \in Covered(s.item)

Observe ==
    wasAllowed' =
        [r \in Request |->
            /\ requests'[r].pc \in Reading
            /\ \/ requests[r].pc \in Reading /\ wasAllowed[r]
               \/ IsAllowed(r)']

Next ==
    /\ \/ \E r \in Request : Write(r) \/ Read(r) \/ Abort(r)
       \/ \E i \in Item : DeleteItem(i)
    /\ Observe

Spec == Init /\ [][Next]_vars

-----------------------------------------------------------------------------
(* Properties *)

\* Rows, and the arguments of requests between two statements, have their types.
TypeOK ==
    /\ items \subseteq Item
    /\ shares \subseteq ShareRow
    /\ issued \subseteq Token
    /\ requests \in [Request -> RequestState]
    /\ wasAllowed \in [Request -> BOOLEAN]

\* Every share is of an item that exists and belongs to the one who shared it,
\* though ownership was checked in an earlier statement than the INSERT and the
\* item may have been deleted in between.
SharesResolve ==
    \A s \in shares : s.item \in items /\ OwnerOf[s.item] = s.owner

\* A reader that is let through could reach the item at some moment since its
\* request began: no answer rests on a share that was revoked, or on an item
\* that was deleted, before the request.
AnswersWereAllowed ==
    \A r \in Request : requests[r].pc = "permitted" => wasAllowed[r]

\* A request that shares or unshares owns the item, and a reader holds an item
\* that it has found, or that its token led to.
ArgumentsOK ==
    \A r \in Request :
        LET q == requests[r]
        IN  /\ q.pc \in {"share", "unshare", "publish"} =>
                   q.item \in Item /\ OwnerOf[q.item] = q.user
            /\ q.pc = "share" => q.with \in User
            /\ q.pc \in Reading => q.item \in Item

\* What an owner has found was within reach then, whatever became of it.
OwnersWereAllowed ==
    \A r \in Request :
        LET q == requests[r]
        IN  q.pc \in {"found", "permitted"} /\ OwnerOf[q.item] = q.user
                => wasAllowed[r]

\* The safety properties, with what makes them inductive.
IndInv == /\ TypeOK
          /\ ArgumentsOK
          /\ SharesResolve
          /\ OwnersWereAllowed
          /\ AnswersWereAllowed

\* One unshare undoes all shares of the item with the user, those that were
\* retried or given twice included, for files and folders alike.
UnshareIsComplete ==
    [][\A r \in Request :
           RevokeUserShare(r) =>
               \A s \in shares' : ~(s.item = requests[r].item
                                        /\ s.with = requests[r].with)]_vars
=============================================================================
