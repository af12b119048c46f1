---------------------------- MODULE SharingProofs ----------------------------
(***************************************************************************)
(* Proofs about Sharing, for every hierarchy of items and every number of  *)
(* users, tokens, rows and requests.                                       *)
(***************************************************************************)
EXTENDS Sharing, TLAPS

-----------------------------------------------------------------------------
(* What every step does. *)

\* Giving a request a well-typed state changes that request only.
LEMMA BecomeEffect ==
  ASSUME TypeOK, NEW r \in Request, NEW state \in RequestState,
         Become(r, state)
  PROVE  /\ requests' \in [Request -> RequestState]
         /\ requests'[r] = state
         /\ \A x \in Request \ {r} : requests'[x] = requests[x]
  BY DEF Become, TypeOK

LEMMA CallType ==
  ASSUME NEW pc \in {"idle"} \cup Writing \cup Reading,
         NEW u \in User \cup {Nobody}, NEW i \in Item \cup {None},
         NEW g \in User \cup Token \cup {None}
  PROVE  /\ Call(pc, u, i, g) \in RequestState
         /\ Call(pc, u, i, g).pc = pc
         /\ Call(pc, u, i, g).user = u
         /\ Call(pc, u, i, g).item = i
         /\ Call(pc, u, i, g).with = g
  BY DEF Call, RequestState

LEMMA IdleType == Idle \in RequestState /\ Idle.pc = "idle"
  BY CallType DEF Idle, Writing, Reading

\* The INSERT adds at most a row for the item, which is there.
LEMMA InsertEffect ==
  ASSUME TypeOK, NEW i \in Item, NEW u \in User, NEW g \in User \cup Token,
         InsertShare(i, u, g)
  PROVE  /\ shares' \subseteq ShareRow
         /\ i \in items
         /\ \A s \in shares' :
                s \in shares \/ (s.item = i /\ s.owner = u)
  BY DEF TypeOK, InsertShare, ShareRow

\* The owner of an item is a user, and no one else is.
LEMMA OwnerType ==
  ASSUME NEW i \in Item
  PROVE  OwnerOf[i] \in User
  BY ItemsAssumption

\* The items and the shares change in one of three ways.
StoreStep ==
    \/ UNCHANGED <<items, shares>>
    \/ /\ UNCHANGED items
       /\ shares' \subseteq ShareRow
       /\ \A s \in shares' :
              s \in shares \/ (s.item \in items /\ OwnerOf[s.item] = s.owner)
    \/ \E i \in Item : /\ items' = items \ Covered(i)
                       /\ shares' = {s \in shares : s.item \notin Covered(i)}

\* A request moves to a state that its checks justify.
Justified(r, q) ==
    \/ q.pc \in {"idle", "revoke"}
    \/ /\ q.pc \in {"share", "unshare", "publish"}
       /\ q.item \in Item /\ OwnerOf[q.item] = q.user
       /\ q.pc = "share" => q.with \in User
    \/ q.pc = "resolved" /\ q.item \in Item
    \/ q.pc = "found" /\ q.item \in items \cap Item /\ UNCHANGED items
    \/ /\ q.pc = "permitted"
       /\ requests[r].pc = "found"
       /\ q = [requests[r] EXCEPT !.pc = "permitted"]
       /\ UNCHANGED <<items, shares>>
       /\ OwnerOf[q.item] = q.user \/ CanAccess(q.item, q.user, q.with)

Moves(r) == \E q \in RequestState : Become(r, q) /\ Justified(r, q)

LEMMA IdleMoves ==
  ASSUME NEW r \in Request, Become(r, Idle)
  PROVE  Moves(r)
  BY IdleType DEF Moves, Justified

LEMMA CheckMoves ==
  ASSUME NEW r \in Request, NEW u \in User, NEW i \in Item,
         NEW pc \in {"share", "unshare", "publish"},
         NEW g \in User \cup {None}, pc = "share" => g \in User,
         CheckOwnership(r, u, i, pc, g)
  PROVE  Moves(r) /\ UNCHANGED store
<1>1. /\ Call(pc, u, i, g) \in RequestState
      /\ Call(pc, u, i, g).pc = pc
      /\ Call(pc, u, i, g).user = u
      /\ Call(pc, u, i, g).item = i
      /\ Call(pc, u, i, g).with = g
  BY CallType DEF Writing
<1>. QED
  BY <1>1 DEF CheckOwnership, Moves, Justified

LEMMA WriteStep ==
  ASSUME IndInv, NEW r \in Request, Write(r)
  PROVE  Moves(r) /\ StoreStep /\ issued' \subseteq Token
<1>. requests[r] \in RequestState
  BY DEF IndInv, TypeOK
<1>1. ASSUME NEW u \in User, StartWriter(r, u)
      PROVE  Moves(r) /\ UNCHANGED store
  <2>1. ASSUME NEW t \in Token, CheckUserOwnsShare(r, u, t)
        PROVE  Moves(r) /\ UNCHANGED store
    BY <2>1, CallType DEF CheckUserOwnsShare, Moves, Justified, Writing
  <2>. QED
    BY <1>1, <2>1, CheckMoves
    DEF StartWriter, ShareFileWithUser, UnshareFileWithUser,
        ShareFolderWithUser, UnshareFolderWithUser, ShareFilePublic,
        ShareFolderPublic, Item
<1>2. CASE InsertUserShare(r)
  <2>. DEFINE q == requests[r]
  <2>1. /\ q.item \in Item /\ OwnerOf[q.item] = q.user /\ q.with \in User
        /\ q.user \in User
    BY <1>2, OwnerType DEF InsertUserShare, IndInv, ArgumentsOK
  <2>2. Moves(r)
    BY <1>2, IdleMoves DEF InsertUserShare
  <2>3. CASE InsertShare(q.item, q.user, q.with)
    BY <1>2, <2>1, <2>2, <2>3, InsertEffect
    DEF InsertUserShare, StoreStep, IndInv, TypeOK
  <2>4. CASE UNCHANGED shares
    BY <1>2, <2>2, <2>4 DEF InsertUserShare, StoreStep, IndInv, TypeOK
  <2>. QED
    BY <1>2, <2>3, <2>4 DEF InsertUserShare
<1>3. CASE InsertPublicShare(r)
  <2>. DEFINE q == requests[r]
  <2>1. /\ q.item \in Item /\ OwnerOf[q.item] = q.user
        /\ q.user \in User
    BY <1>3, OwnerType DEF InsertPublicShare, IndInv, ArgumentsOK
  <2>2. Moves(r)
    BY <1>3, IdleMoves DEF InsertPublicShare
  <2>3. ASSUME NEW t \in Token, InsertShare(q.item, q.user, t),
               issued' = issued \cup {t}
        PROVE  StoreStep /\ issued' \subseteq Token
    BY <1>3, <2>1, <2>3, InsertEffect
    DEF InsertPublicShare, StoreStep, IndInv, TypeOK
  <2>4. ASSUME UNCHANGED shares,
               \/ UNCHANGED issued
               \/ \E t \in Token : issued' = issued \cup {t}
        PROVE  StoreStep /\ issued' \subseteq Token
    BY <1>3, <2>4 DEF InsertPublicShare, StoreStep, IndInv, TypeOK
  <2>. QED
    BY <1>3, <2>2, <2>3, <2>4 DEF InsertPublicShare
<1>4. CASE RevokeUserShare(r)
  BY <1>4, IdleMoves DEF RevokeUserShare, StoreStep, IndInv, TypeOK,
                         SharesResolve
<1>5. CASE RevokePublicShare(r)
  BY <1>5, IdleMoves DEF RevokePublicShare, StoreStep, IndInv, TypeOK,
                         SharesResolve
<1>6. ASSUME UNCHANGED store
      PROVE  StoreStep /\ issued' \subseteq Token
  BY <1>6 DEF store, StoreStep, IndInv, TypeOK
<1>. QED
  BY <1>1, <1>2, <1>3, <1>4, <1>5, <1>6 DEF Write

LEMMA ReadStep ==
  ASSUME IndInv, NEW r \in Request, Read(r) \/ Abort(r)
  PROVE  Moves(r) /\ UNCHANGED store
<1>. DEFINE q == requests[r]
<1>. q \in RequestState
  BY DEF IndInv, TypeOK
<1>1. ASSUME NEW u \in User \cup {Nobody}, NEW t \in Token \cup {None},
             NEW i \in Item, FindItem(r, u, t, i)
      PROVE  Moves(r) /\ UNCHANGED store
  <2>1. /\ Call("found", u, i, t) \in RequestState
        /\ Call("found", u, i, t).pc = "found"
        /\ Call("found", u, i, t).item = i
    BY CallType DEF Reading
  <2>2. Become(r, Call("found", u, i, t)) /\ UNCHANGED store /\ i \in items
    BY <1>1 DEF FindItem
  <2>3. Justified(r, Call("found", u, i, t))
    BY <2>1, <2>2 DEF Justified, store
  <2>. QED
    BY <2>1, <2>2, <2>3 DEF Moves
<1>2. ASSUME NEW u \in User \cup {Nobody}, NEW t \in Token,
             GetFolderIdByPublicToken(r, u, t)
      PROVE  Moves(r) /\ UNCHANGED store
  <2>1. PICK s \in shares : Become(r, Call("resolved", u, s.item, t))
    BY <1>2 DEF GetFolderIdByPublicToken
  <2>2. s.item \in Item
    BY DEF IndInv, TypeOK, ShareRow
  <2>3. Call("resolved", u, s.item, t) \in RequestState
        /\ Call("resolved", u, s.item, t).pc = "resolved"
        /\ Call("resolved", u, s.item, t).item = s.item
    BY <2>2, CallType DEF Reading
  <2>. QED
    BY <1>2, <2>1, <2>2, <2>3 DEF GetFolderIdByPublicToken, Moves, Justified
<1>3. ASSUME NEW u \in User \cup {Nobody}, NEW t \in Token \cup {None},
             StartReader(r, u, t)
      PROVE  Moves(r) /\ UNCHANGED store
  BY <1>1, <1>2, <1>3
  DEF StartReader, GetFile, GetDownloadURL, GetFolderDetails,
      GetFilesInFolder, GetFoldersInFolder, Item
<1>4. CASE FindResolvedFolder(r)
  <2>1. CASE q.item \in items
    <3>1. Become(r, [q EXCEPT !.pc = "found"]) /\ UNCHANGED store
      BY <1>4, <2>1 DEF FindResolvedFolder
    <3>2. q.item \in Item
      BY <1>4 DEF FindResolvedFolder, IndInv, ArgumentsOK, Reading
    <3>3. [q EXCEPT !.pc = "found"] \in RequestState
      BY DEF RequestState, Reading
    <3>. QED
      BY <2>1, <3>1, <3>2, <3>3 DEF Moves, Justified, RequestState, store
  <2>2. CASE q.item \notin items
    BY <1>4, <2>2, IdleMoves DEF FindResolvedFolder
  <2>. QED
    BY <2>1, <2>2
<1>5. CASE CheckAccess(r)
  <2>1. CASE OwnerOf[q.item] = q.user \/ CanAccess(q.item, q.user, q.with)
    <3>1. Become(r, [q EXCEPT !.pc = "permitted"]) /\ UNCHANGED store
      BY <1>5, <2>1 DEF CheckAccess
    <3>2. [q EXCEPT !.pc = "permitted"] \in RequestState
      BY DEF RequestState, Reading
    <3>3. /\ [q EXCEPT !.pc = "permitted"].pc = "permitted"
          /\ [q EXCEPT !.pc = "permitted"].item = q.item
          /\ [q EXCEPT !.pc = "permitted"].user = q.user
          /\ [q EXCEPT !.pc = "permitted"].with = q.with
      BY DEF RequestState
    <3>4. Justified(r, [q EXCEPT !.pc = "permitted"])
      BY <1>5, <2>1, <3>1, <3>3 DEF CheckAccess, Justified, store
    <3>. QED
      BY <3>1, <3>2, <3>4 DEF Moves
  <2>2. CASE ~(OwnerOf[q.item] = q.user \/ CanAccess(q.item, q.user, q.with))
    BY <1>5, <2>2, IdleMoves DEF CheckAccess
  <2>. QED
    BY <2>1, <2>2
<1>6. CASE Answer(r)
  BY <1>6, IdleMoves DEF Answer
<1>7. CASE Abort(r)
  BY <1>7, IdleMoves DEF Abort
<1>. QED
  BY <1>3, <1>4, <1>5, <1>6, <1>7 DEF Read

\* The moves of requests and the changes of the tables, in every step.
LEMMA Steps ==
  ASSUME IndInv, Next
  PROVE  /\ StoreStep
         /\ issued' \subseteq Token
         /\ (\E r \in Request : Moves(r)) \/ UNCHANGED requests
<1>1. ASSUME NEW r \in Request, Write(r)
      PROVE  Moves(r) /\ StoreStep /\ issued' \subseteq Token
  BY <1>1, WriteStep
<1>2. ASSUME NEW r \in Request, Read(r) \/ Abort(r)
      PROVE  Moves(r) /\ StoreStep /\ issued' \subseteq Token
  BY <1>2, ReadStep DEF StoreStep, store, IndInv, TypeOK
<1>3. ASSUME NEW i \in Item, DeleteItem(i)
      PROVE  /\ UNCHANGED requests
             /\ StoreStep
             /\ issued' \subseteq Token
  BY <1>3 DEF DeleteItem, StoreStep, IndInv, TypeOK
<1>. QED
  BY <1>1, <1>2, <1>3 DEF Next

-----------------------------------------------------------------------------
(* The inductive invariant. *)

LEMMA TypeNext ==
  ASSUME IndInv, Next
  PROVE  TypeOK'
<1>1. items' \subseteq Item /\ shares' \subseteq ShareRow
  BY Steps DEF StoreStep, IndInv, TypeOK
<1>2. requests' \in [Request -> RequestState]
  BY Steps, BecomeEffect DEF Moves, IndInv, TypeOK
<1>3. wasAllowed' \in [Request -> BOOLEAN]
  BY DEF Next, Observe
<1>. QED
  BY Steps, <1>1, <1>2, <1>3 DEF TypeOK

\* How one request has moved in a step.
LEMMA Moved ==
  ASSUME IndInv, Next, NEW x \in Request
  PROVE  requests'[x] = requests[x] \/ Justified(x, requests'[x])
<1>1. ASSUME NEW r \in Request, Moves(r)
      PROVE  requests'[x] = requests[x] \/ Justified(x, requests'[x])
  BY <1>1, BecomeEffect DEF Moves, IndInv
<1>. QED
  BY <1>1, Steps

LEMMA ArgumentsNext ==
  ASSUME IndInv, Next
  PROVE  ArgumentsOK'
<1>. SUFFICES ASSUME NEW x \in Request
              PROVE  LET q == requests'[x]
                     IN  /\ q.pc \in {"share", "unshare", "publish"} =>
                                q.item \in Item /\ OwnerOf[q.item] = q.user
                         /\ q.pc = "share" => q.with \in User
                         /\ q.pc \in Reading => q.item \in Item
  BY DEF ArgumentsOK
<1>1. CASE requests'[x] = requests[x]
  BY <1>1 DEF IndInv, ArgumentsOK
<1>2. CASE Justified(x, requests'[x])
  <2>1. requests[x] \in RequestState
    BY DEF IndInv, TypeOK
  <2>2. requests[x].pc = "found" => requests[x].item \in Item
    BY DEF IndInv, ArgumentsOK, Reading
  <2>. QED
    BY <1>2, <2>1, <2>2 DEF Justified, Reading, RequestState
<1>. QED
  BY <1>1, <1>2, Moved

LEMMA ResolveNext ==
  ASSUME IndInv, Next
  PROVE  SharesResolve'
  BY Steps DEF StoreStep, SharesResolve, IndInv

\* History: what was allowed stays so while the reader goes on.
LEMMA Remembered ==
  ASSUME Next, NEW x \in Request,
         requests[x].pc \in Reading, requests'[x].pc \in Reading,
         wasAllowed[x]
  PROVE  wasAllowed'[x]
  BY DEF Next, Observe

LEMMA Observed ==
  ASSUME Next, NEW x \in Request,
         requests'[x].pc \in Reading, IsAllowed(x)'
  PROVE  wasAllowed'[x]
  BY DEF Next, Observe

\* A check that succeeds on the shares finds the item within reach.
LEMMA CheckIsSound ==
  ASSUME IndInv, NEW i \in Item, NEW u, NEW t, CanAccess(i, u, t)
  PROVE  /\ i \in items
         /\ \E s \in shares : s.with \in {u, t} /\ i \in Covered(s.item)
<1>1. PICK s \in shares :
         /\ s.with \in {u, t}
         /\ \/ s.item = i
            \/ /\ s.item \in Folder /\ i \in items
               /\ IF i \in File THEN Home[i] \in Within[s.item]
                                ELSE i \in Within[s.item]
  BY DEF CanAccess
<1>2. i \in items
  BY <1>1 DEF IndInv, SharesResolve
<1>3. i \in Covered(s.item)
  <2>1. CASE s.item = i
    BY <2>1, ItemsAssumption DEF Covered, Item
  <2>2. CASE s.item \in Folder /\ i \in File /\ Home[i] \in Within[s.item]
    BY <2>2 DEF Covered
  <2>3. CASE s.item \in Folder /\ i \notin File /\ i \in Within[s.item]
    BY <2>3 DEF Covered
  <2>. QED
    BY <1>1, <2>1, <2>2, <2>3
<1>. QED
  BY <1>1, <1>2, <1>3

LEMMA OwnersNext ==
  ASSUME IndInv, Next
  PROVE  OwnersWereAllowed'
<1>. SUFFICES ASSUME NEW x \in Request,
                     requests'[x].pc \in {"found", "permitted"},
                     OwnerOf[requests'[x].item] = requests'[x].user
              PROVE  wasAllowed'[x]
  BY DEF OwnersWereAllowed
<1>0. requests'[x].pc \in Reading
  BY DEF Reading
<1>1. CASE requests'[x] = requests[x]
  BY <1>0, <1>1, Remembered DEF IndInv, OwnersWereAllowed
<1>2. CASE /\ requests'[x].item \in items \cap Item
           /\ UNCHANGED items
  <2>1. IsAllowed(x)'
    BY <1>2 DEF IsAllowed
  <2>. QED
    BY <1>0, <2>1, Observed
<1>3. CASE /\ requests[x].pc = "found"
           /\ requests'[x] = [requests[x] EXCEPT !.pc = "permitted"]
  <2>1. requests[x] \in RequestState
    BY DEF IndInv, TypeOK
  <2>2. wasAllowed[x]
    BY <1>3, <2>1 DEF IndInv, OwnersWereAllowed, RequestState
  <2>. QED
    BY <1>0, <1>3, <2>2, Remembered DEF Reading
<1>. QED
  BY <1>1, <1>2, <1>3, Moved DEF Justified

LEMMA AnswersNext ==
  ASSUME IndInv, Next
  PROVE  AnswersWereAllowed'
<1>. SUFFICES ASSUME NEW x \in Request, requests'[x].pc = "permitted"
              PROVE  wasAllowed'[x]
  BY DEF AnswersWereAllowed
<1>. DEFINE q == requests'[x]
<1>0. q.pc \in Reading
  BY DEF Reading
<1>1. CASE requests'[x] = requests[x]
  BY <1>0, <1>1, Remembered DEF IndInv, AnswersWereAllowed
<1>2. CASE OwnerOf[q.item] = q.user
  BY <1>2, OwnersNext DEF OwnersWereAllowed
<1>3. CASE /\ requests[x].pc = "found"
           /\ q = [requests[x] EXCEPT !.pc = "permitted"]
           /\ UNCHANGED <<items, shares>>
           /\ CanAccess(q.item, q.user, q.with)
  <2>1. q.item \in Item
    BY <1>0, ArgumentsNext DEF ArgumentsOK
  <2>2. /\ q.item \in items
        /\ \E s \in shares : /\ s.with \in {q.user, q.with}
                             /\ q.item \in Covered(s.item)
    BY <1>3, <2>1, CheckIsSound
  <2>3. IsAllowed(x)'
    BY <1>3, <2>2 DEF IsAllowed, Covered
  <2>. QED
    BY <1>0, <2>3, Observed
<1>. QED
  BY <1>1, <1>2, <1>3, Moved DEF Justified

LEMMA IndInit == Init => IndInv
<1>. SUFFICES ASSUME Init
              PROVE  IndInv
  OBVIOUS
<1>1. TypeOK
  BY IdleType DEF Init, TypeOK
<1>2. \A r \in Request : requests[r].pc = "idle"
  BY IdleType DEF Init
<1>. QED
  BY <1>1, <1>2 DEF Init, IndInv, ArgumentsOK, SharesResolve,
                    OwnersWereAllowed, AnswersWereAllowed, Reading

LEMMA IndNext == IndInv /\ [Next]_vars => IndInv'
<1>1. ASSUME IndInv, Next
      PROVE  IndInv'
  BY <1>1, TypeNext, ArgumentsNext, ResolveNext, OwnersNext, AnswersNext
  DEF IndInv
<1>2. ASSUME IndInv, UNCHANGED vars
      PROVE  IndInv'
  BY <1>2 DEF vars, store, IndInv, TypeOK, ArgumentsOK, SharesResolve,
              OwnersWereAllowed, AnswersWereAllowed
<1>. QED
  BY <1>1, <1>2

-----------------------------------------------------------------------------
(* Theorems *)

\* The inductive invariant of shares, writers and readers.
THEOREM Invariance == Spec => []IndInv
<1>. QED
  BY IndInit, IndNext, PTL DEF Spec

\* Rows of shares, what requests remember between check and write, and the
\* tokens handed out have their types (ShareFileWithUser and its likes).
THEOREM ShareTypesCorrect == Spec => []TypeOK
<1>1. IndInv => TypeOK
  BY DEF IndInv
<1>. QED
  BY <1>1, Invariance, PTL

\* A share is never left without its item, and is its owner's, although
\* ShareFileWithUser and its likes check ownership in an earlier statement.
THEOREM SharesAlwaysResolve == Spec => []SharesResolve
<1>1. IndInv => SharesResolve
  BY DEF IndInv
<1>. QED
  BY <1>1, Invariance, PTL

\* GetFile, GetDownloadURL, GetFilesInFolder, GetFoldersInFolder and
\* GetFolderDetails let through only who had access since the request began.
THEOREM AnswersAreAllowed == Spec => []AnswersWereAllowed
<1>1. IndInv => AnswersWereAllowed
  BY DEF IndInv
<1>. QED
  BY <1>1, Invariance, PTL

\* An unshare leaves no share of the item with the user, however often it had
\* been shared and whatever runs beside it.
THEOREM UnsharesAreComplete == Spec => UnshareIsComplete
<1>1. ASSUME IndInv, NEW r \in Request, RevokeUserShare(r)
      PROVE  \A s \in shares' : ~(s.item = requests[r].item
                                      /\ s.with = requests[r].with)
  <2>1. OwnerOf[requests[r].item] = requests[r].user
    BY <1>1 DEF RevokeUserShare, IndInv, ArgumentsOK
  <2>2. \A s \in shares : OwnerOf[s.item] = s.owner
    BY <1>1 DEF IndInv, SharesResolve
  <2>. QED
    BY <1>1, <2>1, <2>2 DEF RevokeUserShare
<1>2. IndInv /\ [Next]_vars =>
        [\A r \in Request :
           RevokeUserShare(r) =>
               \A s \in shares' : ~(s.item = requests[r].item
                                        /\ s.with = requests[r].with)]_vars
  BY <1>1
<1>. QED
  BY <1>2, Invariance, PTL DEF Spec, UnshareIsComplete
=============================================================================
