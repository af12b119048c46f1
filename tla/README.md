# Verification of files-backend

TLA+ models of files-backend (Go, GraphQL, PostgreSQL, S3), the TLC runs that
check them on small instances, and TLAPS proofs for every instance. Sources are
named relative to the repository; `files.resolvers.go` and its neighbours are in
`internal/graph/resolver/`, the `*.sql.go` files in `internal/database/postgres/`.

## 1. The system

A stateless HTTP server resolves GraphQL requests. Everything that lasts is in
PostgreSQL (`db/migrations/`) and in one S3 bucket. Requests run concurrently,
one goroutine each, and share no memory but the connection pool; they meet in
the tables and in the bucket. One background goroutine, the cleanup worker, runs
beside them.

| component | state | operations | meets |
|---|---|---|---|
| content store (`files.resolvers.go`) | `physical_files` (one row per content hash, with `reference_count`), `files` (references, each in a folder or at the root), the bucket | `PreUploadCheck` (reuse known content or hand out a PUT URL), the client's PUT, `ConfirmUploads`, `DeleteFile`, `DeleteFolder` | worker and bucket, folder tree (foreign keys, cascade), pool |
| cleanup worker (`utils/worker.go`) | the list it is working through | every hour: list rows with `reference_count <= 0`, delete each object, then "the record" | content store |
| folder tree (`files.resolvers.go`, `folder.sql.go`) | `folders`: `parent_id` and the ltree `path` | `CreateFolder` (read parent path, insert), `DeleteFolder` (delete by path, cascade by parent) | content store |
| connection pool (`database/`, pgxpool) | idle and held connections | one connection per statement; `Begin` ... `Commit`/`Rollback` | every request |
| sharing (`share.resolvers.go`, `share.sql.go`) | `shares` | share/unshare file or folder with a user, publish by token, revoke; access checks | files, folders, listings |
| accounts (`user.resolvers.go`, `auth/`, `middleware/`, `directive/`) | `users`, tokens held by clients | register, log in, `@auth`, `@hasRole` | everything |
| administration (`admin.resolvers.go`) | none of its own | create an administrator, page through files and users, download, usage | files, users |
| GraphQL execution (`graph/generated/`, `directive/`) | per operation: the response so far, a counter of nulls per object, the errors | resolve a field behind its directive, run fields concurrently or in order, carry a null up to where null is allowed, answer | every resolver |
| listings and downloads (`files.resolvers.go`, `*_with_sf.sql.go`, `sf.utils.go`) | `download_count` | list, search, presigned GET | sharing, bucket |
| upload verification (`utils/verifyFiles.go`) | none | MIME aliases, size from Content-Range | `ConfirmUploads` |
| server, config, storage client | none after start-up | wiring | - |

What makes it hard:

* A mutation is several SQL statements and S3 calls. Only `ConfirmUploads` (per
  upload) and `DeleteFolder` use a transaction, at READ COMMITTED, where each
  statement has a snapshot of its own and a row lock waits and then goes on with
  rows selected before the wait.
* `reference_count` is kept by hand, by three different statements, while rows of
  `files` also vanish by cascade.
* The bucket takes part in no transaction. Clients write to it directly, with
  URLs that stay valid whatever happens to the tables, and the worker deletes
  from it following a list it read before.
* A request can fail, be cancelled, or be cut off by a crash between any two
  steps; clients retry.
* `ConfirmUploads` holds a connection, in a transaction, while it waits for S3.
* The answer itself is put together by concurrent goroutines, one per computed
  field and per element of a list: a null or an error in one of them decides
  what the others are worth.
* A page and its count are two statements, pages follow each other while rows are
  added, and their arithmetic is that of int32.

What has to be right, component by component: no content that is counted may be
collected; nothing may be given up that nobody deleted; no file may stay in a
folder that is gone; an upload confirmed twice is recorded once; condemned
content is collected in the end; every mutation ends. The two forms of the folder
hierarchy agree and a deletion takes exactly its subtree. Connections are
returned and waiters served. Shares resolve, nobody is let through by a share
revoked before the request, and an unshare is complete. An address has one
account and a token names one; a page is among those that its answer counts and
a walk through the pages misses nobody. An answer holds a null exactly where
null propagation puts it, with an error that explains it, mutations of one
operation run in sequence, and every operation is answered.

## 2. The modules

| module | what it is |
|---|---|
| `ContentLifecycle` | abstract specification of one store of contents: unknown, kept, condemned; kept content is in the bucket; only condemned content is removed |
| `ContentStore` | content store and cleanup worker; refines `ContentLifecycle` |
| `ContentStoreProofs` | the theorems about `ContentStore` |
| `Scans` | lemmas for the proofs of `ContentStore` and `FolderTree`: the rows of a scan, its head and tail, least sets |
| `Hierarchy` | abstract specification of folders: each is created in a folder that is there, or deleted with everything inside, at once; no paths |
| `FolderTree` | creation and deletion of folders, statement by statement and row by row; refines `Hierarchy` |
| `FolderTreeProofs` | the theorems about `FolderTree` |
| `ConnectionPool` | who holds, wants and loses database connections |
| `ConnectionPoolProofs` | the theorems about `ConnectionPool` |
| `Uploads` | the lists of `PreUploadCheck` and `ConfirmUploads`, their rows and answers, composed with `ConnectionPool` |
| `UploadsProofs` | the theorems about `Uploads` |
| `Sharing` | shares, their revocation and cascade, and the readers that check access by them |
| `SharingProofs` | the theorems about `Sharing` |
| `Response` | abstract specification of one GraphQL operation: positions are resolved once, by whoever may, and then there is one answer |
| `Execution` | the generated code at work: goroutines, counters, groups, directives; over any schema; refines `Response` |
| `ExecutionProofs` | the theorems about `Execution` |
| `Schema` | the generated functions as tables: what each field of each type calls or reads, behind which directive, and how it is marshalled |
| `Selection` | the positions of responses in that schema, and the operations that the run sends |
| `Accounts` | registration, sessions, and the pages of the list of users |
| `AccountsProofs` | the theorems about `Accounts` |
| `MCContentStore`, `MCUploads`, `MCSharing`, `MCExecution`, `MCAccounts` | instances for TLC: the folder hierarchies, what clients send, the symmetry sets; `MCExecution` joins `Execution` to the tables of `Schema`, and says which fields of this schema are mutations and which positions are for administrators |

Definitions whose comment begins with "Mutant:" stand before the definition they
are a broken form of. They belong to no behaviour of the specifications; they
record which mistake each property catches (`PROJECT.json`, "mutants").

### ContentStore

One action is one SQL statement or one S3 call, because other requests run
between any two of them.

* State: `physicalFiles` and `referenceCount` are the table `physical_files` (a row is
  identified with its `content_hash`, which is UNIQUE), `files` and `folders` the
  committed rows of those tables, `objects` and `putUrls` the bucket and the
  presigned PUT URLs still valid, `requests` what each running mutation has
  reached and remembers, `cleanupList` and `collected` the loop of `CleanupFiles`.
  `history` is a history variable: all rows `files` has ever had.
* `PreUploadCheck` and `ConfirmUploads` take a list; this module takes one element
  at a time, since no element depends on another except through the tables. The
  lists are the subject of `Uploads`.
* `ConfirmUploads`: `VerifyUpload` is the S3 read, `RecordUpload` both INSERTs
  and the commit, which nobody else can tell apart: a concurrent INSERT of the
  same hash waits for the unique index, a DELETE of the folder for the foreign key.
* `DeleteFile`: `FindFile`, `DeleteFileRow`, `DecrementCount`, each committed alone.
* `DeleteFolder`: `FindFolder` (owner check, Begin), and then three statements, each of which selects its rows in
  one snapshot, in the order of some scan (`todo`), and locks them one after the other,
  keeping those it has: `ListContents` is the subselect of the UPDATE and `DecrementContents` one row of it;
  `DeleteFilesInFolder` and `DeleteNextFile` are the DELETE of files; `DeleteFoldersRecursively` and
  `DeleteNextFolder` that of folders; `Cascade` is the trigger of one deleted folder, whose files it
  finds in a snapshot of its own and deletes by `DeleteNextFile` too. `CommitDeleteFolder` ends it. What the open
  transaction has written is in the record of its request (`counted`, `doomed`, `gone`; `triggers` are
  the deleted folders that have yet to cascade) and appears at the commit. The UPDATE
  goes on with the rows its subselect found before waiting; a DELETE skips a row that
  was deleted while it waited.
* Locks: `Locked` are the rows that a transaction has locked, `WaitsFor` says who waits for
  whom, `Waits` that a request has to. An INSERT waits for the transaction that has deleted
  its folder (`FolderIsFree`). Transactions that meet each other's rows in different orders (two
  `DeleteFolder`s whose folders share two contents, or of a folder and one inside it) wait in a
  circle (`Circles`); `BreakDeadlock` is PostgreSQL, which fails one of them.
* The worker: `ListForCleanup`, `DeleteObject` (or `DeleteObjectFails`), and `DeleteRecord`, which is
  translated as it stands: it deletes a row of `files` whose id is that of a
  physical file. `IdsAreDistinct` (random UUIDs of two tables differ) makes that a
  statement without effect; it is an assumption, not built into the action.
* Failures: `Abort` ends a request anywhere (error, cancelled context) and rolls back what is open; `Crash` ends all of them and the
  worker's pass; `PreUploadCheckMisses` is a lookup whose error counts as "new file".

Abstracted: owners and filenames. They decide whether a request is refused, which
changes nothing, and whether an INSERT violates `UNIQUE (owner_id, folder_id, filename)`: in
the model any INSERT may fail. Folders exist from the start; how they come to be
is `FolderTree`'s subject. MIME and size checks are "accepted or refused".

### FolderTree

State: `folders` with parent and path; `requests`; `made`, the ids used so far (a new
folder has a fresh UUID). `CreateFolder` below a parent is two steps, `ReadParentPath` and
`InsertBelowParent`, and the INSERT holds the parent's row (foreign key). The recursive
DELETE is `SelectSubtree` (the rows of a snapshot, in the order of some scan), `DeleteRow` for
each (after waiting for a transaction that has deleted it), `Cascade` (the
`ON DELETE CASCADE` of one deleted row by `parent_id`, which sees rows newer than the
snapshot) and `Commit`. Transactions that lock rows in different orders can wait
for each other in a circle; `BreakDeadlock` is PostgreSQL's remedy, and `Circles` are the circles. `Tree` maps the rows to the folders of `Hierarchy`. `real_path` is left out: the same statements build it the same way.

### ConnectionPool

State: `idle`, `lost` (connections of transactions that nobody will end), and what each
request does. `Query`/`RunStatement`/`EndStatement` stand for every resolver that runs single
statements; `ConfirmUploads` and `DeleteFolder` for the two that open transactions.
`UploadRefused` covers the four `continue`s without Rollback. What the statements do is
`ContentStore`'s subject. `GiveUp` is a client that goes away while waiting, `Restart` a new
process with a fresh pool.

### Uploads

Each action is one of `ConnectionPool` together with what it does to a list, so that the
two loops are seen with the statements and transactions they run, entry by entry.

* State, beside the pool's: `known`, the contents with a row of `physical_files`; `files`, with
  the content, place and name of each row and whether `ConfirmUploads` has made it
  (`is_original`); `batches`, for each request the entries from the one at hand on, whether
  its lookup has found the content, and the items of the answer.
* `PreUploadCheck`: `FindContent` and then `InsertReference`, whose error is ignored, so that the
  answer has an item without an id; or `HandOutUrl`; or `CheckFails`, which ends the request
  with an error. `ConfirmUploads`: `ConfirmList`, then for each entry `RefuseUpload`, `RecordUpload`,
  `FailUpload` (a Rollback) or `LoseCommit`, which ends the request and may have taken effect.
* `NameIsFree` is `UNIQUE (owner_id, folder_id, filename)`, where a NULL `folder_id` equals no other: a
  place in `Roots` is the root of an owner. (`ConfirmUploads` takes a `folderId` that cannot be
  parsed for no folder at all: such an entry's place is the root.)
* `LeaveQueue` is a client that goes away, `RestartAll` a crash: rows stay, lists and answers
  are gone. Clients may send any list at any time, hence again. `OtherRequest` and
  `OtherSteps` are the resolvers without lists, and steps that change no list.

No file is deleted here, and objects in the bucket are left out: both are
`ContentStore`'s subject.

### Sharing

State: `items` (rows of `files` and `folders`; a fixed hierarchy `Within`, `Home`, `OwnerOf`), `shares`,
`requests`, and two history variables: `issued`, the tokens generated so far (a token is 32
random characters, hence new), and `wasAllowed`, whether a reader could reach its item at
some moment since its request began. A writer is two steps: `CheckOwnership`, then
`InsertShare` or `RevokeUserShare` (or `CheckUserOwnsShare`, `RevokePublicShare`). A reader is `FindItem` (or
`GetFolderIdByPublicToken` and `FindResolvedFolder`), `CheckAccess`, `Answer`. `DeleteItem` is the commit of a
deletion with its cascade to files, folders and shares; an INSERT that waits for
it comes before or after. E-mail addresses, download counts and the contents of
answers are left out. A file may be in a folder of another owner (nothing in the
code prevents it), and is so in the instance.

### Execution, Schema and Selection

A response is a tree of positions: the operation, its root fields, fields of
objects, elements of lists. `Execution` takes the tree as constants (`Parent`, `Below`, `Kind`,
`NonNull`, ...), so that it can be proved about for every schema; `Schema` and `Selection`
compute these constants from tables that follow the generated functions one by
one (`T_f` is `_T_f` together with `fieldContext_T_f`).

State, for the operation at hand: `phase` (how far the goroutine of a position is),
`value` (what stands in the response), `invalids` (the atomic counter `FieldSet.Invalids` of an object),
`errors` (where `graphql.AddError` was called), and the history variable `returned`. An operation
that ends is the end of the behaviour; requests share nothing here.

* `graphql.ResolveField`: `RefuseArguments` (arguments cannot be unmarshalled), `RefuseRequester` (`@auth` or
  `@hasRole` stands before the resolver), `CallResolver`, then `ResolverFails` (an error or a recovered
  panic) or `ResolverReturns`, with nil or with a value, whatever the Go type allows; `ReadField` for
  fields of structs and elements of slices. Nil for a required field adds an error.
* The functions of object types: `Before[p]` holds the inline fields, which run first and in
  their order, and, in a mutation, everything before the field; the concurrent
  fields run next to each other. `CountField` puts a field into its object and counts it if it
  is null and must not be; `CollectFields` is the object after `Dispatch`, or the list after `wg.Wait`.
* `Exec`: `Respond`.

Two of the constants say what a schema promises. `InSequence` holds the root fields of
mutations, each of which has those before it in `Before` (`SequenceAssumption`, which TLC evaluates on
every position of `Schema`'s tables, like the shape of the tree and the order of fields).
`Restricted` holds what is for administrators: the fields that `admin.graphqls` declares with `@hasRole`,
listed by name in `MCExecution`, and everything in their answers. The directives are in the
tables, as the generated functions have them, and nothing but the property compares
the two: a directive that is missing before one of these fields (the mutant takes it from
`getUserByID`) violates `AdministrationIsForAdmins`. `createAdminUser` has no directive in `admin.graphqls`, hence none
in the tables, and anybody may call it.

Abstracted: names, arguments and contents of values. Lists have up to two
elements.

### Accounts

State: `users`, the table; `requests`, the registrations under way; `tokens`, those that were handed
out (nothing is stored for a session, and nothing takes a token back);
`registered`, a history variable of what clients were told; `page`, the page of users that an
administrator is asking for or was answered last.

* `RegisterUser` is `LookUp`, `InsertUser` and `AnswerRegistration`, `CreateAdminUser` the same without the lookup
  (`StartCreateAdmin`); `UserAccounts` and `AdminAccounts` are the addresses and passwords that clients send. UNIQUE on the address refuses the second of two registrations. `Abort` is an error,
  a cancelled context, a crash, or an answer that the client does not see, at any
  point. `Login` is one read and a token with the role of the row. Hashing a password
  is abstracted to remembering it.
* `GetUsers` is `ListUsers` (ORDER BY, LIMIT, OFFSET: rows of the same `created_at` in any order, a
  different one at each statement) and `CountUsers`; `Use`, `Offset` and `TotalPages` are the code's, in integers of
  `2 * Half` values that wrap, with Go's division. `page.unmet` is history: whom a client that
  walks page by page has not met so far.
* `created_at` is `NOW()` of a statement that may wait before it inserts, so rows may appear
  in any order of it: the model lets it be any `Time`. Users are never deleted, in the
  code as in the model.

## 3. What is checked

| run | instance | what it shows |
|---|---|---|
| `store` | 1 content, 2 file ids, 2 nested folders, 2 requests; failures, deadlocks and crashes | `TypeOK`; `KeptContentAvailable`: counted content is in the bucket; `CleanupOnlyCondemned`: the worker's list never goes stale; `OneOriginalPerContent`; `FolderIntegrity`; `LostOnlyAfterDeletion`; `IndInv`, the invariant of the proofs; `ImplementsLifecycle` |
| `store_liveness` | 1 content, 1 file id, 2 nested folders, 2 requests; fairness | `RequestsFinish`: mutations that lock row by row do not wait for ever, deadlocks included; `CondemnedIsCollected` |
| `store_one_at_a_time` | 2 contents, 3 file ids, 2 nested folders, 1 request, no failures | `KeptIsReferenced`: the counts do what they are for when mutations do not overlap |
| `folder_tree` | 3 ids, 2 requests; fairness | `TypeOK`; `PathsFollowParents`; `DeletesExactlyTheSubtree`; `ImplementsHierarchy`; `RequestsFinish`: locking row by row, deadlocks included |
| `connection_pool` | 2 connections, 2 requests, 2 lists of 2 entries, 2 contents, a folder and a root, 2 rows of `files`; fairness | `TypeOK`; `ConnectionsAccountedFor`; `ServedUnlessDry`; `AnswersAreTrue`: an item with an id is a file; `RetriesAddNoFile`; `ListsAreFinished` |
| `sharing` | 1 file in 2 nested folders, 2 users, 2 tokens, 2 rows of shares, 2 requests | `TypeOK`; `SharesResolve`; `AnswersWereAllowed`: no answer rests on a share revoked, or an item deleted, before the request; `UnshareIsComplete`; `IndInv`, the invariant of the proofs |
| `execution` | every operation that selects one leaf of the schema, and ten that select several, from clients without a session, users and administrators; fairness | `TypeOK`; `NullsPropagate`; `NullsAreExplained`; `MutationsInSequence`; `AdministrationIsForAdmins`: no resolver runs against its directive, and nothing is answered to others at the fields for administrators; `OperationsAreAnswered`; `ImplementsResponse` |
| `accounts` | 3 user ids, 3 addresses, one of them wanted with 2 passwords and by an administrator, 2 requests, 2 times, int32 of 24 values | `TypeOK`; `OneAccountPerEmail`; `AnsweredAccountsStand`: who was told of an account can log in to it; `TokensNameAccounts`; `PagesFitTheCount`: answers agree with themselves; `WalkMeetsEveryone`: no page jumps over a user, though others register during the walk |

Four more runs show where the code departs from what its documents say
(`PROJECT.json`, "findings"):

* `reuse_loses_content` (`FilesAreStored`): `PreUploadCheck` makes a reference without raising
  `reference_count`. Upload, reuse, delete the original: the worker collects content
  that the second file still refers to.
* `deletion_leaks_content` (`KeptIsReferenced`): a file recorded in a folder between two
  statements of `DeleteFolder` is deleted without being uncounted, and its content is
  never collected.
* `cleanup_keeps_record` (`CleanupRemovesRecord`): the worker's last step deletes no record.
* `pool_runs_dry` (`WaitersAreServed`): refused uploads keep their connections.

Note how the first and the third interact: a condemned row that stays for ever is
also what keeps its hash from being recorded anew. Deleting the record alone
would let an upload that was verified before the object was collected be
recorded after it (`KeptContentAvailable` fails for `DeletePhysicalRecord`).

**Bounds.** `Hash`, `FileId`, `Folder`, `Request` and `FolderId` bound what a behaviour can
contain; ids are not reused, so `FileId` and `FolderId` also bound how many rows are ever
inserted, `MaxFiles` does so for the rows of `Uploads`, and `MaxUploads` bounds how many uploads one call lists. No counter needs a cap:
a count can fall at most once per deletion of a row. Two requests suffice for
every interleaving of two mutations, and the worker is a third party; two files
on one content make counts differ from the number of references; nested folders
make two deletions overlap partly, and lock the same rows of folders in opposite
orders, which is a deadlock; one over two contents needs a second content, and is left
to the theorem `MutationsNeverStuck`, since the runs with two contents have one request. In `FolderTree` three folders and two requests
let a folder be created in a subtree while a deletion above it runs, two nested
deletions overlap, and two scans of the same two rows suffice for a deadlock. In
`Uploads` one refused upload leaves one connection to two requests, so that they wait for each
other, and a list of two can lose both; the lists put one content at the root
and in a folder, and two contents to one name, and each can be sent again by
the same client or another. In `Sharing` two rows are enough for a
share given twice, and two tokens for one revoked and one alive; `ShareId` bounds the
rows that exist at a time. In `Execution` a `MaxDepth` of
5 meets every field of every type (only folders contain folders; it goes from a
list of them one level down). Every leaf alone shows how its null travels up to
the root, and the combined operations have inline and concurrent, required and optional fields
side by side, two elements of a list, and several mutations. In `Accounts` one
user is an administrator who walks through the pages, another one is still ahead of it,
and a third one registers between two pages or between the two statements of one,
so that the others are pushed back (the mutant that counts before it lists fails only
then). Three users are on pages of one or two; the address that several want
is one with two passwords and two roles, and the other two are for the walk. `Half` is
above the default limit of 10 and small enough for page 3 of 10 to wrap to a negative
offset, and for the count of three users on pages of 10 to wrap while that of two does
not; two times make rows differ or agree in `created_at`. The runs of `FolderTree`, `Sharing` and `Execution` allow deadlock
because ids run out, every item is deleted, or the operation is answered; in the
others there is none.

**Fairness.** PostgreSQL queues those who wait for a row and pgxpool those who wait
for a connection, so that whoever can go on again and again goes on: strong
fairness of a request's next statement (`Continue`) and of each acquisition. The
ticker fires every hour and its goroutine runs: weak fairness of `ListForCleanup` and
`DeleteRecord`. S3 may refuse a deletion any number of times, but not every time:
strong fairness of `DeleteObject`. Nothing makes clients call, PUT, or cancel, and
nothing is assumed of failures, except that PostgreSQL in the end breaks a deadlock: weak
fairness of `BreakDeadlock` in `ContentStore` and in `FolderTree`; without it `RequestsFinish` is false in both. In
`Execution`, weak fairness of `Next`: goroutines are scheduled, and a resolver, which is
finitely many statements and calls to S3 with deadlines of their own, returns. `CondemnedIsCollected` says that the object is gone at some
moment, not that it stays away: a client with a valid URL may PUT it again, and the
worker, which meets the row at every tick, then deletes it again.

## 4. What is proved

`ContentStoreProofs`, for all finite or infinite sets of contents and ids and all finite sets of
folders and requests, from the four assumptions of `ContentStore`: `IdsAreDistinct`, `WithinIsAnOrder` (ltree's
`<@` is reflexive and transitive), `ConstantsAreDistinct` and `FinitelyMany`.

| theorem | statement |
|---|---|
| `TypeCorrect` | `Spec => []TypeOK` |
| `Invariance` | `Spec => []IndInv` |
| `KeptContentIsAvailable` | `Spec => []KeptContentAvailable` |
| `CleanupIsSafe` | `Spec => []CleanupOnlyCondemned` |
| `OriginalsAreUnique` | `Spec => []OneOriginalPerContent` |
| `FoldersKeepIntegrity` | `Spec => []FolderIntegrity` |
| `NothingIsLostUnasked` | `Spec => []LostOnlyAfterDeletion` |
| `KeptIsReferencedAlone` | `(\A r, s \in Request : r = s) => (SpecWithoutFailure => []KeptIsReferenced)` |
| `MutationsNeverStuck` | `Spec => []NobodyIsStuck` |
| `Implementation` | `Spec => ImplementsLifecycle` |

None of the properties is inductive alone. `KeptContentAvailable` needs that an upload,
verified long before it is recorded, is still stored unless someone recorded it
first (`VerifiedIsStored`); that needs `CleanupOnlyCondemned`, since the worker deletes by an old
list; and that rests on counts that only fall once a row exists, whatever is
rolled back. `FolderIntegrity` needs that a folder which goes at a commit is locked by one
transaction, that every file in it is deleted or before the cascade, unless its
trigger has yet to run (`LocksCover`), that the rows which a DELETE of folders has found are still
the whole subtree while it locks them one by one (`SubtreeIsFound`), and that a folder is there
only with all folders above it (`FoldersAreClosed`). `StatementsInOrder` says which locks a transaction can
have at which statement. `LostOnlyAfterDeletion` needs that each pending decrement is owed to a reference that is deleted,
or that goes with its folder (`DecrementsAreOwed`). `IndInv` is the conjunction. Its proof goes in
layers in the order of the conjuncts: types, arguments, rows and foreign keys,
counts, the bucket, folders and locks, and what deletions owe; each layer is
preserved by every action from the layers before it. The implementation theorem
maps each step to a step of `ContentLifecycle` or to a stutter, from `IndInv`.

`KeptIsReferenced` is false in general (the run `deletion_leaks_content`); it holds when mutations
do not overlap and nothing fails. The invariant of that is `CountsAreOwed`: a count is 1
at most, ids are those of one row for ever, content that counts as kept has a
file or is the one that the `DeleteFile` under way is about to uncount, and a `DeleteFolder` has
counted the contents of all it will delete.

`NobodyIsStuck` is the part of `RequestsFinish` that needs no fairness: whenever mutations run, one of
them finds the next row free, or there is a circle of requests that wait for each
other (`Circles`), which PostgreSQL breaks; and all in a circle are `DeleteFolder`s. Without `Circles` it is
false: two `DeleteFolder`s that share two contents lock the counts in different orders. If nobody
can go on, each waits for somebody who runs; of the sets in which everybody waits for
somebody of the set, a least one has nobody whom none waits for, hence is a circle.
Who is waited for has locked a row (`WaitersWaitForTransactions`), and the requests that keep locks from one step
to the next are the transactions of `DeleteFolder` (`StatementsInOrder`).

`SharingProofs`, for every hierarchy, from `ItemsAssumption` and `GranteesAssumption`:

| theorem | statement |
|---|---|
| `Invariance` | `Spec => []IndInv` |
| `ShareTypesCorrect` | `Spec => []TypeOK` |
| `SharesAlwaysResolve` | `Spec => []SharesResolve` |
| `AnswersAreAllowed` | `Spec => []AnswersWereAllowed` |
| `UnsharesAreComplete` | `Spec => UnshareIsComplete` |

The invariant adds what requests carry from their check to their write
(`ArgumentsOK`) and that an owner who has found an item was allowed then, even if it
is deleted before the answer (`OwnersWereAllowed`). `UnshareIsComplete` rests on `SharesResolve`: the
DELETE names the owner, and every share of an item is of its owner.

`FolderTreeProofs`, for every set of ids and requests, from `ConstantsAreDistinct`:

| theorem | statement |
|---|---|
| `Invariance` | `Spec => []IndInv` |
| `FolderTypesCorrect` | `Spec => []TypeOK` |
| `PathsAlwaysFollowParents` | `Spec => []PathsFollowParents` |
| `DeletionsKeepTrack` | `Spec => []DeletionsKeepToPath` |
| `DeletionsAreExact` | `Spec => DeletesExactlyTheSubtree` |
| `Implementation` | `Spec => ImplementsHierarchy` |
| `LocksAreExclusive` | `Spec => []LocksExclude` |
| `RequestsAreNeverStuck` | `Spec => []NobodyIsStuck` (for finitely many requests, `FinitelyManyRequests`) |

An INSERT computes its path from one it read before; that is right because an id
names one row for ever (`IdsAreUnique`), so that the parent is either gone, and the
foreign key refuses the row, or the one whose path was read
(`RememberedPathIsCurrent`). A commit leaves no folder without its parent because the cascade is
finished by then, whatever was inserted since the first snapshot.

`DeletesExactlyTheSubtree` has two halves. Only folders of the subtree go, because what a deletion has
deleted or queued always lies below the path that it selects by (`DeletionsKeepToPath`). All of
them go, those included that were created while it ran: of the folders that would be
left in the subtree, take one with fewest folders above it. It is not the deleted
folder, so its parent is there (`PathsFollowParents`) and in the subtree, with fewer above it: the
parent is deleted. But a cascade that is finished has deleted every child of what it
has deleted. (The prover has no induction over paths; it has that a finite set of
sets has a least element.)

`Implementation` turns that around: `Hierarchy` knows only parents, and what is inside a folder is
what every set contains that has the folder and, with a folder, those in it. By the
same argument such a set contains all that lies below the path (`SubtreeIsWhole`), and the ids
below the path are such a set (`BelowIsInside`). So selecting by path and cascading by parent
delete the same; every other statement leaves the tree as it is or adds one folder
with a new id to a folder that is there.

`NobodyIsStuck` says that the circles which `BreakDeadlock` breaks (`Circles`) are the only way in which
requests can all wait. If none can go on, each waits for another; of the sets of requests
in which everybody waits for somebody of the set, a least one has nobody whom none
waits for, and since an INSERT holds no row, it is a circle of deletions. Without
`Circles` the statement is false: TLC finds two deletions that each have a row the other is to
delete.

`ConnectionPoolProofs`, for every size of the pool, every finite set of requests (`RequestAssumption`) and
lists of any length:

| theorem | statement |
|---|---|
| `Accounting` | `Spec => []ConnectionsAccountedFor` |
| `PoolTypesCorrect` | `Spec => []TypeOK` |
| `PoolNeverStuck` | `Spec => []NobodyIsStuck` |

Each step adds a request to those who hold a connection, removes one, or leaves
them; the bounds in `TypeOK` follow from the sum. So does `NobodyIsStuck`, the part of `ServedUnlessDry` that
needs no fairness: when nobody holds a connection and none is idle, all are lost.

`UploadsProofs`, for every set of lists, places, contents and names, from `ListsAssumption` and
`FilesAssumption` and those of the pool:

| theorem | statement |
|---|---|
| `UploadsImplementPool` | `UploadsSpec => Spec` of `ConnectionPool` |
| `UploadsInvariance` | `UploadsSpec => [](IndInv /\ UploadsInv)` |
| `AnswersAlwaysTrue` | `UploadsSpec => []AnswersAreTrue` |
| `RetriesNeverAddFiles` | `UploadsSpec => []RetriesAddNoFile` |
| `UploadsAccounting` | `UploadsSpec => []ConnectionsAccountedFor` |

`AnswersAreTrue` needs that the entry at hand is one of the list: a request that is about to
record still has as many entries as the pool counts uploads for it (`ListsAreInStep`).
`RetriesAddNoFile` is no invariant by itself either: two originals of one entry are excluded
because originals of one content are unique, and these because the content of
every file has a row (`RowsAreConsistent`). Rows only grow here, which carries answers over all
other steps.

`ExecutionProofs`, for every schema, every set of operations and every number of
elements, from `TreeAssumption` (positions are a tree), `SchemaAssumption` (directives stand on resolvers, elements
are required), `OrderAssumption` (a goroutine runs the fields of one object in an order),
`OperationsAssumption` (who selects a position selects what is around it; an operation is
finite), and `SequenceAssumption` for the theorem about mutations:

| theorem | statement |
|---|---|
| `Invariance` | `Spec => []IndInv` |
| `TypeCorrectness` | `Spec => []TypeOK` |
| `NullPropagation` | `Spec => []NullsPropagate` |
| `NullsExplained` | `Spec => []NullsAreExplained` |
| `ImplementsAbstraction` | `Spec => ImplementsResponse` |
| `PositionsOnlyAdvance` | `Spec => OnlyForward` |
| `MutationsRunInSequence` | `Spec => []MutationsInSequence` |
| `AdministrationStaysWithAdmins` | `Spec => []AdministrationIsForAdmins` (assuming `DirectivesStand`: above each restricted position stands `@hasRole`) |
| `ExecutorNeverStuck` | `Spec => []NobodyIsStuck` |

`NullsPropagate` speaks of a whole subtree, an object only of a counter. The invariant joins them:
`Staged` says what has been returned and written for a position in each phase, `Nested` that the
response grows from the root and that what is finished has only finished parts,
and `Counted` that a counter is positive exactly if a required field that is done is
null. When an object is completed, the children it has counted are right about
their own subtrees, and a null deeper down is carried to the object through one
child or not at all. The implementation theorem then needs that a position is
returned once and that the root is complete only when everything present is.

The other theorems use a second invariant beside it: what stands before a field
is done when it starts (`Ordered`), nothing but an error is returned against a directive
(`Guarded`), and the fields of an object are started together (`Together`). A field of a mutation is
done only with everything inside it (`Nested`), hence `MutationsInSequence`; no
resolver runs against its directive (`Staged`); and below a field that its directive has
refused everything is absent, since what is inside starts only when the field has
returned a value (`Nested`). `NobodyIsStuck` with `OnlyForward` is what `OperationsAreAnswered` rests on, but for fairness: of the positions that are not finished, the one with least
ahead of it (inside of it, or inside of what its goroutine does before it) waits
for nothing, since whatever it waits for has less ahead.

`AccountsProofs`, for all sets of ids, addresses, passwords and requests and any width
of the integers above the default limit, from `ConstantsAssumption`:

| theorem | statement |
|---|---|
| `Invariance` | `Spec => []IndInv` |
| `AccountTypesCorrect` | `Spec => []TypeOK` |
| `EmailsAreUnique` | `Spec => []OneAccountPerEmail` |
| `RegistrationsStand` | `Spec => []AnsweredAccountsStand` |
| `TokensAreBacked` | `Spec => []TokensNameAccounts` |
| `PagesAlwaysFit` | `Spec => []PagesFitTheCount` |
| `WalksMeetEveryone` | `Spec => []WalkMeetsEveryone` |

The three about accounts need that a row which an INSERT has made is there until
the answer (`InsertedStand`). The two about pages need `Walked`: a user who has not been met on
the pages so far, and shares its time with nobody, has at least as many newer
users before it as those pages have places. New users can only add to them, so
the next OFFSET does not pass anybody; and when the pages counted are all there
are, the newer users would fill them, and the user itself be one too many. The
rest is arithmetic: within `InRange` nothing wraps, and the quotient is the smallest number
of pages that holds all users.

Only model-checked: the liveness properties `RequestsFinish` (of `ContentStore` and `FolderTree`), `CondemnedIsCollected`,
`ServedUnlessDry`, `ListsAreFinished` and `OperationsAreAnswered`, since fairness and ENABLED are outside the prover. The
`NobodyIsStuck` of four modules is as much of them as can be proved here: its `CanContinue` (`CanStep`) repeats the
guards of the statements, which TLC has confirmed to enable them. What TLC alone
evaluates, too, is that the tables of `Schema` satisfy the assumptions of `Execution`: `Selection` computes
them by folds over paths, and there is one schema to check. Every other property of
a passing run is a theorem.

## 5. What is not modelled, and the plan

Not modelled, and why:

* Start-up and wiring, and S3, PostgreSQL and gqlgen's library beyond what the code
  uses of them. Complexity functions, `@defer` and subscriptions, which the server does
  not use; introspection, which answers from the schema alone.
* Sorting, filtering and search (SQL text), and `download_count`: no later step depends on them.
* `GetFiles` for administrators. Its pages are computed like those of `GetUsers`, but files are
  deleted, which moves later ones between the pages of a walk, and between the list and the
  count: nothing in the code keeps the two together, so that the properties of
  `Accounts` do not hold there. Its `search` argument is never passed on.
* Together with deletions, the lists of `Uploads`: an answer is true when it is given and until
  somebody deletes the file. An error in the middle of a list hides from the client
  what was done before it; that is how the code is, and what follows from it is
  `RetriesAddNoFile`.
* MIME aliases, Content-Range, conversions and random tokens: pure functions, of which
  the models take the verdict or the freshness. `ConfirmUploads` dereferences the `ContentRange` of
  S3's answer (`files.resolvers.go:421`) without asking whether it is nil; the panic of such an answer,
  which would end the request and leave its transaction open, is left out.
* Objects that are PUT and never confirmed: no code collects them.

One server process is assumed, as the repository deploys it; a second one would
add a second worker.

What is left to do: a composition of `ContentStore` with `FolderTree` (folders created while files are
uploaded), and the progress of lists in `Uploads`, entry by entry, as far as it is a safety
property.
