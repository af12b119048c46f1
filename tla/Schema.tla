------------------------------- MODULE Schema -------------------------------
(***************************************************************************)
(* The functions that gqlgen generated from the schema of files-backend    *)
(* (internal/graph/generated/), as tables.                                 *)
(*                                                                         *)
(* T_f is what _T_f and fieldContext_T_f do for the field f of the type T: *)
(* whether a resolver method is called or a struct is read, behind which   *)
(* directive, with which arguments, and how the result is marshalled.  T   *)
(* is what _T does for an object of that type: its fields, and those that  *)
(* run concurrently.  Left out: introspection and __typename, which answer *)
(* from the schema alone.                                                  *)
(***************************************************************************)

\* How a result of type t is marshalled: whether there are many, whether null
\* is allowed (marshalO...) and whether the Go value can be nil.
Shape(t, many, nonNull, nilable) ==
    [of |-> t, many |-> many, nonNull |-> nonNull, nilable |-> nilable]

Scalar(t) == Shape(t, FALSE, TRUE, FALSE)
Pointer(t) == Shape(t, FALSE, TRUE, TRUE)
Optional(t) == Shape(t, FALSE, FALSE, TRUE)
List(t) == Shape(t, TRUE, TRUE, FALSE)  \* a nil slice is an empty list

\* The zero time is marshalled as null.
Time == Shape("Time", FALSE, TRUE, TRUE)

Read(shape) ==
    [shape |-> shape, resolver |-> FALSE, guard |-> "none", arguments |-> {}]
Call(shape, guard, arguments) ==
    [shape |-> shape, resolver |-> TRUE, guard |-> guard,
     arguments |-> arguments]

\* Fields in the order of the schema.
Object(fields, concurrently) ==
    [fields |-> fields, concurrently |-> concurrently]

-----------------------------------------------------------------------------
Mutation_createAdminUser == Call(Scalar("String"), "none",
    {"email", "password"})
Mutation_getDownloadURL == Call(Pointer("DownloadURL"), "none",
    {"fileId", "publicToken"})
Mutation_createFolder == Call(Pointer("Folder"), "auth", {"name", "parentId"})
Mutation_deleteFile == Call(Scalar("Boolean"), "auth", {"fileId"})
Mutation_deleteFolder == Call(Scalar("Boolean"), "auth", {"folderId"})
Mutation_preUploadCheck == Call(Pointer("PreUploadCheckResponse"), "auth",
    {"files"})
Mutation_confirmUploads == Call(Pointer("ConfirmUploadsResponse"), "auth",
    {"uploads"})
Mutation_shareFileWithUser == Call(Scalar("ID"), "auth", {"fileId", "email"})
Mutation_unshareFileWithUser == Call(Scalar("Boolean"), "auth",
    {"fileId", "email"})
Mutation_shareFolderWithUser == Call(Scalar("ID"), "auth",
    {"folderId", "email"})
Mutation_unshareFolderWithUser == Call(Scalar("Boolean"), "auth",
    {"folderId", "email"})
Mutation_shareFilePublic == Call(Scalar("String"), "auth", {"fileId"})
Mutation_shareFolderPublic == Call(Scalar("String"), "auth", {"folderId"})
Mutation_revokePubliclyShared == Call(Scalar("Boolean"), "auth",
    {"publicToken"})
Mutation_registerUser == Call(Pointer("AuthResponse"), "none", {"input"})
Mutation_login == Call(Pointer("AuthResponse"), "none", {"input"})

MutationFields ==
    <<<<"createAdminUser", Mutation_createAdminUser>>,
      <<"getDownloadURL", Mutation_getDownloadURL>>,
      <<"createFolder", Mutation_createFolder>>,
      <<"deleteFile", Mutation_deleteFile>>,
      <<"deleteFolder", Mutation_deleteFolder>>,
      <<"preUploadCheck", Mutation_preUploadCheck>>,
      <<"confirmUploads", Mutation_confirmUploads>>,
      <<"shareFileWithUser", Mutation_shareFileWithUser>>,
      <<"unshareFileWithUser", Mutation_unshareFileWithUser>>,
      <<"shareFolderWithUser", Mutation_shareFolderWithUser>>,
      <<"unshareFolderWithUser", Mutation_unshareFolderWithUser>>,
      <<"shareFilePublic", Mutation_shareFilePublic>>,
      <<"shareFolderPublic", Mutation_shareFolderPublic>>,
      <<"revokePubliclyShared", Mutation_revokePubliclyShared>>,
      <<"registerUser", Mutation_registerUser>>, <<"login", Mutation_login>>>>

\* The fields of a mutation are resolved one after the other.
Mutation == Object(MutationFields, {})

-----------------------------------------------------------------------------
Query_getFiles == Call(Pointer("GetFilesResponse"), "admin",
    {"search", "limit", "pageNo"})
Query_downloadFile == Call(Pointer("DownloadFileResponse"), "admin",
    {"fileID"})
Query_getUsers == Call(Pointer("GetUsersResponse"), "admin",
    {"limit", "pageNo"})

\* Mutant: the directive is forgotten (admin.graphqls).
Query_getUserByID_unguarded == Call(Pointer("User"), "none", {"userID"})

Query_getUserByID == Call(Pointer("User"), "admin", {"userID"})
Query_getUsageStatsByUser == Call(Pointer("UsageStat"), "admin", {"userID"})
Query_getFile == Call(Optional("File"), "none", {"fileId", "publicToken"})
Query_getFilesInFolder == Call(List("File"), "none",
    {"folderId", "publicToken", "sort", "filter"})
Query_getFoldersInFolder == Call(List("Folder"), "none",
    {"folderId", "publicToken", "sort", "filter"})
Query_searchFiles == Call(List("File"), "none", {"query", "search"})
Query_getFolderDetails == Call(Optional("Folder"), "none",
    {"folderId", "publicToken"})
Query_getFileShares == Call(List("Share"), "auth", {"fileId"})
Query_getFolderShares == Call(List("Share"), "auth", {"folderId"})
Query_getMyShares == Call(List("Share"), "auth", {})
Query_me == Call(Pointer("User"), "auth", {})

\* All at once.
Query == Object(
    <<<<"getFiles", Query_getFiles>>, <<"downloadFile", Query_downloadFile>>,
      <<"getUsers", Query_getUsers>>, <<"getUserByID", Query_getUserByID>>,
      <<"getUsageStatsByUser", Query_getUsageStatsByUser>>,
      <<"getFile", Query_getFile>>,
      <<"getFilesInFolder", Query_getFilesInFolder>>,
      <<"getFoldersInFolder", Query_getFoldersInFolder>>,
      <<"searchFiles", Query_searchFiles>>,
      <<"getFolderDetails", Query_getFolderDetails>>,
      <<"getFileShares", Query_getFileShares>>,
      <<"getFolderShares", Query_getFolderShares>>,
      <<"getMyShares", Query_getMyShares>>, <<"me", Query_me>>>>,
    {"getFiles", "downloadFile", "getUsers", "getUserByID",
     "getUsageStatsByUser", "getFile", "getFilesInFolder",
     "getFoldersInFolder", "searchFiles", "getFolderDetails",
     "getFileShares", "getFolderShares", "getMyShares", "me"})

-----------------------------------------------------------------------------
AuthResponse_user == Read(Pointer("User"))
AuthResponse_token == Read(Scalar("String"))

AuthResponse == Object(
    <<<<"user", AuthResponse_user>>, <<"token", AuthResponse_token>>>>,
    {})

-----------------------------------------------------------------------------
User_id == Call(Scalar("ID"), "none", {})
User_name == Read(Scalar("String"))
User_email == Read(Scalar("String"))
User_role == Read(Scalar("String"))
User_createdAt == Call(Time, "none", {})

User == Object(
    <<<<"id", User_id>>, <<"name", User_name>>, <<"email", User_email>>,
      <<"role", User_role>>, <<"createdAt", User_createdAt>>>>,
    {"id", "createdAt"})

-----------------------------------------------------------------------------
File_id == Read(Scalar("ID"))
File_filename == Read(Scalar("String"))
File_mimeType == Read(Scalar("String"))
File_size == Read(Scalar("Int"))
File_uploadDate == Read(Time)

File == Object(
    <<<<"id", File_id>>, <<"filename", File_filename>>,
      <<"mimeType", File_mimeType>>, <<"size", File_size>>,
      <<"uploadDate", File_uploadDate>>>>,
    {})

-----------------------------------------------------------------------------
Folder_id == Call(Scalar("ID"), "none", {})
Folder_name == Read(Scalar("String"))
Folder_createdAt == Call(Time, "none", {})
Folder_parentID == Call(Optional("ID"), "none", {})
Folder_path == Read(Scalar("String"))
Folder_realPath == Read(Scalar("String"))
Folder_childrenFolders == Call(List("Folder"), "none", {})
Folder_childrenFiles == Call(List("File"), "none", {})

Folder == Object(
    <<<<"id", Folder_id>>, <<"name", Folder_name>>,
      <<"createdAt", Folder_createdAt>>, <<"parentID", Folder_parentID>>,
      <<"path", Folder_path>>, <<"realPath", Folder_realPath>>,
      <<"childrenFolders", Folder_childrenFolders>>,
      <<"childrenFiles", Folder_childrenFiles>>>>,
    {"id", "createdAt", "parentID", "childrenFolders", "childrenFiles"})

-----------------------------------------------------------------------------
DownloadURL_downloadURL == Read(Scalar("String"))
DownloadURL_filename == Read(Scalar("String"))

DownloadURL == Object(
    <<<<"downloadURL", DownloadURL_downloadURL>>,
      <<"filename", DownloadURL_filename>>>>,
    {})

-----------------------------------------------------------------------------
PreUploadCheckResponse_completedFiles == Read(List("File"))
PreUploadCheckResponse_newFiles == Read(List("PreSignedURL"))

PreUploadCheckResponse == Object(
    <<<<"completedFiles", PreUploadCheckResponse_completedFiles>>,
      <<"newFiles", PreUploadCheckResponse_newFiles>>>>,
    {})

-----------------------------------------------------------------------------
PreSignedURL_filename == Read(Scalar("String"))
PreSignedURL_hash == Read(Scalar("String"))
PreSignedURL_uploadURL == Read(Scalar("String"))

PreSignedURL == Object(
    <<<<"filename", PreSignedURL_filename>>, <<"hash", PreSignedURL_hash>>,
      <<"uploadURL", PreSignedURL_uploadURL>>>>,
    {})

-----------------------------------------------------------------------------
ConfirmUploadsResponse_files == Read(List("File"))
ConfirmUploadsResponse_failedUploads == Read(List("FailedUpload"))

ConfirmUploadsResponse == Object(
    <<<<"files", ConfirmUploadsResponse_files>>,
      <<"failedUploads", ConfirmUploadsResponse_failedUploads>>>>,
    {})

-----------------------------------------------------------------------------
FailedUpload_hash == Read(Scalar("String"))
FailedUpload_reason == Read(Scalar("String"))

FailedUpload == Object(
    <<<<"hash", FailedUpload_hash>>, <<"reason", FailedUpload_reason>>>>,
    {})

-----------------------------------------------------------------------------
Share_id == Call(Scalar("ID"), "none", {})
Share_owner == Call(Pointer("User"), "none", {})
Share_sharedWith == Call(Optional("User"), "none", {})
Share_shareType == Call(Scalar("String"), "none", {})
Share_publicToken == Call(Optional("String"), "none", {})
Share_downloadCount == Read(Scalar("Int"))
Share_createdAt == Call(Scalar("String"), "none", {})

Share == Object(
    <<<<"id", Share_id>>, <<"owner", Share_owner>>,
      <<"sharedWith", Share_sharedWith>>, <<"shareType", Share_shareType>>,
      <<"publicToken", Share_publicToken>>,
      <<"downloadCount", Share_downloadCount>>,
      <<"createdAt", Share_createdAt>>>>,
    {"id", "owner", "sharedWith", "shareType", "publicToken", "createdAt"})

-----------------------------------------------------------------------------
GetFilesResponse_files == Read(List("AdminFile"))
GetFilesResponse_pagination == Read(Pointer("Pagination"))

GetFilesResponse == Object(
    <<<<"files", GetFilesResponse_files>>,
      <<"pagination", GetFilesResponse_pagination>>>>,
    {})

-----------------------------------------------------------------------------
AdminFile_id == Read(Scalar("ID"))
AdminFile_ownerID == Read(Scalar("ID"))
AdminFile_filename == Read(Scalar("String"))
AdminFile_mimeType == Read(Scalar("String"))
AdminFile_size == Read(Scalar("Int"))
AdminFile_uploadDate == Read(Time)
AdminFile_downloadCount == Read(Scalar("Int"))

AdminFile == Object(
    <<<<"id", AdminFile_id>>, <<"ownerID", AdminFile_ownerID>>,
      <<"filename", AdminFile_filename>>, <<"mimeType", AdminFile_mimeType>>,
      <<"size", AdminFile_size>>, <<"uploadDate", AdminFile_uploadDate>>,
      <<"downloadCount", AdminFile_downloadCount>>>>,
    {})

-----------------------------------------------------------------------------
GetUsersResponse_users == Read(List("User"))
GetUsersResponse_pagination == Read(Pointer("Pagination"))

GetUsersResponse == Object(
    <<<<"users", GetUsersResponse_users>>,
      <<"pagination", GetUsersResponse_pagination>>>>,
    {})

-----------------------------------------------------------------------------
DownloadFileResponse_url == Read(Scalar("String"))
DownloadFileResponse_filename == Read(Scalar("String"))

DownloadFileResponse == Object(
    <<<<"url", DownloadFileResponse_url>>,
      <<"filename", DownloadFileResponse_filename>>>>,
    {})

-----------------------------------------------------------------------------
UsageStat_totalStorageUsed == Read(Scalar("Int"))
UsageStat_actualStorageUsed == Read(Scalar("Int"))

UsageStat == Object(
    <<<<"totalStorageUsed", UsageStat_totalStorageUsed>>,
      <<"actualStorageUsed", UsageStat_actualStorageUsed>>>>,
    {})

-----------------------------------------------------------------------------
Pagination_count == Read(Scalar("Int"))
Pagination_totalCount == Read(Scalar("Int"))
Pagination_pageNo == Read(Scalar("Int"))
Pagination_totalPages == Read(Scalar("Int"))
Pagination_limit == Read(Scalar("Int"))

Pagination == Object(
    <<<<"count", Pagination_count>>, <<"totalCount", Pagination_totalCount>>,
      <<"pageNo", Pagination_pageNo>>,
      <<"totalPages", Pagination_totalPages>>, <<"limit", Pagination_limit>>>>,
    {})

-----------------------------------------------------------------------------
Types ==
    [Mutation |-> Mutation,
     Query |-> Query,
     AuthResponse |-> AuthResponse,
     User |-> User,
     File |-> File,
     Folder |-> Folder,
     DownloadURL |-> DownloadURL,
     PreUploadCheckResponse |-> PreUploadCheckResponse,
     PreSignedURL |-> PreSignedURL,
     ConfirmUploadsResponse |-> ConfirmUploadsResponse,
     FailedUpload |-> FailedUpload,
     Share |-> Share,
     GetFilesResponse |-> GetFilesResponse,
     AdminFile |-> AdminFile,
     GetUsersResponse |-> GetUsersResponse,
     DownloadFileResponse |-> DownloadFileResponse,
     UsageStat |-> UsageStat,
     Pagination |-> Pagination]

=============================================================================
