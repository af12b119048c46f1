----------------------------- MODULE MCExecution -----------------------------
(***************************************************************************)
(* Execution over the schema of files-backend, for TLC.  Selection comes   *)
(* first: TLC computes its tables once, before anything that uses them.    *)
(***************************************************************************)
EXTENDS Selection, Execution

MCOperations == Tables.operation
MCPosition == Tables.position
MCRoot == <<>>
MCParent == Tables.parent
MCBelow == Tables.below
MCBefore == Tables.before
MCKind == Tables.kind
MCGuard == Tables.guard
MCNonNull == Tables.nonNull
MCNilable == Tables.nilable
MCResolved == Tables.resolved
MCParsed == Tables.parsed
MCRequester == {"anonymous", "user", "admin"}

\* The root fields of mutations.
MCInSequence == {p \in Tables.position : Tables.node[p].within = "Mutation"}

\* The fields that admin.graphqls declares with @hasRole(role: "admin"), by
\* name and not by what Schema says of them, with everything in their answers.
AdminFields == {"getFiles", "downloadFile", "getUsers", "getUserByID",
                "getUsageStatsByUser"}
MCRestricted == {p \in Tables.position \ {<<>>} : Head(p) \in AdminFields}
=============================================================================
