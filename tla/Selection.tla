------------------------------ MODULE Selection ------------------------------
(***************************************************************************)
(* The positions of responses in the schema of files-backend, and          *)
(* operations that select them, for module Execution.                      *)
(*                                                                         *)
(* A position is the path of a field: the names of fields and, in lists,   *)
(* "#1" and "#2".  Clients send every operation that selects one leaf of   *)
(* the schema up to MaxDepth, in lists of one element, and Combined, some  *)
(* that select several.                                                    *)
(***************************************************************************)
EXTENDS Schema, Naturals, SequencesExt, TLC

CONSTANT MaxDepth

\* What stands at the end of a path: a field with its type, or an element.
KindOf(types, shape) ==
    IF shape.many THEN "list"
    ELSE IF shape.of \in DOMAIN types THEN "object" ELSE "leaf"
Node(types, field, within) ==
    [of |-> field.shape.of, within |-> within, field |-> field,
     kind |-> KindOf(types, field.shape)]

Names(types, t) == {f[1] : f \in ToSet(types[t].fields)}
Index(types, t, name) ==
    CHOOSE i \in DOMAIN types[t].fields : types[t].fields[i][1] = name
FieldNode(types, t, name) ==
    Node(types, types[t].fields[Index(types, t, name)][2], t)

\* An operation is a mutation or a query: a path starts in one or the other.
RootType(types, name) ==
    IF name \in Names(types, "Mutation") THEN "Mutation" ELSE "Query"

\* The elements of every list are required and are pointers.
Step(types, n, name) ==
    CASE n.kind = "list" -> Node(types, Read(Pointer(n.of)), "list")
      [] n.within = "" -> FieldNode(types, RootType(types, name), name)
      [] OTHER -> FieldNode(types, n.of, name)
NodeAt(types, path) ==
    FoldLeft(LAMBDA n, name : Step(types, n, name),
             Node(types, Read(Pointer("Query")), ""), path)

StepsFrom(types, n) ==
    CASE n.kind = "leaf" -> {}
      [] n.kind = "list" -> {"#1"}
      [] n.within = "" -> Names(types, "Mutation") \cup Names(types, "Query")
      [] OTHER -> Names(types, n.of)

Leaves(types) ==
    LET paths[n \in Nat] ==
            IF n = 0 THEN {<<>>}
            ELSE UNION {{Append(p, s) : s \in StepsFrom(types, NodeAt(types, p))} :
                            p \in paths[n - 1]}
    IN  {p \in UNION {paths[n] : n \in 1 .. MaxDepth} :
            NodeAt(types, p).kind = "leaf"}

\* In an object, the fields that are not concurrent run first, in their order;
\* the elements of a list are concurrent.
Inline(types, t, f) == f \notin types[t].concurrently
Earlier(types, t, f) ==
    {g \in Names(types, t) :
        /\ Inline(types, t, g)
        /\ Inline(types, t, f) => Index(types, t, g) < Index(types, t, f)}
BeforePath(types, path, within) ==
    IF within \in {"", "list"} THEN {}
    ELSE {Append(Front(path), g) : g \in Earlier(types, within, Last(path))}

-----------------------------------------------------------------------------
\* A path and those that lead to it.
Along(path) == {SubSeq(path, 1, n) : n \in 0 .. Len(path)}
Select(leaves) == UNION {Along(p) : p \in leaves}

Elements == {"#1", "#2"}
Both(list, field) == {<<list, e, field>> : e \in Elements}
Combined == {
    \* mutations, in sequence
    Select({<<"deleteFile">>, <<"createFolder", "id">>,
            <<"createFolder", "path">>, <<"shareFilePublic">>}),
    Select({<<"registerUser", "token">>, <<"registerUser", "user", "id">>,
            <<"login", "token">>}),
    \* queries, side by side
    Select({<<"me", "name">>, <<"getUserByID", "createdAt">>,
            <<"getFile", "uploadDate">>}),
    Select({<<"getFiles", "pagination", "count">>,
            <<"getFiles", "files", "#1", "uploadDate">>, <<"me", "id">>}),
    \* required and optional fields, computed and read, in one object
    Select({<<"getFolderDetails", f>> :
                f \in {"id", "name", "createdAt", "parentID"}}),
    Select({<<"getFolderDetails", "createdAt">>,
            <<"getFolderDetails", "childrenFolders", "#1", "id">>,
            <<"getFolderDetails", "childrenFiles", "#1", "uploadDate">>}),
    Select({<<"getMyShares", "#1", "owner", "id">>,
            <<"getMyShares", "#1", "sharedWith", "name">>}),
    \* several elements
    Select(Both("getFoldersInFolder", "id")
             \cup {<<"getFoldersInFolder", "#1", "parentID">>}),
    Select(Both("getFilesInFolder", "uploadDate")
             \cup Both("getFilesInFolder", "filename")),
    Select({<<"preUploadCheck", "completedFiles", "#1", "uploadDate">>,
            <<"preUploadCheck", "newFiles", "#1", "hash">>,
            <<"preUploadCheck", "newFiles", "#2", "hash">>})
}

-----------------------------------------------------------------------------
\* The constants of Execution.  Each table is a parameter of the next
\* definition, so that TLC computes it once.
TablesOf(types, operations, nodes) ==
    LET paths == DOMAIN nodes
        Where(Test(_)) == {p \in paths : Test(nodes[p])}
        Table(Op(_)) == [p \in paths |-> Op(p)] @@ <<>>
    IN  [operation |-> operations,
         position |-> paths,
         node |-> nodes,
         parent |-> [p \in paths \ {<<>>} |-> Front(p)] @@ <<>>,
         below |-> Table(LAMBDA p : {q \in paths : IsPrefix(p, q)}),
         before |-> Table(LAMBDA p :
                        paths \cap BeforePath(types, p, nodes[p].within)),
         kind |-> Table(LAMBDA p : nodes[p].kind),
         guard |-> Table(LAMBDA p : nodes[p].field.guard),
         nonNull |-> Where(LAMBDA n : n.field.shape.nonNull),
         nilable |-> Where(LAMBDA n : n.field.shape.nilable) \ {<<>>},
         resolved |-> Where(LAMBDA n : n.field.resolver),
         parsed |-> Where(LAMBDA n : n.field.arguments # {})]

TablesOfNodes(types, operations) ==
    TablesOf(types, operations,
             [p \in UNION operations |-> NodeAt(types, p)] @@ <<>>)
TablesOfTypes(types) ==
    TablesOfNodes(types, {Along(p) : p \in Leaves(types)} \cup Combined)
Tables == TablesOfTypes(Types)
=============================================================================
