------------------------------ MODULE Hierarchy ------------------------------
(***************************************************************************)
(* The folders as clients may think of them: each is in a folder or at the *)
(* root; one is created at once, in a folder that is there; one is deleted *)
(* at once, with everything inside it and nothing else.  There are neither *)
(* paths nor statements.                                                   *)
(***************************************************************************)
CONSTANTS FolderId, Root

VARIABLES
    tree,   \* the folders, each with the one it is in
    used    \* the ids that folders have ever had

vars == <<tree, used>>

Init ==
    /\ tree = {}
    /\ used = {}

Create(i, parent) ==
    /\ i \notin used
    /\ parent = Root \/ \E f \in tree : f.id = parent
    /\ tree' = tree \cup {[id |-> i, parent |-> parent]}
    /\ used' = used \cup {i}

\* S has whatever is in one of its folders.
Whole(S) == \A f \in tree : f.parent \in S => f.id \in S

Inside(i, d) == \A S \in SUBSET FolderId : d \in S /\ Whole(S) => i \in S

Delete(d) ==
    /\ tree' = {f \in tree : ~Inside(f.id, d)}
    /\ UNCHANGED used

Next ==
    \E d \in FolderId :
        \/ Create(d, Root) \/ \E parent \in FolderId : Create(d, parent)
        \/ Delete(d)

Spec == Init /\ [][Next]_vars
=============================================================================
